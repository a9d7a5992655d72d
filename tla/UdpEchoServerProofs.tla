------------------------ MODULE UdpEchoServerProofs ------------------------
(***************************************************************************)
(* Proofs about UdpEchoServer, for any number of servers, clients and      *)
(* datagrams and any buffer size.                                          *)
(***************************************************************************)
EXTENDS UdpEchoServer, SequenceTheorems, TLAPS

IInv == TypeOK /\ OneOutstandingOperation /\ BuffersMatchRequest

LEMMA FitType == \A n \in Nat : Fit(n) \in Nat
  BY ServerAssumption DEF Fit

LEMMA InitInvariant == Init => IInv
<1> SUFFICES ASSUME Init PROVE IInv
  OBVIOUS
<1>1. TypeOK
  BY ServerAssumption DEF Init, ServerInit, TypeOK
<1>2. \A s \in Servers : recvd[s] = <<>> /\ tx[s] = <<>> /\ rx[s] = 1 /\ sent[s] = 0
  BY DEF Init, ServerInit
<1>3. OneOutstandingOperation
  <2> SUFFICES ASSUME NEW s \in Servers
               PROVE  rx[s] + Len(recvd[s]) + Len(tx[s]) + sent[s] = 1
    BY DEF OneOutstandingOperation
  <2>1. Len(recvd[s]) = 0 /\ Len(tx[s]) = 0
    BY <1>2
  <2> QED
    BY <1>2, <2>1
<1>4. BuffersMatchRequest
  <2>1. DOMAIN <<>> = {}
    OBVIOUS
  <2> QED
    BY <1>2, <2>1 DEF BuffersMatchRequest
<1> QED
  BY <1>1, <1>3, <1>4 DEF IInv

\* A completed receive leaves an idle server with one request, whose bytes and
\* sender are in its buffer.
LEMMA KernelReceiveStep ==
  ASSUME IInv, NEW s \in Servers, KernelReceive(s) PROVE IInv'
<1> USE DEF IInv, TypeOK
<1>1. PICK d \in net, e \in BOOLEAN :
        /\ d.dst = s
        /\ net' = net \ {d}
        /\ data' = [data EXCEPT ![s] = d.body]
        /\ endpoint' = [endpoint EXCEPT ![s] = d.src]
        /\ recvd' = [recvd EXCEPT ![s] = Append(@,
                       [error |-> e, bytes |-> Fit(d.len), req |-> d])]
  BY DEF KernelReceive
<1>2. d \in Request
  BY <1>1, ServerAssumption DEF Request, Reply
<1>3. rx[s] = 1 /\ Len(recvd[s]) = 0 /\ Len(tx[s]) = 0 /\ sent[s] = 0
  BY DEF KernelReceive, OneOutstandingOperation
<1>4. recvd[s] = <<>> /\ tx[s] = <<>>
  BY <1>3
<1> DEFINE h == [error |-> e, bytes |-> Fit(d.len), req |-> d]
<1>5. h \in Completion
  BY <1>2, FitType DEF Completion, Request
<1>6. recvd' = [recvd EXCEPT ![s] = <<h>>]
  BY <1>1, <1>4
<1>7. TypeOK'
  <2>1. <<h>> \in Seq(Completion)
    BY <1>5
  <2>2. recvd' \in [Servers -> Seq(Completion)]
    BY <1>6, <2>1
  <2>3. d.body \in Bodies /\ d.src \in Clients
    BY <1>2 DEF Request
  <2>4. net' \subseteq Request \cup Reply /\ rx' \in [Servers -> Nat]
    BY <1>1, <1>3 DEF KernelReceive
  <2>5. data' \in [Servers -> Bodies \cup {Zero}]
          /\ endpoint' \in [Servers -> Clients \cup {NoEndpoint}]
    BY <1>1, <2>3
  <2> QED
    BY <2>2, <2>4, <2>5 DEF KernelReceive
<1>8. OneOutstandingOperation'
  BY <1>3, <1>6 DEF KernelReceive, OneOutstandingOperation
<1>9. BuffersMatchRequest'
  BY <1>1, <1>4, <1>6 DEF KernelReceive, BuffersMatchRequest
<1> QED
  BY <1>7, <1>8, <1>9

LEMMA KernelReceiveErrorStep ==
  ASSUME IInv, NEW s \in Servers, KernelReceiveError(s) PROVE IInv'
<1> USE DEF IInv, TypeOK
<1> DEFINE h == [error |-> TRUE, bytes |-> 0, req |-> NoRequest]
<1>1. rx[s] = 1 /\ Len(recvd[s]) = 0 /\ Len(tx[s]) = 0 /\ sent[s] = 0
  BY DEF KernelReceiveError, OneOutstandingOperation
<1>2. recvd[s] = <<>> /\ tx[s] = <<>>
  BY <1>1
<1>3. recvd' = [recvd EXCEPT ![s] = <<h>>]
  BY <1>2 DEF KernelReceiveError
<1>4. h \in Completion
  BY DEF Completion
<1>5. TypeOK'
  <2>1. <<h>> \in Seq(Completion)
    BY <1>4
  <2>2. recvd' \in [Servers -> Seq(Completion)]
    BY <1>3, <2>1
  <2>3. rx' \in [Servers -> Nat]
    BY <1>1 DEF KernelReceiveError
  <2> QED
    BY <2>2, <2>3 DEF KernelReceiveError, netVars
<1>6. OneOutstandingOperation'
  BY <1>1, <1>3 DEF KernelReceiveError, OneOutstandingOperation
<1>7. BuffersMatchRequest'
  BY <1>2, <1>3 DEF KernelReceiveError, BuffersMatchRequest, netVars
<1> QED
  BY <1>5, <1>6, <1>7

LEMMA Singleton ==
  ASSUME NEW T, NEW q \in Seq(T)
  PROVE  /\ Len(q) \in Nat
         /\ Len(q) = 0 <=> q = <<>>
         /\ Len(q) = 1 => /\ q = <<Head(q)>> /\ Head(q) = q[1]
                         /\ Head(q) \in T /\ Tail(q) = <<>>
<1>1. Len(q) \in Nat /\ (Len(q) = 0 <=> q = <<>>)
  OBVIOUS
<1>2. ASSUME Len(q) = 1
      PROVE  /\ q = <<Head(q)>> /\ Head(q) = q[1] /\ Head(q) \in T /\ Tail(q) = <<>>
  <2>1. Head(q) = q[1] /\ Head(q) \in T /\ q = <<Head(q)>>
    BY <1>2
  <2>2. Tail(q) \in Seq(T) /\ Len(Tail(q)) = 0
    <3>1. q # <<>>
      BY <1>1, <1>2
    <3>2. Tail(q) \in Seq(T) /\ Len(Tail(q)) = Len(q) - 1
      BY <3>1, HeadTailProperties
    <3> QED
      BY <1>2, <3>2
  <2>3. Tail(q) = <<>>
    BY <2>2, EmptySeq
  <2> QED
    BY <2>1, <2>3
<1> QED
  BY <1>1, <1>2

LEMMA OneOfFour ==
  ASSUME NEW r \in Nat, NEW n \in Nat,
         NEW S, NEW p \in Seq(S), NEW T, NEW q \in Seq(T),
         r + Len(p) + Len(q) + n = 1
  PROVE  /\ p # <<>> => r = 0 /\ Len(p) = 1 /\ q = <<>> /\ n = 0
         /\ q # <<>> => r = 0 /\ p = <<>> /\ Len(q) = 1 /\ n = 0
         /\ n > 0 => r = 0 /\ p = <<>> /\ q = <<>> /\ n = 1
<1>1. \A a, b, c, d \in Nat : a + b + c + d = 1 =>
        /\ b # 0 => a = 0 /\ b = 1 /\ c = 0 /\ d = 0
        /\ c # 0 => a = 0 /\ b = 0 /\ c = 1 /\ d = 0
        /\ d > 0 => a = 0 /\ b = 0 /\ c = 0 /\ d = 1
  OBVIOUS
<1>2. /\ Len(p) \in Nat /\ (Len(p) = 0 <=> p = <<>>)
      /\ Len(q) \in Nat /\ (Len(q) = 0 <=> q = <<>>)
  BY Singleton
<1> DEFINE lp == Len(p)  lq == Len(q)
<1>3. lp \in Nat /\ lq \in Nat /\ r + lp + lq + n = 1
  BY <1>2
<1> HIDE DEF lp, lq
<1>4. /\ lp # 0 => r = 0 /\ lp = 1 /\ lq = 0 /\ n = 0
      /\ lq # 0 => r = 0 /\ lp = 0 /\ lq = 1 /\ n = 0
      /\ n > 0 => r = 0 /\ lp = 0 /\ lq = 0 /\ n = 1
  BY <1>1, <1>3
<1> QED
  BY <1>2, <1>4 DEF lp, lq

\* A server with a completed receive has nothing else, and the same of a send.
LEMMA Alone ==
  ASSUME IInv, NEW s \in Servers
  PROVE  /\ recvd[s] # <<>> => /\ recvd[s] = <<Head(recvd[s])>>
                              /\ Head(recvd[s]) = recvd[s][1]
                              /\ Tail(recvd[s]) = <<>>
                              /\ Head(recvd[s]) \in Completion
                              /\ tx[s] = <<>> /\ rx[s] = 0 /\ sent[s] = 0
         /\ tx[s] # <<>> => /\ tx[s] = <<Head(tx[s])>>
                           /\ Head(tx[s]) = tx[s][1]
                           /\ Tail(tx[s]) = <<>>
                           /\ Head(tx[s]) \in SendOp
                           /\ recvd[s] = <<>> /\ rx[s] = 0 /\ sent[s] = 0
         /\ sent[s] > 0 => recvd[s] = <<>> /\ tx[s] = <<>> /\ rx[s] = 0 /\ sent[s] = 1
<1> USE DEF IInv, TypeOK
<1>1. rx[s] + Len(recvd[s]) + Len(tx[s]) + sent[s] = 1
  BY DEF OneOutstandingOperation
<1>2. /\ rx[s] \in Nat /\ sent[s] \in Nat
      /\ recvd[s] \in Seq(Completion) /\ tx[s] \in Seq(SendOp)
  OBVIOUS
<1>3. /\ recvd[s] # <<>> => Len(recvd[s]) = 1 /\ tx[s] = <<>> /\ rx[s] = 0 /\ sent[s] = 0
      /\ tx[s] # <<>> => Len(tx[s]) = 1 /\ recvd[s] = <<>> /\ rx[s] = 0 /\ sent[s] = 0
      /\ sent[s] > 0 => recvd[s] = <<>> /\ tx[s] = <<>> /\ rx[s] = 0 /\ sent[s] = 1
  BY <1>1, <1>2, OneOfFour
<1>4. recvd[s] # <<>> => /\ recvd[s] = <<Head(recvd[s])>>
                         /\ Head(recvd[s]) = recvd[s][1]
                         /\ Tail(recvd[s]) = <<>>
                         /\ Head(recvd[s]) \in Completion
  BY <1>2, <1>3, Singleton
<1>5. tx[s] # <<>> => /\ tx[s] = <<Head(tx[s])>>
                      /\ Head(tx[s]) = tx[s][1]
                      /\ Tail(tx[s]) = <<>>
                      /\ Head(tx[s]) \in SendOp
  BY <1>2, <1>3, Singleton
<1> QED
  BY <1>3, <1>4, <1>5

LEMMA SendStep ==
  ASSUME IInv, NEW s \in Servers, KernelSend(s) PROVE IInv'
<1> USE DEF IInv, TypeOK
<1>1. /\ tx[s] # <<>>
      /\ tx' = [tx EXCEPT ![s] = Tail(@)]
      /\ sent' = [sent EXCEPT ![s] = @ + 1]
      /\ UNCHANGED <<issued, rx, recvd, data, endpoint, wiping>>
  BY DEF KernelSend, SendLeaves, SendFails, netVars
<1>2. /\ Tail(tx[s]) = <<>> /\ Head(tx[s]) \in SendOp
      /\ recvd[s] = <<>> /\ rx[s] = 0 /\ sent[s] = 0
  BY <1>1, Alone
<1>3. tx' = [tx EXCEPT ![s] = <<>>]
  BY <1>1, <1>2
<1>4. TypeOK'
  <2>1. tx' \in [Servers -> Seq(SendOp)] /\ sent' \in [Servers -> Nat]
    BY <1>1, <1>3
  <2>2. Echo(s, Head(tx[s])) \in Reply
    BY <1>2 DEF Echo, Reply, SendOp, Request
  <2>3. net' \subseteq Request \cup Reply
    BY <2>2 DEF KernelSend, SendLeaves, SendFails, netVars
  <2>4. unreachable' \in [Servers -> BOOLEAN]
    BY DEF KernelSend, SendLeaves, SendFails
  <2> QED
    BY <1>1, <2>1, <2>3, <2>4
<1>5. OneOutstandingOperation'
  <2> SUFFICES ASSUME NEW t \in Servers
               PROVE  (rx[t] + Len(recvd[t]) + Len(tx[t]) + sent[t] = 1)'
    BY DEF OneOutstandingOperation
  <2>1. CASE t = s
    <3>1. /\ rx'[t] = 0 /\ recvd'[t] = <<>> /\ tx'[t] = <<>>
          /\ sent'[t] = 1
      BY <1>1, <1>2, <1>3, <2>1
    <3>2. Len(recvd'[t]) = 0 /\ Len(tx'[t]) = 0
      BY <3>1
    <3> QED
      BY <3>1, <3>2
  <2>2. CASE t # s
    BY <1>1, <1>2, <1>3, <2>2 DEF OneOutstandingOperation
  <2> QED
    BY <2>1, <2>2
<1>6. BuffersMatchRequest'
  BY <1>1, <1>3 DEF BuffersMatchRequest
<1> QED
  BY <1>4, <1>5, <1>6

\* The answer is started with the length and the sender of the request; after
\* an error, or an empty datagram, the server only receives again.
LEMMA HandleReceiveFromStep ==
  ASSUME IInv, NEW s \in Servers, HandleReceiveFrom(s) PROVE IInv'
<1> USE DEF IInv, TypeOK
<1> DEFINE h == Head(recvd[s])
           op == [to |-> endpoint[s], len |-> h.bytes, req |-> h.req]
<1>1. recvd' = [recvd EXCEPT ![s] = Tail(@)]
      /\ UNCHANGED <<netVars, sent, data, endpoint, wiping, unreachable>>
  BY DEF HandleReceiveFrom
<1>2. /\ recvd[s] = <<h>> /\ h = recvd[s][1] /\ Tail(recvd[s]) = <<>>
      /\ h \in Completion
      /\ tx[s] = <<>> /\ rx[s] = 0 /\ sent[s] = 0
  BY Alone DEF HandleReceiveFrom
<1>3. recvd' = [recvd EXCEPT ![s] = <<>>]
  BY <1>1, <1>2
<1>4. recvd' \in [Servers -> Seq(Completion)]
  BY <1>3
<1>5. CASE ~h.error /\ h.bytes > 0
  <2>1. tx' = [tx EXCEPT ![s] = <<op>>] /\ UNCHANGED rx
    BY <1>2, <1>5 DEF HandleReceiveFrom, AsyncSendTo
  <2>2. h.req \in Request /\ h.req # NoRequest /\ h.bytes \in Nat
    BY <1>2, <1>5, ServerAssumption DEF Completion
  <2>3. /\ h.req.dst = s /\ h.bytes = Fit(h.req.len)
        /\ endpoint[s] = h.req.src /\ data[s] \in {h.req.body, Zero}
    <3>1. 1 \in DOMAIN recvd[s]
      BY <1>2
    <3> QED
      BY <1>2, <2>2, <3>1 DEF BuffersMatchRequest
  <2>4. op \in SendOp
    BY <2>2, <2>3 DEF SendOp, Request
  <2>5. TypeOK'
    <3>1. <<op>> \in Seq(SendOp)
      BY <2>4
    <3>2. tx' \in [Servers -> Seq(SendOp)]
      BY <2>1, <3>1
    <3> QED
      BY <1>1, <1>4, <2>1, <3>2 DEF netVars
  <2>6. OneOutstandingOperation'
    BY <1>1, <1>2, <1>3, <2>1 DEF OneOutstandingOperation
  <2>7. BuffersMatchRequest'
    <3>1. DOMAIN recvd'[s] = {}
      BY <1>3
    <3>2. DOMAIN tx'[s] = {1} /\ tx'[s][1] = op
      BY <1>2, <2>1
    <3>3. UNCHANGED <<data, endpoint>>
      BY <1>1
    <3>4. \A t \in Servers \ {s} : recvd'[t] = recvd[t] /\ tx'[t] = tx[t]
      BY <1>3, <2>1
    <3>5. op.req = h.req /\ op.len = h.bytes /\ op.to = endpoint[s]
      OBVIOUS
    <3> SUFFICES ASSUME NEW t \in Servers
                 PROVE  /\ \A i \in DOMAIN recvd'[t] : LET g == recvd'[t][i] IN
                             g.req # NoRequest =>
                               /\ g.req.dst = t /\ g.bytes = Fit(g.req.len)
                               /\ endpoint'[t] = g.req.src
                               /\ data'[t] \in {g.req.body, Zero}
                        /\ \A i \in DOMAIN tx'[t] : LET o == tx'[t][i] IN
                             /\ o.req.dst = t /\ o.len = Fit(o.req.len)
                             /\ o.to = o.req.src
                             /\ data'[t] \in {o.req.body, Zero}
      BY DEF BuffersMatchRequest
    <3> HIDE DEF op, h
    <3>6. CASE t = s
      BY <2>3, <3>1, <3>2, <3>3, <3>5, <3>6
    <3>7. CASE t # s
      BY <3>3, <3>4, <3>7 DEF BuffersMatchRequest
    <3> QED
      BY <3>6, <3>7
  <2> QED
    BY <2>5, <2>6, <2>7
<1>6. CASE h.error \/ h.bytes = 0
  <2>1. rx' = [rx EXCEPT ![s] = 1] /\ UNCHANGED tx
    BY <1>2, <1>6 DEF HandleReceiveFrom, AsyncReceiveFrom
  <2>2. TypeOK'
    BY <1>1, <1>4, <2>1 DEF netVars
  <2>3. OneOutstandingOperation'
    BY <1>1, <1>2, <1>3, <2>1 DEF OneOutstandingOperation
  <2>4. BuffersMatchRequest'
    BY <1>1, <1>3, <2>1 DEF BuffersMatchRequest
  <2> QED
    BY <2>2, <2>3, <2>4
<1> QED
  BY <1>5, <1>6 DEF HandleReceiveFrom

LEMMA HandleSendToStep ==
  ASSUME IInv, NEW s \in Servers, HandleSendTo(s) PROVE IInv'
<1> USE DEF IInv, TypeOK
<1>1. recvd[s] = <<>> /\ tx[s] = <<>> /\ rx[s] = 0 /\ sent[s] = 1
  BY Alone DEF HandleSendTo
<1>2. /\ rx' = [rx EXCEPT ![s] = 1] /\ sent' = [sent EXCEPT ![s] = 0]
      /\ wiping' = [wiping EXCEPT ![s] = TRUE]
      /\ UNCHANGED <<netVars, recvd, tx, data, endpoint, unreachable>>
  BY <1>1 DEF HandleSendTo, AsyncReceiveFrom
<1>3. TypeOK'
  BY <1>2 DEF netVars
<1>4. OneOutstandingOperation'
  <2> SUFFICES ASSUME NEW t \in Servers
               PROVE  (rx[t] + Len(recvd[t]) + Len(tx[t]) + sent[t] = 1)'
    BY DEF OneOutstandingOperation
  <2>1. CASE t = s
    BY <1>1, <1>2, <2>1
  <2>2. CASE t # s
    BY <1>1, <1>2, <2>2 DEF OneOutstandingOperation
  <2> QED
    BY <2>1, <2>2
<1>5. BuffersMatchRequest'
  BY <1>2 DEF BuffersMatchRequest
<1> QED
  BY <1>3, <1>4, <1>5

LEMMA ClearBufferStep ==
  ASSUME IInv, NEW s \in Servers, ClearBuffer(s) PROVE IInv'
<1> USE DEF IInv, TypeOK
<1>1. TypeOK'
  BY DEF ClearBuffer, netVars
<1>2. OneOutstandingOperation'
  BY DEF ClearBuffer, OneOutstandingOperation
<1>3. BuffersMatchRequest'
  BY DEF ClearBuffer, BuffersMatchRequest
<1> QED
  BY <1>1, <1>2, <1>3

\* The clients and the network only change net and issued.
LEMMA EnvironmentStep ==
  ASSUME IInv,
         \/ \E c \in Clients : ClientSend(c)
         \/ \E d \in net : Vanish(d)
  PROVE  IInv' /\ UNCHANGED serverVars
<1> USE DEF IInv
<1>1. UNCHANGED serverVars
  BY DEF ClientSend, Vanish
<1>2. net' \subseteq Request \cup Reply /\ issued' \in [Clients -> 0..MaxSends]
  <2>1. ASSUME NEW c \in Clients, ClientSend(c)
        PROVE  net' \subseteq Request \cup Reply /\ issued' \in [Clients -> 0..MaxSends]
    <3>1. issued[c] + 1 \in 1..MaxSends
      BY <2>1, ServerAssumption DEF ClientSend, TypeOK
    <3>2. PICK r \in Request : net' = net \cup {r}
      BY <2>1, <3>1, ServerAssumption DEF ClientSend, Request
    <3> QED
      BY <2>1, <3>1, <3>2, ServerAssumption DEF ClientSend, TypeOK
  <2>2. ASSUME NEW d \in net, Vanish(d)
        PROVE  net' \subseteq Request \cup Reply /\ issued' \in [Clients -> 0..MaxSends]
    BY <2>2 DEF Vanish, TypeOK
  <2> QED
    BY <2>1, <2>2
<1>3. TypeOK'
  BY <1>1, <1>2 DEF TypeOK, serverVars
<1>4. OneOutstandingOperation' /\ BuffersMatchRequest'
  BY <1>1 DEF serverVars, OneOutstandingOperation, BuffersMatchRequest
<1> QED
  BY <1>1, <1>3, <1>4

LEMMA NextInvariant == IInv /\ [Next]_vars => IInv'
<1> SUFFICES ASSUME IInv, [Next]_vars PROVE IInv'
  OBVIOUS
<1>1. ASSUME NEW s \in Servers, Handler(s) PROVE IInv'
  BY <1>1, HandleReceiveFromStep, HandleSendToStep, ClearBufferStep DEF Handler
<1>2. ASSUME NEW s \in Servers, Kernel(s) PROVE IInv'
  BY <1>2, KernelReceiveStep, KernelReceiveErrorStep, SendStep DEF Kernel
<1>3. CASE \/ \E c \in Clients : ClientSend(c)
           \/ \E d \in net : Vanish(d)
  BY <1>3, EnvironmentStep
<1>4. CASE UNCHANGED vars
  BY <1>4 DEF IInv, TypeOK, OneOutstandingOperation, BuffersMatchRequest, vars,
              netVars, serverVars
<1> QED
  BY <1>1, <1>2, <1>3, <1>4 DEF Next

\* The types, the one operation in progress of each server, and the agreement
\* of its buffers with the request it works for form an inductive invariant:
\* one operation at a time is why no receive overwrites the buffers, and that
\* they belong to a client's request is why the answer has a destination.
THEOREM InvariantHolds == Spec => []IInv
  BY InitInvariant, NextInvariant, PTL DEF Spec

THEOREM TypeCorrect == Spec => []TypeOK
  BY InvariantHolds, PTL DEF IInv

\* Each server always has exactly one operation in progress or completed.
THEOREM OneOperation == Spec => []OneOutstandingOperation
  BY InvariantHolds, PTL DEF IInv

\* The shared buffer and endpoint are those of the request being worked on.
THEOREM BuffersAgree == Spec => []BuffersMatchRequest
  BY InvariantHolds, PTL DEF IInv

-----------------------------------------------------------------------------
(* The server implements the echo service.                                 *)

\* A datagram a client has yet to send is not on the network.
FreshIds == \A d \in net : d \in Request => d.id <= issued[d.src]

LEMMA FreshStep == IInv /\ FreshIds /\ [Next]_vars => FreshIds'
<1> SUFFICES ASSUME IInv, FreshIds, [Next]_vars PROVE FreshIds'
  OBVIOUS
<1> USE DEF IInv
<1>1. ASSUME UNCHANGED issued, net' \cap Request \subseteq net PROVE FreshIds'
  BY <1>1 DEF FreshIds
<1>2. ASSUME NEW s \in Servers, Handler(s) PROVE FreshIds'
  BY <1>1, <1>2 DEF Handler, HandleReceiveFrom, HandleSendTo, ClearBuffer, netVars
<1>3. ASSUME NEW s \in Servers, Kernel(s) PROVE FreshIds'
  <2>1. CASE KernelReceive(s) \/ KernelReceiveError(s) \/ SendFails(s)
    BY <1>1, <2>1 DEF KernelReceive, KernelReceiveError, SendFails, netVars
  <2>2. CASE SendLeaves(s)
    <3>1. Echo(s, Head(tx[s])) \notin Request
      BY ServerAssumption DEF Echo, Request
    <3> QED
      BY <1>1, <2>2, <3>1 DEF SendLeaves
  <2> QED
    BY <1>3, <2>1, <2>2 DEF Kernel, KernelSend
<1>4. ASSUME NEW c \in Clients, ClientSend(c) PROVE FreshIds'
  <2>1. issued[c] \in Nat /\ \A b \in Clients : issued[b] \in Nat
    BY ServerAssumption DEF TypeOK
  <2>2. issued' = [issued EXCEPT ![c] = @ + 1]
    BY <1>4 DEF ClientSend
  <2> DEFINE D(s, b, n) == [src |-> c, dst |-> s, id |-> issued[c] + 1,
                            body |-> b, len |-> n]
  <2>3. PICK d : net' = net \cup {d} /\ d.src = c /\ d.id = issued[c] + 1
    <3>1. PICK s \in Servers, b \in Bodies, n \in Lengths : net' = net \cup {D(s, b, n)}
      BY <1>4 DEF ClientSend
    <3>2. D(s, b, n).src = c /\ D(s, b, n).id = issued[c] + 1
      OBVIOUS
    <3> QED
      BY <3>1, <3>2
  <2>4. \A b \in Clients : issued'[b] \in Nat /\ issued[b] <= issued'[b]
    BY <2>1, <2>2 DEF TypeOK
  <2>5. issued'[c] = issued[c] + 1
    BY <2>2 DEF TypeOK
  <2> SUFFICES ASSUME NEW e \in net', e \in Request PROVE e.id <= issued'[e.src]
    BY DEF FreshIds
  <2>6. CASE e \in net
    <3>1. e.src \in Clients /\ e.id \in Nat /\ e.id <= issued[e.src]
      BY <2>6 DEF Request, FreshIds
    <3> QED
      BY <2>1, <2>4, <3>1
  <2>7. CASE e = d
    BY <2>1, <2>3, <2>5, <2>7
  <2> QED
    BY <2>3, <2>6, <2>7
<1>5. ASSUME NEW d \in net, Vanish(d) PROVE FreshIds'
  BY <1>1, <1>5 DEF Vanish
<1>6. CASE UNCHANGED vars
  BY <1>1, <1>6 DEF vars, netVars
<1> QED
  BY <1>2, <1>3, <1>4, <1>5, <1>6 DEF Next

\* Only the server a step belongs to changes what it holds, and what servers
\* hold never overlaps: each request names its server.
LEMMA HeldChange ==
  ASSUME IInv, NEW s \in Servers,
         \A t \in Servers \ {s} : recvd'[t] = recvd[t] /\ tx'[t] = tx[t]
  PROVE  Held' = (Held \ HeldBy(s)) \cup HeldBy(s)'
<1>1. \A t \in Servers : \A d \in HeldBy(t) : d.dst = t
  BY DEF IInv, BuffersMatchRequest, HeldBy
<1>2. \A t \in Servers \ {s} : HeldBy(t)' = HeldBy(t)
  BY DEF HeldBy
<1>3. \A t \in Servers \ {s} : HeldBy(t) \cap HeldBy(s) = {}
  BY <1>1
<1> QED
  BY <1>2, <1>3 DEF Held

LEMMA EmptyHolds ==
  ASSUME NEW s \in Servers, recvd[s] = <<>>, tx[s] = <<>> PROVE HeldBy(s) = {}
<1>1. DOMAIN <<>> = {}
  OBVIOUS
<1> QED
  BY <1>1 DEF HeldBy

LEMMA SameHeld == ASSUME UNCHANGED <<recvd, tx>> PROVE UNCHANGED Held
  BY DEF Held, HeldBy

\* A receive that completes with a datagram leaves the server holding it.
LEMMA TakesRequest ==
  ASSUME IInv, NEW s \in Servers, KernelReceive(s)
  PROVE  \E d \in net \cap Request :
           /\ d.dst = s /\ net' = net \ {d}
           /\ HeldBy(s) = {} /\ HeldBy(s)' = {d}
           /\ Held' = Held \cup {d}
<1>1. PICK d \in net, e \in BOOLEAN :
        /\ d.dst = s
        /\ net' = net \ {d}
        /\ recvd' = [recvd EXCEPT ![s] = Append(@,
                       [error |-> e, bytes |-> Fit(d.len), req |-> d])]
  BY DEF KernelReceive
<1>2. Len(recvd[s]) = 0 /\ Len(tx[s]) = 0
  BY DEF KernelReceive, IInv, TypeOK, OneOutstandingOperation
<1>3. recvd[s] = <<>> /\ tx[s] = <<>>
  BY <1>2 DEF IInv, TypeOK
<1>4. UNCHANGED tx /\ recvd' = [recvd EXCEPT ![s] =
                        <<[error |-> e, bytes |-> Fit(d.len), req |-> d]>>]
  <2>1. \A h : Append(<<>>, h) = <<h>>
    OBVIOUS
  <2> QED
    BY <1>1, <1>3, <2>1 DEF KernelReceive
<1>5. d \in Request /\ d # NoRequest
  BY <1>1, ServerAssumption DEF IInv, TypeOK, Request, Reply
<1>6. HeldBy(s)' = {d}
  <2>1. tx'[s] = <<>> /\ recvd'[s] = <<[error |-> e, bytes |-> Fit(d.len), req |-> d]>>
    BY <1>3, <1>4 DEF IInv, TypeOK
  <2>2. DOMAIN recvd'[s] = {1} /\ recvd'[s][1].req = d /\ DOMAIN tx'[s] = {}
    BY <2>1
  <2> QED
    BY <1>5, <2>2 DEF HeldBy
<1>7. HeldBy(s) = {}
  BY <1>3, EmptyHolds
<1>8. Held' = Held \cup {d}
  BY <1>3, <1>4, <1>6, <1>7, HeldChange DEF IInv, TypeOK
<1> QED
  BY <1>1, <1>5, <1>6, <1>7, <1>8

LEMMA ErrorTakesNothing ==
  ASSUME IInv, NEW s \in Servers, KernelReceiveError(s) PROVE UNCHANGED <<net, Held>>
<1>1. Len(recvd[s]) = 0 /\ Len(tx[s]) = 0
  BY DEF KernelReceiveError, IInv, TypeOK, OneOutstandingOperation
<1>2. recvd[s] = <<>> /\ tx[s] = <<>>
  BY <1>1 DEF IInv, TypeOK
<1>3. UNCHANGED <<net, tx>> /\ recvd' = [recvd EXCEPT ![s] =
                        <<[error |-> TRUE, bytes |-> 0, req |-> NoRequest]>>]
  BY <1>2 DEF KernelReceiveError, netVars
<1>4. HeldBy(s)' = {}
  <2>1. tx'[s] = <<>> /\ recvd'[s] = <<[error |-> TRUE, bytes |-> 0, req |-> NoRequest]>>
    BY <1>2, <1>3 DEF IInv, TypeOK
  <2>2. DOMAIN recvd'[s] = {1} /\ recvd'[s][1].req = NoRequest /\ DOMAIN tx'[s] = {}
    BY <2>1
  <2> QED
    BY <2>2 DEF HeldBy
<1>5. HeldBy(s) = {}
  BY <1>2, EmptyHolds
<1>6. \A t \in Servers \ {s} : recvd'[t] = recvd[t] /\ tx'[t] = tx[t]
  BY <1>3 DEF IInv, TypeOK
<1>7. UNCHANGED Held
  BY <1>4, <1>5, <1>6, HeldChange
<1> QED
  BY <1>3, <1>7

\* The end of a send answers the request the server holds, or drops it.
LEMMA EndsRequest ==
  ASSUME IInv, NEW s \in Servers, KernelSend(s)
  PROVE  \E r \in Held \cap Request :
           /\ r.dst = s /\ HeldBy(s) = {r} /\ HeldBy(s)' = {}
           /\ Held' = Held \ {r}
           /\ data[s] \in {r.body, Zero}
           /\ SendLeaves(s) => net' = net \cup {Service!Answer(r, data[s])}
           /\ SendFails(s) => UNCHANGED net
<1> DEFINE op == Head(tx[s])
<1>1. /\ tx[s] = <<op>> /\ op = tx[s][1] /\ Tail(tx[s]) = <<>>
      /\ op \in SendOp /\ recvd[s] = <<>>
  BY Alone DEF KernelSend, SendLeaves, SendFails
<1>2. UNCHANGED recvd /\ tx' = [tx EXCEPT ![s] = <<>>]
  BY <1>1 DEF KernelSend, SendLeaves, SendFails
<1>3. DOMAIN tx[s] = {1} /\ DOMAIN recvd[s] = {}
  BY <1>1
<1>4. /\ op.req.dst = s /\ op.len = Fit(op.req.len)
      /\ op.to = op.req.src /\ data[s] \in {op.req.body, Zero}
  BY <1>1, <1>3 DEF IInv, BuffersMatchRequest
<1>5. op.req \in Request /\ op.req # NoRequest
  BY <1>1, ServerAssumption DEF SendOp
<1>6. HeldBy(s) = {op.req}
  BY <1>1, <1>3, <1>5 DEF HeldBy
<1>7. HeldBy(s)' = {}
  <2>1. recvd'[s] = <<>> /\ tx'[s] = <<>>
    BY <1>1, <1>2 DEF IInv, TypeOK
  <2>2. DOMAIN <<>> = {}
    OBVIOUS
  <2> QED
    BY <2>1, <2>2 DEF HeldBy
<1>8. op.req \in Held /\ Held' = Held \ {op.req}
  <2>1. \A t \in Servers \ {s} : recvd'[t] = recvd[t] /\ tx'[t] = tx[t]
    BY <1>2 DEF IInv, TypeOK
  <2>2. Held' = (Held \ HeldBy(s)) \cup HeldBy(s)' BY <2>1, HeldChange
  <2>3. op.req \in Held BY <1>6 DEF Held
  <2> QED BY ONLY <1>6, <1>7, <2>2, <2>3
<1>9. Echo(s, op) = Service!Answer(op.req, data[s])
  BY <1>4 DEF Echo, Service!Answer, Fit
<1>10. /\ SendLeaves(s) => net' = net \cup {Service!Answer(op.req, data[s])}
       /\ SendFails(s) => UNCHANGED net
  BY <1>9 DEF SendLeaves, SendFails, netVars
<1> QED
  BY <1>4, <1>5, <1>6, <1>7, <1>8, <1>10

\* handle_receive_from drops a request only if it cannot be answered.
LEMMA BeginsAnswer ==
  ASSUME IInv, NEW s \in Servers, HandleReceiveFrom(s)
  PROVE  /\ UNCHANGED net
         /\ \/ UNCHANGED Held
            \/ /\ Head(recvd[s]).error \/ Head(recvd[s]).bytes = 0
               /\ \E r \in Held \cap Request :
                    r.dst = s /\ HeldBy(s)' = {} /\ Held' = Held \ {r}
<1> DEFINE h == Head(recvd[s])
           op == [to |-> endpoint[s], len |-> h.bytes, req |-> h.req]
<1>1. /\ recvd[s] = <<h>> /\ h = recvd[s][1] /\ Tail(recvd[s]) = <<>>
      /\ h \in Completion /\ tx[s] = <<>>
  BY Alone DEF HandleReceiveFrom
<1>2. UNCHANGED net /\ recvd' = [recvd EXCEPT ![s] = <<>>]
  BY <1>1 DEF HandleReceiveFrom, netVars
<1>3. HeldBy(s) = {h.req} \ {NoRequest}
  <2>1. DOMAIN recvd[s] = {1} /\ DOMAIN tx[s] = {}
    BY <1>1
  <2> QED
    BY <1>1, <2>1 DEF HeldBy
<1>4. recvd'[s] = <<>> /\ DOMAIN <<>> = {}
  BY <1>2 DEF IInv, TypeOK
<1>5. CASE tx' = [tx EXCEPT ![s] = <<op>>]
  <2>1. tx'[s] = <<op>>
    BY <1>5 DEF IInv, TypeOK
  <2>2. DOMAIN tx'[s] = {1} /\ tx'[s][1].req = h.req
    BY <2>1
  <2>3. HeldBy(s)' = HeldBy(s)
    BY <1>3, <1>4, <2>2 DEF HeldBy
  <2> QED
    BY <1>2, <1>5, <2>3, HeldChange DEF Held, IInv, TypeOK
<1>6. CASE UNCHANGED tx /\ (h.error \/ h.bytes = 0)
  <2>1. HeldBy(s)' = {}
    BY <1>1, <1>4, <1>6 DEF HeldBy
  <2>2. Held' = Held \ HeldBy(s)
    BY <1>2, <1>6, <2>1, HeldChange DEF IInv, TypeOK
  <2>3. CASE h.req = NoRequest
    BY <1>2, <1>3, <2>2, <2>3
  <2>4. CASE h.req # NoRequest
    <3>1. h.req \in Held /\ Held' = Held \ {h.req}
      BY <1>3, <2>2, <2>4 DEF Held
    <3>2. h.req \in Request /\ h.req.dst = s
      <4>1. 1 \in DOMAIN recvd[s] /\ recvd[s][1].req # NoRequest
        BY <1>1, <2>4
      <4>2. h.req.dst = s
        BY <1>1, <4>1 DEF IInv, BuffersMatchRequest
      <4>3. h.req \in Request
        BY <1>1, <2>4 DEF Completion
      <4> QED
        BY <4>2, <4>3
    <3> QED
      BY <1>2, <1>6, <2>1, <3>1, <3>2
  <2> QED
    BY <2>3, <2>4
<1> QED
  BY <1>1, <1>5, <1>6 DEF HandleReceiveFrom, AsyncSendTo

LEMMA RefinementStep ==
  IInv /\ FreshIds /\ [Next]_vars => [Service!Next]_<<net, Held>>
<1> SUFFICES ASSUME IInv, FreshIds, [Next]_vars PROVE [Service!Next]_<<net, Held>>
  OBVIOUS
<1>1. ASSUME NEW s \in Servers, KernelReceive(s) PROVE Service!Take
  BY <1>1, TakesRequest DEF Service!Take
<1>2. ASSUME NEW s \in Servers, KernelReceiveError(s) PROVE UNCHANGED <<net, Held>>
  BY <1>2, ErrorTakesNothing
<1>3. ASSUME NEW s \in Servers, KernelSend(s) PROVE Service!Reply \/ Service!Drop
  BY <1>3, EndsRequest DEF KernelSend, Service!Reply, Service!Drop
<1>4. ASSUME NEW s \in Servers, HandleReceiveFrom(s)
      PROVE  Service!Drop \/ UNCHANGED <<net, Held>>
  BY <1>4, BeginsAnswer DEF Service!Drop
<1>5. ASSUME NEW s \in Servers, HandleSendTo(s) \/ ClearBuffer(s)
      PROVE  UNCHANGED <<net, Held>>
  BY <1>5, SameHeld DEF HandleSendTo, ClearBuffer, netVars
<1>6. ASSUME NEW c \in Clients, ClientSend(c) PROVE Service!Submit
  <2>1. issued[c] \in Nat /\ issued[c] + 1 \in 1..MaxSends
    BY <1>6, ServerAssumption DEF ClientSend, IInv, TypeOK
  <2> DEFINE D(s, b, n) == [src |-> c, dst |-> s, id |-> issued[c] + 1,
                            body |-> b, len |-> n]
  <2>2. PICK d \in Request : net' = net \cup {d} /\ d.src = c /\ d.id = issued[c] + 1
    <3>1. PICK s \in Servers, b \in Bodies, n \in Lengths : net' = net \cup {D(s, b, n)}
      BY <1>6 DEF ClientSend
    <3>2. D(s, b, n) \in Request /\ D(s, b, n).src = c /\ D(s, b, n).id = issued[c] + 1
      BY <2>1, ServerAssumption DEF Request
    <3> QED
      BY <3>1, <3>2
  <2>3. d \notin net
    BY <2>1, <2>2 DEF FreshIds
  <2>4. UNCHANGED Held
    BY <1>6, SameHeld DEF ClientSend, serverVars
  <2> QED
    BY <2>2, <2>3, <2>4, ServerAssumption DEF Service!Submit
<1>7. ASSUME NEW d \in net, Vanish(d) PROVE Service!Remove
  BY <1>7, SameHeld DEF Vanish, serverVars, Service!Remove
<1>8. CASE UNCHANGED vars
  BY <1>8, SameHeld DEF vars, netVars, serverVars
<1> QED
  BY <1>1, <1>2, <1>3, <1>4, <1>5, <1>6, <1>7, <1>8
     DEF Next, Handler, Kernel, Service!Next

\* The server implements the echo service: the requests it holds are those of
\* its completed receive or its send in progress; taking one is the kernel's
\* receive, answering or dropping it is the end of the send or the handler of
\* a failed or empty receive, and every other step is invisible.
THEOREM Refinement == Spec => EchoesRequests
<1>1. Init => FreshIds
  BY DEF Init, FreshIds
<1>2. Init => Service!Init
  <2> SUFFICES ASSUME Init PROVE Service!Init
    OBVIOUS
  <2>1. \A s \in Servers : HeldBy(s) = {}
    BY EmptyHolds DEF Init, ServerInit
  <2> QED
    BY <2>1 DEF Init, Held, Service!Init
<1>3. [Service!Next]_<<net, Held>> <=> [Service!Next]_Service!vars
  BY DEF Service!vars
<1> QED
  BY <1>1, <1>2, <1>3, FreshStep, RefinementStep, InvariantHolds, PTL
     DEF Spec, EchoesRequests, Service!Spec
=============================================================================
