-------------------------- MODULE AsyncEchoProofs --------------------------
(***************************************************************************)
(* Proofs about AsyncUdpClient, for any number of clients, any script of   *)
(* send_message calls and any behaviour of the network; about clients used *)
(* as main uses them, with one call each; and about AsyncEcho: these       *)
(* clients and the servers of AsyncUDPServerClient on one network that     *)
(* loses or keeps datagrams, for any number of each.                       *)
(***************************************************************************)
EXTENDS AsyncEcho, SequenceTheorems, FiniteSetTheorems, TLAPS

-----------------------------------------------------------------------------
(* The client.                                                             *)

\* While a socket is open, every message in the queue has a send of its own in
\* progress or completed: do_write adds one of each, and a handler that removes
\* a message takes one completed send.
EachHasASend ==
  \A c \in Clients :
    open[c] /\ ~fault => Len(queue[c]) <= Len(tx[c]) + Len(sent[c])

Covered == TypeOK /\ EachHasASend

-----------------------------------------------------------------------------
(* Sequences.                                                              *)

LEMMA ConstantSeq ==
  ASSUME NEW S, NEW e \in S, NEW n \in Nat
  PROVE  [i \in 1..n |-> e] \in Seq(S) /\ Len([i \in 1..n |-> e]) = n
  OBVIOUS

LEMMA AppendSeq ==
  ASSUME NEW S, NEW q \in Seq(S), NEW e \in S
  PROVE  /\ Append(q, e) \in Seq(S)
         /\ Len(q) \in Nat
         /\ Len(Append(q, e)) = Len(q) + 1
  BY AppendProperties, LenProperties

LEMMA TailSeq ==
  ASSUME NEW S, NEW q \in Seq(S), q # <<>>
  PROVE  /\ Head(q) \in S /\ Head(q) = q[1]
         /\ Tail(q) \in Seq(S)
         /\ Len(q) \in Nat \ {0}
         /\ Len(Tail(q)) = Len(q) - 1
  BY HeadTailProperties, EmptySeq

LEMMA PopFreesSeq ==
  ASSUME NEW q \in Seq(SendOp)
  PROVE  /\ PopFrees(q) \in Seq(SendOp) /\ Len(PopFrees(q)) = Len(q)
         /\ \A i \in DOMAIN q : PopFrees(q)[i].to = q[i].to
<1> DEFINE f(op) == IF op.bytes = "queue" THEN [op EXCEPT !.bytes = "freed"] ELSE op
<1>1. \A op \in SendOp : f(op) \in SendOp /\ f(op).to = op.to
  BY DEF SendOp
<1>2. Len(q) \in Nat /\ DOMAIN q = 1..Len(q) /\ \A i \in 1..Len(q) : q[i] \in SendOp
  BY LenProperties
<1>3. PopFrees(q) = [i \in 1..Len(q) |-> f(q[i])]
  BY <1>2 DEF PopFrees
<1>4. PopFrees(q) \in [1..Len(q) -> SendOp]
  BY <1>1, <1>2, <1>3
<1>5. PopFrees(q) \in Seq(SendOp)
  BY <1>2, <1>4, SeqDef
<1>6. Len(PopFrees(q)) = Len(q)
  BY <1>2, <1>4, <1>5, LenProperties
<1> QED
  BY <1>1, <1>2, <1>3, <1>5, <1>6

-----------------------------------------------------------------------------
(* What the operations that handlers start do to one client.               *)

LEMMA AsyncSendToEffect ==
  ASSUME TypeOK, NEW c \in Clients, NEW ops \in Seq(SendOp),
         NEW done \in Seq(BOOLEAN), NEW op \in SendOp,
         AsyncSendTo(c, ops, done, op)
  PROVE  /\ tx' \in [Clients -> Seq(SendOp)]
         /\ sent' \in [Clients -> Seq(BOOLEAN)]
         /\ Len(tx'[c]) + Len(sent'[c]) = Len(ops) + Len(done) + 1
         /\ \A b \in Clients \ {c} : tx'[b] = tx[b] /\ sent'[b] = sent[b]
<1> USE DEF TypeOK
<1>1. /\ Append(ops, op) \in Seq(SendOp) /\ Len(Append(ops, op)) = Len(ops) + 1
      /\ Append(done, FALSE) \in Seq(BOOLEAN)
      /\ Len(Append(done, FALSE)) = Len(done) + 1
      /\ Len(ops) \in Nat /\ Len(done) \in Nat
  BY AppendSeq
<1>2. CASE open[c]
  <2>1. tx' = [tx EXCEPT ![c] = Append(ops, op)] /\ sent' = [sent EXCEPT ![c] = done]
    BY <1>2 DEF AsyncSendTo
  <2> QED
    BY <1>1, <2>1
<1>3. CASE ~open[c]
  <2>1. tx' = [tx EXCEPT ![c] = ops] /\ sent' = [sent EXCEPT ![c] = Append(done, FALSE)]
    BY <1>3 DEF AsyncSendTo
  <2> QED
    BY <1>1, <2>1
<1> QED
  BY <1>2, <1>3

LEMMA RecvMessageEffect ==
  ASSUME TypeOK, NEW c \in Clients, RecvMessage(c)
  PROVE  /\ rx' \in [Clients -> Nat]
         /\ recvd' \in [Clients -> Seq(Completion)]
         /\ \A b \in Clients \ {c} : rx'[b] = rx[b] /\ recvd'[b] = recvd[b]
<1> DEFINE e == [error |-> TRUE, bytes |-> 0]
<1>1. /\ rx \in [Clients -> Nat] /\ recvd \in [Clients -> Seq(Completion)]
      /\ rx[c] + 1 \in Nat
  BY DEF TypeOK
<1>2. e \in Completion
  BY DEF Completion
<1>3. Append(recvd[c], e) \in Seq(Completion)
  BY <1>1, <1>2, AppendSeq
<1> HIDE DEF e
<1>4. CASE open[c]
  <2>1. rx' = [rx EXCEPT ![c] = rx[c] + 1] /\ recvd' = recvd
    BY <1>1, <1>4 DEF RecvMessage
  <2> QED
    BY <1>1, <2>1
<1>5. CASE ~open[c]
  <2>1. rx' = rx /\ recvd' = [recvd EXCEPT ![c] = Append(recvd[c], e)]
    BY <1>1, <1>5 DEF RecvMessage, e
  <2> QED
    BY <1>1, <1>3, <2>1
<1> QED
  BY <1>4, <1>5

LEMMA CloseEffect ==
  ASSUME TypeOK, NEW c \in Clients, NEW done \in Seq(BOOLEAN),
         NEW got \in Seq(Completion), Close(c, done, got)
  PROVE  /\ tx' \in [Clients -> Seq(SendOp)] /\ sent' \in [Clients -> Seq(BOOLEAN)]
         /\ rx' \in [Clients -> Nat] /\ recvd' \in [Clients -> Seq(Completion)]
         /\ open' = [open EXCEPT ![c] = FALSE]
         /\ refused' = [refused EXCEPT ![c] = FALSE]
         /\ tx'[c] = <<>> /\ rx'[c] = 0 /\ Len(sent'[c]) = Len(done) + Len(tx[c])
         /\ endpoint' = endpoint
         /\ \A b \in Clients \ {c} : /\ tx'[b] = tx[b] /\ sent'[b] = sent[b]
                                    /\ rx'[b] = rx[b] /\ recvd'[b] = recvd[b]
<1> DEFINE fs == [i \in 1..Len(tx[c]) |-> FALSE]
           es == [i \in 1..rx[c] |-> [error |-> TRUE, bytes |-> 0]]
<1>1. Len(tx[c]) \in Nat /\ rx[c] \in Nat
  BY LenProperties DEF TypeOK
<1>2. fs \in Seq(BOOLEAN) /\ Len(fs) = Len(tx[c]) /\ es \in Seq(Completion)
  BY <1>1, ConstantSeq DEF Completion
<1>3. /\ done \o fs \in Seq(BOOLEAN) /\ Len(done \o fs) = Len(done) + Len(tx[c])
      /\ got \o es \in Seq(Completion)
  BY <1>2, ConcatProperties
<1>4. /\ tx' = [tx EXCEPT ![c] = <<>>] /\ sent' = [sent EXCEPT ![c] = done \o fs]
      /\ rx' = [rx EXCEPT ![c] = 0] /\ recvd' = [recvd EXCEPT ![c] = got \o es]
      /\ open' = [open EXCEPT ![c] = FALSE] /\ refused' = [refused EXCEPT ![c] = FALSE]
      /\ endpoint' = endpoint
  BY DEF Close
<1>5. <<>> \in Seq(SendOp)
  BY EmptySeq
<1> QED
  BY <1>3, <1>4, <1>5 DEF TypeOK

-----------------------------------------------------------------------------
(* Each action keeps the types and the send of each queued message.        *)

LEMMA MessageType == \A t \in Texts : MessageOf(t) \in Message
  BY ClientAssumption DEF MessageOf, Message, AtMost

LEMMA Sums ==
  ASSUME NEW q \in Nat, NEW t \in Nat, NEW s \in Nat,
         NEW q2 \in Nat, NEW t2 \in Nat, NEW s2 \in Nat,
         q <= t + s, q2 + t + s <= q + t2 + s2
  PROVE  q2 <= t2 + s2
  OBVIOUS

LEMMA Lengths ==
  ASSUME TypeOK, NEW c \in Clients
  PROVE  Len(queue[c]) \in Nat /\ Len(tx[c]) \in Nat /\ Len(sent[c]) \in Nat
<1>1. queue[c] \in Seq(Message) /\ tx[c] \in Seq(SendOp) /\ sent[c] \in Seq(BOOLEAN)
  BY DEF TypeOK
<1> QED
  BY <1>1, LenProperties

\* A step that touches the sends of one client keeps every message covered when
\* it adds no message to that client without a send.
LEMMA KeepsCover ==
  ASSUME Covered, TypeOK', NEW c \in Clients,
         ~fault' => ~fault,
         open'[c] => /\ open[c]
                     /\ Len(queue'[c]) + Len(tx[c]) + Len(sent[c])
                          <= Len(queue[c]) + Len(tx'[c]) + Len(sent'[c]),
         \A b \in Clients \ {c} : /\ open'[b] => open[b]
                                 /\ queue'[b] = queue[b]
                                 /\ tx'[b] = tx[b] /\ sent'[b] = sent[b]
  PROVE  Covered'
<1> SUFFICES ASSUME NEW b \in Clients, open'[b], ~fault'
             PROVE  Len(queue'[b]) <= Len(tx'[b]) + Len(sent'[b])
  BY DEF Covered, EachHasASend
<1>1. Len(queue[b]) <= Len(tx[b]) + Len(sent[b])
  BY DEF Covered, EachHasASend
<1>2. CASE b = c
  <2>1. /\ Len(queue[c]) \in Nat /\ Len(tx[c]) \in Nat /\ Len(sent[c]) \in Nat
        /\ Len(queue'[c]) \in Nat /\ Len(tx'[c]) \in Nat /\ Len(sent'[c]) \in Nat
    <3>1. Len(queue[c]) \in Nat /\ Len(tx[c]) \in Nat /\ Len(sent[c]) \in Nat
      BY Lengths DEF Covered
    <3>2. /\ queue'[c] \in Seq(Message) /\ tx'[c] \in Seq(SendOp)
          /\ sent'[c] \in Seq(BOOLEAN)
      BY DEF TypeOK
    <3> QED
      BY <3>1, <3>2, LenProperties
  <2>2. Len(queue'[c]) + Len(tx[c]) + Len(sent[c])
          <= Len(queue[c]) + Len(tx'[c]) + Len(sent'[c])
    BY <1>2
  <2>3. Len(queue[c]) <= Len(tx[c]) + Len(sent[c])
    BY <1>1, <1>2
  <2>4. Len(queue'[c]) <= Len(tx'[c]) + Len(sent'[c])
    <3> DEFINE q == Len(queue[c])  t == Len(tx[c])  s == Len(sent[c])
               q2 == Len(queue'[c])  t2 == Len(tx'[c])  s2 == Len(sent'[c])
    <3>1. /\ q \in Nat /\ t \in Nat /\ s \in Nat /\ q2 \in Nat /\ t2 \in Nat /\ s2 \in Nat
          /\ q <= t + s /\ q2 + t + s <= q + t2 + s2
      BY <2>1, <2>2, <2>3
    <3> HIDE DEF q, t, s, q2, t2, s2
    <3>2. q2 <= t2 + s2
      BY <3>1, Sums
    <3> QED
      BY <3>2 DEF q2, t2, s2
  <2> QED
    BY <1>2, <2>4
<1>3. CASE b # c
  BY <1>1, <1>3
<1> QED
  BY <1>2, <1>3

LEMMA SendMessageStep ==
  ASSUME Covered, SendMessage PROVE Covered'
<1> USE DEF Covered
<1>1. /\ Head(script) \in Call /\ Tail(script) \in Seq(Call)
  BY TailSeq DEF SendMessage, TypeOK
<1> DEFINE p == [client |-> Head(script).client, msg |-> MessageOf(Head(script).text)]
<1>2. p \in [client: Clients, msg: Message]
  BY <1>1, MessageType DEF Call
<1>3. posted' \in Seq([client: Clients, msg: Message])
  BY <1>2, AppendSeq DEF SendMessage, TypeOK
<1>4. TypeOK'
  BY <1>1, <1>3 DEF SendMessage, TypeOK, sending, receiving, socket, network
<1>5. EachHasASend'
  BY DEF SendMessage, EachHasASend, sending, socket
<1> QED
  BY <1>4, <1>5

LEMMA DoWriteStep ==
  ASSUME Covered, DoWrite PROVE Covered'
<1> DEFINE c == Head(posted).client
           m == Head(posted).msg
<1>1. /\ c \in Clients /\ m \in Message
      /\ Tail(posted) \in Seq([client: Clients, msg: Message])
  <2>1. posted \in Seq([client: Clients, msg: Message]) /\ posted # <<>>
    BY DEF DoWrite, Covered, TypeOK
  <2>2. /\ Head(posted) \in [client: Clients, msg: Message]
        /\ Tail(posted) \in Seq([client: Clients, msg: Message])
    BY <2>1, TailSeq
  <2> QED
    BY <2>2
<1>2. /\ queue' = [queue EXCEPT ![c] = Append(@, m)]
      /\ posted' = Tail(posted)
      /\ UNCHANGED <<script, fault, count, receiving, socket, network>>
  BY DEF DoWrite
<1>3. PICK k \in CopiesEarly :
        AsyncSendTo(c, tx[c], sent[c],
          [msg |-> m, to |-> endpoint[c], bytes |-> IF k THEN "copied" ELSE "freed"])
  BY DEF DoWrite
<1> HIDE DEF c, m
<1>4. /\ [msg |-> m, to |-> endpoint[c], bytes |-> IF k THEN "copied" ELSE "freed"] \in SendOp
      /\ tx[c] \in Seq(SendOp) /\ sent[c] \in Seq(BOOLEAN) /\ queue[c] \in Seq(Message)
  BY <1>1 DEF SendOp, Covered, TypeOK
<1>5. /\ tx' \in [Clients -> Seq(SendOp)] /\ sent' \in [Clients -> Seq(BOOLEAN)]
      /\ Len(tx'[c]) + Len(sent'[c]) = Len(tx[c]) + Len(sent[c]) + 1
      /\ \A b \in Clients \ {c} : tx'[b] = tx[b] /\ sent'[b] = sent[b]
  BY <1>1, <1>3, <1>4, AsyncSendToEffect DEF Covered
<1>6. Append(queue[c], m) \in Seq(Message) /\ Len(Append(queue[c], m)) = Len(queue[c]) + 1
  BY <1>1, <1>4, AppendSeq
<1>7. TypeOK'
  BY <1>1, <1>2, <1>5, <1>6 DEF Covered, TypeOK, receiving, socket, network
<1>8. /\ \A b \in Clients \ {c} : queue'[b] = queue[b]
      /\ Len(queue'[c]) = Len(queue[c]) + 1
  BY <1>1, <1>2, <1>6 DEF Covered, TypeOK
<1>9. Len(queue'[c]) + Len(tx[c]) + Len(sent[c])
        <= Len(queue[c]) + Len(tx'[c]) + Len(sent'[c])
  <2>1. \A a, b, d, e, f \in Nat : e + f = b + d + 1 => (a + 1) + b + d <= a + e + f
    OBVIOUS
  <2>2. /\ Len(queue[c]) \in Nat /\ Len(tx[c]) \in Nat /\ Len(sent[c]) \in Nat
        /\ Len(tx'[c]) \in Nat /\ Len(sent'[c]) \in Nat
    BY <1>1, <1>4, <1>5, LenProperties
  <2> QED
    BY <1>5, <1>8, <2>1, <2>2
<1> QED
  BY <1>1, <1>2, <1>5, <1>7, <1>8, <1>9, KeepsCover DEF socket

LEMMA Moved ==
  ASSUME NEW q \in Nat, NEW t \in Nat, NEW s \in Nat, NEW t2 \in Nat, NEW s2 \in Nat,
         t2 + s2 = t + s
  PROVE  q + t + s <= q + t2 + s2
  OBVIOUS

\* A send in progress becomes a completed one.
LEMMA CompletionEffect ==
  ASSUME TypeOK, NEW c \in Clients, NEW ok \in BOOLEAN, tx[c] # <<>>,
         tx' = [tx EXCEPT ![c] = Tail(@)],
         sent' = [sent EXCEPT ![c] = Append(@, ok)]
  PROVE  /\ Head(tx[c]) \in SendOp
         /\ tx' \in [Clients -> Seq(SendOp)] /\ sent' \in [Clients -> Seq(BOOLEAN)]
         /\ Len(tx'[c]) + Len(sent'[c]) = Len(tx[c]) + Len(sent[c])
         /\ \A b \in Clients \ {c} : tx'[b] = tx[b] /\ sent'[b] = sent[b]
<1>1. tx[c] \in Seq(SendOp) /\ sent[c] \in Seq(BOOLEAN)
  BY DEF TypeOK
<1>2. /\ Head(tx[c]) \in SendOp /\ Tail(tx[c]) \in Seq(SendOp)
      /\ Len(tx[c]) \in Nat \ {0} /\ Len(Tail(tx[c])) = Len(tx[c]) - 1
  BY <1>1, TailSeq
<1>3. /\ Append(sent[c], ok) \in Seq(BOOLEAN) /\ Len(sent[c]) \in Nat
      /\ Len(Append(sent[c], ok)) = Len(sent[c]) + 1
  BY <1>1, AppendSeq
<1>4. /\ tx' \in [Clients -> Seq(SendOp)] /\ sent' \in [Clients -> Seq(BOOLEAN)]
      /\ tx'[c] = Tail(tx[c]) /\ sent'[c] = Append(sent[c], ok)
      /\ \A b \in Clients \ {c} : tx'[b] = tx[b] /\ sent'[b] = sent[b]
  BY <1>2, <1>3 DEF TypeOK
<1>5. Len(tx'[c]) + Len(sent'[c]) = Len(tx[c]) + Len(sent[c])
  <2>1. \A a, d \in Nat : a # 0 => (a - 1) + (d + 1) = a + d
    OBVIOUS
  <2> QED
    BY <1>2, <1>3, <1>4, <2>1
<1> QED
  BY <1>2, <1>4, <1>5

LEMMA KeepsCoverMoved ==
  ASSUME Covered, TypeOK', NEW c \in Clients, queue' = queue, open' = open,
         fault' = fault,
         Len(tx'[c]) + Len(sent'[c]) = Len(tx[c]) + Len(sent[c]),
         \A b \in Clients \ {c} : tx'[b] = tx[b] /\ sent'[b] = sent[b]
  PROVE  Covered'
<1>1. Len(queue[c]) \in Nat /\ Len(tx[c]) \in Nat /\ Len(sent[c]) \in Nat
  BY Lengths DEF Covered
<1>2. Len(tx'[c]) \in Nat /\ Len(sent'[c]) \in Nat
  <2>1. tx'[c] \in Seq(SendOp) /\ sent'[c] \in Seq(BOOLEAN)
    BY DEF TypeOK
  <2> QED
    BY <2>1, LenProperties
<1>3. Len(queue[c]) + Len(tx[c]) + Len(sent[c])
        <= Len(queue[c]) + Len(tx'[c]) + Len(sent'[c])
  <2> DEFINE q == Len(queue[c])  t == Len(tx[c])  s == Len(sent[c])
             t2 == Len(tx'[c])  s2 == Len(sent'[c])
  <2>1. /\ q \in Nat /\ t \in Nat /\ s \in Nat /\ t2 \in Nat /\ s2 \in Nat
        /\ t2 + s2 = t + s
    BY <1>1, <1>2
  <2> HIDE DEF q, t, s, t2, s2
  <2>2. q + t + s <= q + t2 + s2
    BY <2>1, Moved
  <2> QED
    BY <2>2 DEF q, t, s, t2, s2
<1> QED
  BY <1>3, KeepsCover

LEMMA SendLeavesStep ==
  ASSUME Covered, NEW c \in Clients, SendLeaves(c) PROVE Covered'
<1> DEFINE op == Head(tx[c])
<1>1. /\ tx[c] # <<>>
      /\ tx' = [tx EXCEPT ![c] = Tail(@)]
      /\ sent' = [sent EXCEPT ![c] = Append(@, TRUE)]
      /\ count' = [count EXCEPT ![c] = @ + 1]
      /\ UNCHANGED <<queue, control, receiving, socket, strays>>
  BY DEF SendLeaves
<1>2. PICK b \in Contents :
        net' = net \cup {[src |-> c, dst |-> op.to, id |-> count[c] + 1,
                          body |-> b, len |-> op.msg.len]}
  <2>1. op \in SendOp
    BY <1>1, CompletionEffect DEF Covered
  <2>2. op.msg.text \in Texts
    BY <2>1 DEF SendOp, Message
  <2> QED
    BY <2>2 DEF SendLeaves, Contents
<1>3. /\ op \in SendOp
      /\ tx' \in [Clients -> Seq(SendOp)] /\ sent' \in [Clients -> Seq(BOOLEAN)]
      /\ Len(tx'[c]) + Len(sent'[c]) = Len(tx[c]) + Len(sent[c])
      /\ \A b1 \in Clients \ {c} : tx'[b1] = tx[b1] /\ sent'[b1] = sent[b1]
  BY <1>1, CompletionEffect DEF Covered
<1> HIDE DEF op
<1>4. net' \subseteq Datagram
  <2>1. op.to \in Clients \cup Others /\ op.msg.len \in Nat
    BY <1>3 DEF SendOp, Message
  <2>2. net \subseteq Datagram /\ count[c] + 1 \in Nat
    BY DEF Covered, TypeOK
  <2> QED
    BY <1>2, <2>1, <2>2 DEF Datagram
<1>5. count' \in [Clients -> Nat]
  BY <1>1 DEF Covered, TypeOK
<1>6. TypeOK'
  BY <1>1, <1>3, <1>4, <1>5 DEF Covered, TypeOK, control, receiving, socket
<1> QED
  BY <1>1, <1>3, <1>6, KeepsCoverMoved DEF control, socket

LEMMA SendFailsStep ==
  ASSUME Covered, NEW c \in Clients, SendFails(c) PROVE Covered'
<1>1. /\ tx[c] # <<>>
      /\ tx' = [tx EXCEPT ![c] = Tail(@)]
      /\ sent' = [sent EXCEPT ![c] = Append(@, FALSE)]
      /\ UNCHANGED <<queue, count, control, receiving, socket, network>>
  BY DEF SendFails
<1>2. /\ tx' \in [Clients -> Seq(SendOp)] /\ sent' \in [Clients -> Seq(BOOLEAN)]
      /\ Len(tx'[c]) + Len(sent'[c]) = Len(tx[c]) + Len(sent[c])
      /\ \A b \in Clients \ {c} : tx'[b] = tx[b] /\ sent'[b] = sent[b]
  BY <1>1, CompletionEffect DEF Covered
<1>3. TypeOK'
  BY <1>1, <1>2 DEF Covered, TypeOK, control, receiving, socket, network
<1> QED
  BY <1>1, <1>2, <1>3, KeepsCoverMoved DEF control, socket

LEMMA KeepsCoverUntouched ==
  ASSUME Covered, TypeOK', queue' = queue, tx' = tx, sent' = sent,
         ~fault' => ~fault, \A c \in Clients : open'[c] => open[c]
  PROVE  Covered'
  BY DEF Covered, EachHasASend

LEMMA AtMostType ==
  \A n, m \in Nat : AtMost(n, m) \in Nat /\ AtMost(n, m) \in 0..m
  BY DEF AtMost

LEMMA KernelReceiveStep ==
  ASSUME Covered, NEW c \in Clients, KernelReceive(c) PROVE Covered'
<1>1. PICK d \in net, e \in BOOLEAN :
        /\ net' = net \ {d}
        /\ data' = [data EXCEPT ![c] = d.body]
        /\ endpoint' = [endpoint EXCEPT ![c] = d.src]
        /\ recvd' = [recvd EXCEPT ![c] = Append(@,
                       [error |-> e, bytes |-> AtMost(d.len, MaxMessage)])]
  BY DEF KernelReceive
<1>2. /\ rx[c] > 0 /\ rx' = [rx EXCEPT ![c] = @ - 1]
      /\ UNCHANGED <<control, sending, bodyLength, shown, open, refused, strays>>
  BY DEF KernelReceive
<1>3. d \in Datagram
  BY DEF Covered, TypeOK
<1>4. MaxMessage \in Nat
  BY ClientAssumption DEF MaxMessage
<1> DEFINE h == [error |-> e, bytes |-> AtMost(d.len, MaxMessage)]
<1>5. h \in Completion
  <2>1. d.len \in Nat
    BY <1>3 DEF Datagram
  <2>2. AtMost(d.len, MaxMessage) \in Nat
    BY <1>4, <2>1, AtMostType
  <2> QED
    BY <2>2 DEF Completion
<1> HIDE DEF h
<1>6. recvd' \in [Clients -> Seq(Completion)]
  <2>1. recvd \in [Clients -> Seq(Completion)]
    BY DEF Covered, TypeOK
  <2>2. Append(recvd[c], h) \in Seq(Completion)
    BY <1>5, <2>1, AppendSeq
  <2>3. recvd' = [recvd EXCEPT ![c] = Append(recvd[c], h)]
    BY <1>1, <2>1 DEF h
  <2> QED
    BY <2>1, <2>2, <2>3
<1>7. rx' \in [Clients -> Nat]
  BY <1>2 DEF Covered, TypeOK
<1>8. /\ net' \subseteq Datagram
      /\ data' \in [Clients -> Contents]
      /\ endpoint' \in [Clients -> Clients \cup Others]
  BY <1>1, <1>3 DEF Covered, TypeOK, Datagram
<1>9. TypeOK'
  BY <1>2, <1>6, <1>7, <1>8 DEF Covered, TypeOK, control, sending
<1> QED
  BY <1>2, <1>9, KeepsCoverUntouched DEF control, sending

LEMMA KernelReceiveErrorStep ==
  ASSUME Covered, NEW c \in Clients, KernelReceiveError(c) PROVE Covered'
<1> DEFINE h == [error |-> TRUE, bytes |-> 0]
<1>1. /\ rx[c] > 0 /\ rx' = [rx EXCEPT ![c] = @ - 1]
      /\ refused' = [refused EXCEPT ![c] = FALSE]
      /\ recvd' = [recvd EXCEPT ![c] = Append(@, h)]
      /\ UNCHANGED <<control, sending, data, bodyLength, shown, endpoint, open,
                     network>>
  BY DEF KernelReceiveError
<1>2. h \in Completion
  BY DEF Completion
<1> HIDE DEF h
<1>3. recvd' \in [Clients -> Seq(Completion)]
  <2>1. recvd \in [Clients -> Seq(Completion)]
    BY DEF Covered, TypeOK
  <2>2. Append(recvd[c], h) \in Seq(Completion)
    BY <1>2, <2>1, AppendSeq
  <2> QED
    BY <1>1, <2>1, <2>2
<1>4. rx' \in [Clients -> Nat]
  BY <1>1 DEF Covered, TypeOK
<1>5. TypeOK'
  BY <1>1, <1>3, <1>4 DEF Covered, TypeOK, control, sending, network
<1> QED
  BY <1>1, <1>5, KeepsCoverUntouched DEF control, sending

LEMMA Popped ==
  ASSUME NEW q \in Nat \ {0}, NEW q2 \in Nat, NEW t \in Nat, NEW s \in Nat \ {0},
         NEW t2 \in Nat, NEW s2 \in Nat, q2 = q - 1, t2 + s2 >= t + s - 1
  PROVE  q2 + t + s <= q + t2 + s2
  OBVIOUS

LEMMA SendSucceededStep ==
  ASSUME Covered, NEW c \in Clients, sent[c] # <<>>, SendSucceeded(c) PROVE Covered'
<1>1. /\ queue[c] # <<>>
      /\ queue' = [queue EXCEPT ![c] = Tail(@)]
      /\ RecvMessage(c)
      /\ UNCHANGED <<control, count, data, bodyLength, shown, socket, network>>
  BY DEF SendSucceeded
<1>2. queue[c] \in Seq(Message) /\ tx[c] \in Seq(SendOp) /\ sent[c] \in Seq(BOOLEAN)
  BY DEF Covered, TypeOK
<1>3. /\ Tail(queue[c]) \in Seq(Message) /\ Len(queue[c]) \in Nat \ {0}
      /\ Len(Tail(queue[c])) = Len(queue[c]) - 1
  BY <1>1, <1>2, TailSeq
<1>4. /\ Tail(sent[c]) \in Seq(BOOLEAN) /\ Len(sent[c]) \in Nat \ {0}
      /\ Len(Tail(sent[c])) = Len(sent[c]) - 1
  BY <1>2, TailSeq
<1>5. /\ PopFrees(tx[c]) \in Seq(SendOp) /\ Len(PopFrees(tx[c])) = Len(tx[c])
      /\ Len(tx[c]) \in Nat
  BY <1>2, PopFreesSeq, LenProperties
<1>6. /\ tx' \in [Clients -> Seq(SendOp)] /\ sent' \in [Clients -> Seq(BOOLEAN)]
      /\ Len(tx'[c]) + Len(sent'[c]) >= Len(tx[c]) + Len(sent[c]) - 1
      /\ \A b \in Clients \ {c} : tx'[b] = tx[b] /\ sent'[b] = sent[b]
  <2>1. CASE Tail(queue[c]) = <<>>
    <3>1. tx' = [tx EXCEPT ![c] = PopFrees(@)] /\ sent' = [sent EXCEPT ![c] = Tail(@)]
      BY <2>1 DEF SendSucceeded
    <3>2. /\ tx' \in [Clients -> Seq(SendOp)] /\ sent' \in [Clients -> Seq(BOOLEAN)]
          /\ tx'[c] = PopFrees(tx[c]) /\ sent'[c] = Tail(sent[c])
          /\ \A b \in Clients \ {c} : tx'[b] = tx[b] /\ sent'[b] = sent[b]
      BY <1>4, <1>5, <3>1 DEF Covered, TypeOK
    <3>3. \A a, d \in Nat : d # 0 => a + (d - 1) >= a + d - 1
      OBVIOUS
    <3> QED
      BY <1>4, <1>5, <3>2, <3>3
  <2>2. CASE Tail(queue[c]) # <<>>
    <3>1. PICK k \in CopiesEarly :
            AsyncSendTo(c, PopFrees(tx[c]), Tail(sent[c]),
              [msg |-> queue[c][2], to |-> endpoint[c],
               bytes |-> IF k THEN "copied" ELSE "queue"])
      BY <2>2 DEF SendSucceeded
    <3>2. queue[c][2] \in Message
      <4>1. Len(Tail(queue[c])) \in Nat \ {0}
        BY <1>3, <2>2, TailSeq
      <4>2. 2 \in 1..Len(queue[c])
        <5>1. \A a, d \in Nat : a # 0 /\ a = d - 1 => 2 \in 1..d
          OBVIOUS
        <5> QED
          BY <1>3, <4>1, <5>1
      <4> QED
        BY <1>2, <4>2, LenProperties
    <3>3. endpoint[c] \in Clients \cup Others
      BY DEF Covered, TypeOK
    <3>4. [msg |-> queue[c][2], to |-> endpoint[c],
           bytes |-> IF k THEN "copied" ELSE "queue"] \in SendOp
      BY <3>2, <3>3 DEF SendOp
    <3>5. /\ tx' \in [Clients -> Seq(SendOp)] /\ sent' \in [Clients -> Seq(BOOLEAN)]
          /\ Len(tx'[c]) + Len(sent'[c]) = Len(PopFrees(tx[c])) + Len(Tail(sent[c])) + 1
          /\ \A b \in Clients \ {c} : tx'[b] = tx[b] /\ sent'[b] = sent[b]
      BY <1>4, <1>5, <3>1, <3>4, AsyncSendToEffect DEF Covered
    <3>6. \A a, d \in Nat : d # 0 => a + (d - 1) + 1 >= a + d - 1
      OBVIOUS
    <3> QED
      BY <1>4, <1>5, <3>5, <3>6
  <2> QED
    BY <2>1, <2>2
<1>7. rx' \in [Clients -> Nat] /\ recvd' \in [Clients -> Seq(Completion)]
  BY <1>1, RecvMessageEffect DEF Covered
<1>8. /\ queue' \in [Clients -> Seq(Message)] /\ queue'[c] = Tail(queue[c])
      /\ \A b \in Clients \ {c} : queue'[b] = queue[b]
  BY <1>1, <1>3 DEF Covered, TypeOK
<1>9. TypeOK'
  BY <1>1, <1>6, <1>7, <1>8 DEF Covered, TypeOK, control, socket, network
<1>10. Len(queue'[c]) + Len(tx[c]) + Len(sent[c])
         <= Len(queue[c]) + Len(tx'[c]) + Len(sent'[c])
  <2> DEFINE q == Len(queue[c])  t == Len(tx[c])  s == Len(sent[c])
             q2 == Len(queue'[c])  t2 == Len(tx'[c])  s2 == Len(sent'[c])
  <2>1. tx'[c] \in Seq(SendOp) /\ sent'[c] \in Seq(BOOLEAN)
    BY <1>6
  <2>2. t2 \in Nat /\ s2 \in Nat
    BY <2>1, LenProperties
  <2>3. q \in Nat \ {0} /\ t \in Nat /\ s \in Nat \ {0}
    BY <1>3, <1>4, <1>5
  <2>4. q2 = q - 1
    BY <1>3, <1>8
  <2>5. t2 + s2 >= t + s - 1
    BY <1>6
  <2> HIDE DEF q, t, s, q2, t2, s2
  <2>6. q2 \in Nat
    BY <2>3, <2>4
  <2>7. q2 + t + s <= q + t2 + s2
    BY <2>2, <2>3, <2>4, <2>5, <2>6, Popped
  <2> QED
    BY <2>7 DEF q, t, s, q2, t2, s2
<1> QED
  BY <1>1, <1>6, <1>8, <1>9, <1>10, KeepsCover DEF control, socket

LEMMA PopsEmptyQueueStep ==
  ASSUME Covered, NEW c \in Clients, PopsEmptyQueue(c) PROVE Covered'
<1>1. TypeOK'
  BY DEF Covered, TypeOK, PopsEmptyQueue, sending, receiving, socket, network
<1>2. EachHasASend'
  BY DEF EachHasASend, PopsEmptyQueue
<1> QED
  BY <1>1, <1>2 DEF Covered

\* A closed socket is no longer in the invariant's scope.
LEMMA ClosedCover ==
  ASSUME Covered, TypeOK', NEW c \in Clients, queue' = queue, fault' = fault,
         open' = [open EXCEPT ![c] = FALSE],
         \A b \in Clients \ {c} : tx'[b] = tx[b] /\ sent'[b] = sent[b]
  PROVE  Covered'
<1>1. ~open'[c] /\ \A b \in Clients \ {c} : open'[b] = open[b]
  BY DEF Covered, TypeOK
<1> QED
  BY <1>1 DEF Covered, EachHasASend

LEMMA SendFailedStep ==
  ASSUME Covered, NEW c \in Clients, sent[c] # <<>>, SendFailed(c) PROVE Covered'
<1>1. /\ Close(c, Tail(sent[c]), recvd[c])
      /\ UNCHANGED <<control, queue, count, data, bodyLength, shown, network>>
  BY DEF SendFailed
<1>2. sent[c] \in Seq(BOOLEAN) /\ recvd[c] \in Seq(Completion)
  BY DEF Covered, TypeOK
<1>3. Tail(sent[c]) \in Seq(BOOLEAN)
  BY <1>2, TailSeq
<1>4. /\ tx' \in [Clients -> Seq(SendOp)] /\ sent' \in [Clients -> Seq(BOOLEAN)]
      /\ rx' \in [Clients -> Nat] /\ recvd' \in [Clients -> Seq(Completion)]
      /\ open' = [open EXCEPT ![c] = FALSE]
      /\ refused' = [refused EXCEPT ![c] = FALSE]
      /\ endpoint' = endpoint
      /\ \A b \in Clients \ {c} : tx'[b] = tx[b] /\ sent'[b] = sent[b]
  BY <1>1, <1>2, <1>3, CloseEffect DEF Covered
<1>5. TypeOK'
  BY <1>1, <1>4 DEF Covered, TypeOK, control, network
<1> QED
  BY <1>1, <1>4, <1>5, ClosedCover DEF control

LEMMA ReceiveFailedStep ==
  ASSUME Covered, NEW c \in Clients, recvd[c] # <<>>, ReceiveFailed(c) PROVE Covered'
<1>1. /\ Close(c, sent[c], Tail(recvd[c]))
      /\ UNCHANGED <<control, queue, count, data, bodyLength, shown, network>>
  BY DEF ReceiveFailed
<1>2. sent[c] \in Seq(BOOLEAN) /\ recvd[c] \in Seq(Completion)
  BY DEF Covered, TypeOK
<1>3. Tail(recvd[c]) \in Seq(Completion)
  BY <1>2, TailSeq
<1>4. /\ tx' \in [Clients -> Seq(SendOp)] /\ sent' \in [Clients -> Seq(BOOLEAN)]
      /\ rx' \in [Clients -> Nat] /\ recvd' \in [Clients -> Seq(Completion)]
      /\ open' = [open EXCEPT ![c] = FALSE]
      /\ refused' = [refused EXCEPT ![c] = FALSE]
      /\ endpoint' = endpoint
      /\ \A b \in Clients \ {c} : tx'[b] = tx[b] /\ sent'[b] = sent[b]
  BY <1>1, <1>2, <1>3, CloseEffect DEF Covered
<1>5. TypeOK'
  BY <1>1, <1>4 DEF Covered, TypeOK, control, network
<1> QED
  BY <1>1, <1>4, <1>5, ClosedCover DEF control

LEMMA ReceiveSucceededStep ==
  ASSUME Covered, NEW c \in Clients, recvd[c] # <<>>, ReceiveSucceeded(c)
  PROVE  Covered'
<1> DEFINE n == Head(recvd[c]).bytes
           h == [text |-> data[c], bytes |-> n]
           Shown == [text: Contents, bytes: Nat]
<1>1. /\ shown' = [shown EXCEPT ![c] = Append(@, h)]
      /\ bodyLength' = IF n > HeaderLength
                       THEN [bodyLength EXCEPT ![c] = AtMost(n - HeaderLength, MaxBody)]
                       ELSE bodyLength
      /\ recvd' = [recvd EXCEPT ![c] = Tail(@)]
      /\ UNCHANGED <<control, sending, rx, data, socket, network>>
  BY DEF ReceiveSucceeded
<1>2. recvd \in [Clients -> Seq(Completion)] /\ shown \in [Clients -> Seq(Shown)]
  BY DEF Covered, TypeOK
<1>3. Head(recvd[c]) \in Completion /\ Tail(recvd[c]) \in Seq(Completion)
  BY <1>2, TailSeq
<1>4. n \in Nat
  BY <1>3 DEF Completion
<1>5. h \in Shown
  BY <1>4 DEF Covered, TypeOK
<1> HIDE DEF h, Shown, n
<1>6. Append(shown[c], h) \in Seq(Shown)
  BY <1>2, <1>5, AppendSeq
<1>7. shown' \in [Clients -> Seq(Shown)] /\ recvd' \in [Clients -> Seq(Completion)]
  BY <1>1, <1>2, <1>3, <1>6
<1>8. bodyLength' \in [Clients -> 0..MaxBody]
  <2>1. bodyLength \in [Clients -> 0..MaxBody]
    BY DEF Covered, TypeOK
  <2>2. n > HeaderLength => AtMost(n - HeaderLength, MaxBody) \in 0..MaxBody
    <3>1. n > HeaderLength => n - HeaderLength \in Nat
      BY <1>4, ClientAssumption
    <3> QED
      BY <3>1, AtMostType, ClientAssumption
  <2> QED
    BY <1>1, <2>1, <2>2
<1>9. TypeOK'
  BY <1>1, <1>7, <1>8 DEF Covered, TypeOK, control, sending, socket, network, Shown
<1> QED
  BY <1>1, <1>9, KeepsCoverUntouched DEF control, sending, socket

LEMMA NetworkStep ==
  ASSUME Covered,
         \/ \E d \in net : Vanish(d) \/ Refuse(d)
         \/ \E o \in Others, c \in Clients, b \in Foreign, n \in StrayLengths :
              Arrive(o, c, b, n)
  PROVE  Covered'
<1>1. ASSUME NEW d \in net, Vanish(d) PROVE Covered'
  <2>1. TypeOK'
    BY <1>1 DEF Covered, TypeOK, Vanish, control, sending, receiving, socket
  <2> QED
    BY <1>1, <2>1, KeepsCoverUntouched DEF Vanish, control, sending, socket
<1>2. ASSUME NEW d \in net, Refuse(d) PROVE Covered'
  <2>1. TypeOK'
    BY <1>2 DEF Covered, TypeOK, Refuse, control, sending, receiving
  <2> QED
    BY <1>2, <2>1, KeepsCoverUntouched DEF Refuse, control, sending
<1>3. ASSUME NEW o \in Others, NEW c \in Clients, NEW b \in Foreign, NEW n \in StrayLengths,
             Arrive(o, c, b, n)
      PROVE  Covered'
  <2>1. strays + 1 \in Nat /\ n \in Nat
    BY ClientAssumption DEF Covered, TypeOK
  <2>2. net' \subseteq Datagram
    BY <1>3, <2>1 DEF Arrive, Covered, TypeOK, Datagram, Contents
  <2>3. TypeOK'
    BY <1>3, <2>1, <2>2
       DEF Arrive, Covered, TypeOK, control, sending, receiving, socket
  <2> QED
    BY <1>3, <2>3, KeepsCoverUntouched DEF Arrive, control, sending, socket
<1> QED
  BY <1>1, <1>2, <1>3

LEMMA InitCovered == Init => Covered
<1> SUFFICES ASSUME Init PROVE Covered
  OBVIOUS
<1>1. TypeOK
  <2>1. /\ script \in Seq(Call) /\ endpoint \in [Clients -> Clients \cup Others]
        /\ 0 \in 0..MaxBody
    BY ClientAssumption DEF Init
  <2>2. \A S : <<>> \in Seq(S)
    BY EmptySeq
  <2> QED
    BY <2>1, <2>2 DEF Init, TypeOK, Contents
<1>2. EachHasASend
  <2>1. Len(<<>>) = 0
    BY EmptySeq
  <2> QED
    BY <2>1 DEF Init, EachHasASend
<1> QED
  BY <1>1, <1>2 DEF Covered

LEMMA NextCovered == Covered /\ [Next]_vars => Covered'
<1> SUFFICES ASSUME Covered, [Next]_vars PROVE Covered'
  OBVIOUS
<1>1. CASE SendMessage
  BY <1>1, SendMessageStep
<1>2. CASE DoWrite
  BY <1>2, DoWriteStep
<1>3. ASSUME NEW c \in Clients, HandleSendTo(c) PROVE Covered'
  <2>1. /\ sent[c] # <<>>
        /\ SendSucceeded(c) \/ PopsEmptyQueue(c) \/ SendFailed(c)
    BY <1>3 DEF HandleSendTo
  <2> QED
    BY <2>1, SendSucceededStep, PopsEmptyQueueStep, SendFailedStep
<1>4. ASSUME NEW c \in Clients, HandleReceiveFrom(c) PROVE Covered'
  <2>1. recvd[c] # <<>> /\ (ReceiveFailed(c) \/ ReceiveSucceeded(c))
    BY <1>4 DEF HandleReceiveFrom
  <2> QED
    BY <2>1, ReceiveFailedStep, ReceiveSucceededStep
<1>5. ASSUME NEW c \in Clients, Kernel(c) PROVE Covered'
  BY <1>5, SendLeavesStep, SendFailsStep, KernelReceiveStep, KernelReceiveErrorStep
     DEF Kernel
<1>6. CASE UNCHANGED vars
  BY <1>6 DEF Covered, TypeOK, EachHasASend, vars, control, sending, receiving,
              socket, network
<1> QED
  BY <1>1, <1>2, <1>3, <1>4, <1>5, <1>6, NetworkStep DEF Next, Program, Handler

\* Every reachable state is well typed and covers each queued message.
THEOREM CoveredAlways == Spec => []Covered
  BY InitCovered, NextCovered, PTL DEF Spec

\* The variables of the client keep their types whatever the script of
\* send_message calls, the network and the order of the handlers.
THEOREM TypeCorrect == Spec => []TypeOK
<1>1. Covered => TypeOK
  BY DEF Covered
<1> QED
  BY <1>1, CoveredAlways, PTL

\* No message waits in send_msg_queue_ of an open client without a send whose
\* handler (handle_send_to) will come to it.
THEOREM NeverStranded == Spec => []NothingStranded
<1>1. Covered => NothingStranded
  <2> SUFFICES ASSUME Covered, NEW c \in Clients, open[c], ~fault, queue[c] # <<>>,
                      tx[c] = <<>>, sent[c] = <<>>
               PROVE  FALSE
    BY DEF NothingStranded
  <2>1. Len(queue[c]) <= Len(tx[c]) + Len(sent[c])
    BY DEF Covered, EachHasASend
  <2>2. Len(tx[c]) = 0 /\ Len(sent[c]) = 0
    BY EmptySeq
  <2>3. Len(queue[c]) \in Nat \ {0}
    BY TailSeq DEF Covered, TypeOK
  <2> QED
    BY <2>1, <2>2, <2>3
<1> QED
  BY <1>1, CoveredAlways, PTL

-----------------------------------------------------------------------------
(* A client used as main uses it: one send_message call on each object.    *)

\* No two calls of a sequence are for the same client.
Distinct(calls) ==
  \A i, j \in DOMAIN calls : calls[i].client = calls[j].client => i = j

\* The message of client c has not been given to do_write yet.
Pending(c) ==
  \/ \E i \in DOMAIN script : script[i].client = c
  \/ \E i \in DOMAIN posted : posted[i].client = c

\* Nothing was ever sent by c, so nothing receives for it.
Untouched(c) ==
  /\ queue[c] = <<>> /\ tx[c] = <<>> /\ sent[c] = <<>>
  /\ rx[c] = 0 /\ recvd[c] = <<>> /\ count[c] = 0 /\ endpoint[c] = Server[c]

\* The message of c has at most one send, in progress or completed, and stays
\* in the queue until that send is handled.
OneSend(c) ==
  /\ Len(queue[c]) <= 1
  /\ Len(tx[c]) + Len(sent[c]) <= Len(queue[c])
  /\ count[c] + Len(tx[c]) <= 1
  /\ \A i \in DOMAIN tx[c] : tx[c][i].to = Server[c]

CallsLeft ==
  /\ Distinct(script) /\ Distinct(posted)
  /\ \A i \in DOMAIN script, j \in DOMAIN posted : script[i].client # posted[j].client

ToServer == \A d \in net : d.src \in Clients => d.dst = Server[d.src]

Once ==
  /\ ~fault
  /\ CallsLeft
  /\ \A c \in Clients : (Pending(c) => Untouched(c)) /\ OneSend(c)
  /\ ToServer

-----------------------------------------------------------------------------
\* A client with a send in progress, or completed, has no other.
LEMMA OneOnly ==
  ASSUME TypeOK, NEW c \in Clients, OneSend(c)
  PROVE  /\ tx[c] # <<>> => /\ tx[c] = <<Head(tx[c])>> /\ Tail(tx[c]) = <<>>
                           /\ sent[c] = <<>> /\ Len(queue[c]) = 1 /\ count[c] = 0
                           /\ Head(tx[c]).to = Server[c]
         /\ sent[c] # <<>> => /\ tx[c] = <<>> /\ Tail(sent[c]) = <<>>
                             /\ Len(queue[c]) = 1
<1> DEFINE q == Len(queue[c])  t == Len(tx[c])  s == Len(sent[c])
<1>1. q \in Nat /\ t \in Nat /\ s \in Nat /\ count[c] \in Nat
  BY Lengths DEF TypeOK
<1>2. q <= 1 /\ t + s <= q /\ count[c] + t <= 1
  BY DEF OneSend
<1>3. tx[c] \in Seq(SendOp) /\ sent[c] \in Seq(BOOLEAN)
  BY DEF TypeOK
<1>4. (t = 0 <=> tx[c] = <<>>) /\ (s = 0 <=> sent[c] = <<>>)
  BY <1>3, EmptySeq
<1> HIDE DEF q, t, s
<1>5. ASSUME tx[c] # <<>>
      PROVE  /\ tx[c] = <<Head(tx[c])>> /\ Tail(tx[c]) = <<>>
             /\ sent[c] = <<>> /\ Len(queue[c]) = 1 /\ count[c] = 0
             /\ Head(tx[c]).to = Server[c]
  <2>1. t = 1 /\ s = 0 /\ q = 1 /\ count[c] = 0
    BY <1>1, <1>2, <1>4, <1>5
  <2>2. Len(tx[c]) = 1 /\ Len(queue[c]) = 1
    BY <2>1 DEF t, q
  <2>3. Head(tx[c]) = tx[c][1] /\ tx[c] = <<Head(tx[c])>> /\ 1 \in DOMAIN tx[c]
    BY <1>3, <2>2
  <2>4. Tail(tx[c]) \in Seq(SendOp) /\ Len(Tail(tx[c])) = Len(tx[c]) - 1
    BY <1>3, <1>5, TailSeq
  <2>5. Len(Tail(tx[c])) = 0
    BY <2>2, <2>4
  <2>6. Tail(tx[c]) = <<>>
    BY <2>4, <2>5, EmptySeq
  <2>7. Head(tx[c]).to = Server[c]
    BY <2>3 DEF OneSend
  <2> QED
    BY <1>4, <2>1, <2>2, <2>3, <2>6, <2>7
<1>6. ASSUME sent[c] # <<>>
      PROVE  tx[c] = <<>> /\ Tail(sent[c]) = <<>> /\ Len(queue[c]) = 1
  <2>1. t = 0 /\ s = 1 /\ q = 1
    BY <1>1, <1>2, <1>4, <1>6
  <2>2. Len(sent[c]) = 1 /\ Len(queue[c]) = 1
    BY <2>1 DEF s, q
  <2>3. Tail(sent[c]) \in Seq(BOOLEAN) /\ Len(Tail(sent[c])) = Len(sent[c]) - 1
    BY <1>3, <1>6, TailSeq
  <2>4. Len(Tail(sent[c])) = 0
    BY <2>2, <2>3
  <2>5. Tail(sent[c]) = <<>>
    BY <2>3, <2>4, EmptySeq
  <2> QED
    BY <1>4, <2>1, <2>2, <2>5
<1> QED
  BY <1>5, <1>6

\* A step of a client whose message was given to do_write.
LEMMA KeepsOnce ==
  ASSUME Once, NEW c \in Clients, script' = script, posted' = posted, fault' = fault,
         ~Untouched(c), OneSend(c)', ToServer',
         \A b \in Clients \ {c} :
           /\ queue'[b] = queue[b] /\ tx'[b] = tx[b] /\ sent'[b] = sent[b]
           /\ rx'[b] = rx[b] /\ recvd'[b] = recvd[b] /\ count'[b] = count[b]
           /\ endpoint'[b] = endpoint[b]
  PROVE  Once'
<1>1. CallsLeft' /\ ~fault' /\ \A b \in Clients : Pending(b)' <=> Pending(b)
  BY DEF Once, CallsLeft, Distinct, Pending
<1>2. ~Pending(c)
  BY DEF Once
<1>3. ASSUME NEW b \in Clients PROVE (Pending(b) => Untouched(b)') /\ OneSend(b)'
  <2>1. CASE b = c
    BY <1>2, <2>1
  <2>2. CASE b # c
    <3>1. (Pending(b) => Untouched(b)) /\ OneSend(b)
      BY DEF Once
    <3> QED
      BY <2>2, <3>1 DEF Untouched, OneSend
  <2> QED
    BY <2>1, <2>2
<1> QED
  BY <1>1, <1>3 DEF Once

\* A step that touches neither the sends nor the receives of any client.
LEMMA KeepsOnceNetwork ==
  ASSUME Once, script' = script, posted' = posted, fault' = fault, ToServer',
         queue' = queue, tx' = tx, sent' = sent, rx' = rx, recvd' = recvd,
         count' = count, endpoint' = endpoint
  PROVE  Once'
<1>1. CallsLeft' /\ ~fault' /\ \A b \in Clients : Pending(b)' <=> Pending(b)
  BY DEF Once, CallsLeft, Distinct, Pending
<1>2. \A b \in Clients : (Untouched(b)' <=> Untouched(b)) /\ (OneSend(b)' <=> OneSend(b))
  BY DEF Untouched, OneSend
<1> QED
  BY <1>1, <1>2 DEF Once

\* A client with no send in progress.
LEMMA NotSending ==
  ASSUME NEW c \in Clients, NEW q \in Nat, NEW s \in Nat, NEW n \in Nat,
         tx'[c] = <<>>, Len(queue'[c]) = q, Len(sent'[c]) = s, count'[c] = n,
         s <= q, q <= 1, n <= 1
  PROVE  OneSend(c)'
<1>1. Len(tx'[c]) = 0 /\ DOMAIN tx'[c] = {}
  <2>1. Len(<<>>) = 0 /\ DOMAIN <<>> = {}
    BY EmptySeq
  <2> QED
    BY <2>1
<1>2. Len(tx'[c]) + Len(sent'[c]) <= Len(queue'[c]) /\ count'[c] + Len(tx'[c]) <= 1
  <2>1. 0 + s <= q /\ n + 0 <= 1
    OBVIOUS
  <2> QED
    BY <1>1, <2>1
<1> QED
  BY <1>1, <1>2 DEF OneSend

-----------------------------------------------------------------------------
LEMMA SendLeavesOnce ==
  ASSUME TypeOK, Once, NEW c \in Clients, SendLeaves(c) PROVE Once'
<1>1. /\ tx[c] # <<>>
      /\ tx' = [tx EXCEPT ![c] = Tail(@)]
      /\ sent' = [sent EXCEPT ![c] = Append(@, TRUE)]
      /\ count' = [count EXCEPT ![c] = @ + 1]
      /\ UNCHANGED <<queue, control, receiving, socket, strays>>
  BY DEF SendLeaves
<1>2. /\ Tail(tx[c]) = <<>> /\ sent[c] = <<>> /\ Len(queue[c]) = 1 /\ count[c] = 0
      /\ Head(tx[c]).to = Server[c]
  BY <1>1, OneOnly DEF Once
<1>3. ToServer'
  <2>1. PICK b, n : net' = net \cup {[src |-> c, dst |-> Head(tx[c]).to,
                                      id |-> count[c] + 1, body |-> b, len |-> n]}
    BY DEF SendLeaves
  <2> QED
    BY <1>2, <2>1 DEF Once, ToServer
<1>4. tx'[c] = <<>> /\ sent'[c] = <<TRUE>> /\ count'[c] = 1
  <2>1. Append(<<>>, TRUE) = <<TRUE>>
    OBVIOUS
  <2>2. /\ tx'[c] = Tail(tx[c]) /\ sent'[c] = Append(sent[c], TRUE)
        /\ count'[c] = count[c] + 1
    BY <1>1 DEF TypeOK
  <2>3. tx'[c] = <<>> /\ sent'[c] = <<TRUE>>
    BY <1>2, <2>1, <2>2
  <2>4. count'[c] = 1
    BY <1>2, <2>2
  <2> QED
    BY <2>3, <2>4
<1>5. OneSend(c)'
  <2>1. Len(sent'[c]) = 1
    BY <1>4
  <2>2. Len(queue'[c]) = 1
    BY <1>1, <1>2
  <2>3. 1 \in Nat /\ 1 <= 1
    OBVIOUS
  <2> QED
    BY <1>4, <2>1, <2>2, <2>3, NotSending, Zenon
<1>6. \A b \in Clients \ {c} : tx'[b] = tx[b] /\ sent'[b] = sent[b] /\ count'[b] = count[b]
  BY <1>1 DEF TypeOK
<1>7. ~Untouched(c)
  BY <1>1 DEF Untouched
<1> QED
  BY <1>1, <1>3, <1>5, <1>6, <1>7, KeepsOnce DEF control, receiving, socket

LEMMA SendFailsOnce ==
  ASSUME TypeOK, Once, NEW c \in Clients, SendFails(c) PROVE Once'
<1>1. /\ tx[c] # <<>>
      /\ tx' = [tx EXCEPT ![c] = Tail(@)]
      /\ sent' = [sent EXCEPT ![c] = Append(@, FALSE)]
      /\ UNCHANGED <<queue, count, control, receiving, socket, network>>
  BY DEF SendFails
<1>2. Tail(tx[c]) = <<>> /\ sent[c] = <<>> /\ Len(queue[c]) = 1 /\ count[c] = 0
  BY <1>1, OneOnly DEF Once
<1>3. tx'[c] = <<>> /\ sent'[c] = <<FALSE>>
  <2>1. Append(<<>>, FALSE) = <<FALSE>>
    OBVIOUS
  <2> QED
    BY <1>1, <1>2, <2>1 DEF TypeOK
<1>4. OneSend(c)'
  <2>1. Len(sent'[c]) = 1
    BY <1>3
  <2>2. Len(queue'[c]) = 1 /\ count'[c] = 0
    BY <1>1, <1>2
  <2>3. 0 \in Nat /\ 1 \in Nat /\ 0 <= 1 /\ 1 <= 1
    OBVIOUS
  <2> QED
    BY <1>3, <2>1, <2>2, <2>3, NotSending, Zenon
<1>5. \A b \in Clients \ {c} : tx'[b] = tx[b] /\ sent'[b] = sent[b]
  BY <1>1 DEF TypeOK
<1>6. ~Untouched(c) /\ ToServer'
  BY <1>1 DEF Untouched, Once, ToServer, network
<1> QED
  BY <1>1, <1>4, <1>5, <1>6, KeepsOnce DEF control, receiving, socket

LEMMA ReceiveOnce ==
  ASSUME TypeOK, Once, NEW c \in Clients, KernelReceive(c) \/ KernelReceiveError(c)
  PROVE  Once'
<1>1. /\ rx[c] > 0 /\ rx' = [rx EXCEPT ![c] = @ - 1]
      /\ UNCHANGED <<control, sending>>
      /\ net' \subseteq net
  BY DEF KernelReceive, KernelReceiveError, network
<1>2. \A b \in Clients \ {c} :
        rx'[b] = rx[b] /\ recvd'[b] = recvd[b] /\ endpoint'[b] = endpoint[b]
  <2>1. /\ rx \in [Clients -> Nat] /\ recvd \in [Clients -> Seq(Completion)]
        /\ endpoint \in [Clients -> Clients \cup Others]
    BY DEF TypeOK
  <2>2. CASE KernelReceive(c)
    BY <2>1, <2>2 DEF KernelReceive
  <2>3. CASE KernelReceiveError(c)
    BY <2>1, <2>3 DEF KernelReceiveError
  <2> QED
    BY <2>2, <2>3
<1>3. ~Untouched(c) /\ ToServer'
  BY <1>1 DEF Untouched, Once, ToServer
<1>4. OneSend(c)'
  BY <1>1 DEF Once, OneSend, sending
<1> QED
  BY <1>1, <1>2, <1>3, <1>4, KeepsOnce DEF control, sending

LEMMA SendSucceededOnce ==
  ASSUME TypeOK, Once, NEW c \in Clients, sent[c] # <<>>, SendSucceeded(c) PROVE Once'
<1>1. /\ queue' = [queue EXCEPT ![c] = Tail(@)]
      /\ RecvMessage(c)
      /\ UNCHANGED <<control, count, data, bodyLength, shown, socket, network>>
  BY DEF SendSucceeded
<1>2. tx[c] = <<>> /\ Tail(sent[c]) = <<>> /\ Len(queue[c]) = 1
  BY OneOnly DEF Once
<1>3. Tail(queue[c]) = <<>>
  <2>1. queue[c] \in Seq(Message) /\ queue[c] # <<>>
    BY DEF TypeOK, SendSucceeded
  <2>2. Tail(queue[c]) \in Seq(Message) /\ Len(Tail(queue[c])) = Len(queue[c]) - 1
    BY <2>1, TailSeq
  <2>3. Len(Tail(queue[c])) = 0
    BY <1>2, <2>2
  <2> QED
    BY <2>2, <2>3, EmptySeq
<1>4. tx' = [tx EXCEPT ![c] = PopFrees(@)] /\ sent' = [sent EXCEPT ![c] = Tail(@)]
  BY <1>3 DEF SendSucceeded
<1>5. tx'[c] = <<>> /\ sent'[c] = <<>> /\ queue'[c] = <<>>
  <2>1. PopFrees(<<>>) = <<>>
    BY DEF PopFrees
  <2> QED
    BY <1>1, <1>2, <1>3, <1>4, <2>1 DEF TypeOK
<1>6. OneSend(c)'
  <2>1. Len(sent'[c]) = 0 /\ Len(queue'[c]) = 0
    BY <1>5
  <2>2. count'[c] \in Nat /\ count'[c] <= 1
    <3>1. count[c] \in Nat /\ Len(tx[c]) = 0 /\ count[c] + Len(tx[c]) <= 1
      BY <1>2 DEF Once, OneSend, TypeOK
    <3>2. count[c] <= 1
      BY <3>1
    <3> QED
      BY <1>1, <3>1, <3>2
  <2> QED
    BY <1>5, <2>1, <2>2, NotSending
<1>7. \A b \in Clients \ {c} : /\ queue'[b] = queue[b] /\ tx'[b] = tx[b]
                              /\ sent'[b] = sent[b] /\ rx'[b] = rx[b]
                              /\ recvd'[b] = recvd[b]
  BY <1>1, <1>4, RecvMessageEffect DEF TypeOK
<1>8. ~Untouched(c) /\ ToServer'
  BY <1>1 DEF Untouched, Once, ToServer, network
<1> QED
  BY <1>1, <1>6, <1>7, <1>8, KeepsOnce DEF control, socket

\* An empty queue has no completed send to handle.
LEMMA PopsEmptyQueueOnce ==
  ASSUME TypeOK, Once, NEW c \in Clients, sent[c] # <<>>, PopsEmptyQueue(c)
  PROVE  FALSE
<1>1. Len(queue[c]) = 1 /\ queue[c] = <<>>
  BY OneOnly DEF Once, PopsEmptyQueue
<1>2. Len(<<>>) = 0
  BY EmptySeq
<1> QED
  BY <1>1, <1>2

\* Closing completes the sends in progress, and starts none.
LEMMA CloseOnce ==
  ASSUME TypeOK, Once, NEW c \in Clients, NEW done \in Seq(BOOLEAN),
         NEW got \in Seq(Completion), Close(c, done, got), Len(done) <= Len(sent[c]),
         ~Untouched(c), UNCHANGED <<control, queue, count, network>>
  PROVE  Once'
<1>1. /\ tx'[c] = <<>> /\ Len(sent'[c]) = Len(done) + Len(tx[c])
      /\ endpoint' = endpoint
      /\ \A b \in Clients \ {c} : /\ tx'[b] = tx[b] /\ sent'[b] = sent[b]
                                 /\ rx'[b] = rx[b] /\ recvd'[b] = recvd[b]
  BY CloseEffect
<1>2. OneSend(c)'
  <2> DEFINE q == Len(queue[c])  t == Len(tx[c])  s == Len(sent[c])  d == Len(done)
             n == count[c]
  <2>1. q \in Nat /\ t \in Nat /\ s \in Nat /\ d \in Nat /\ n \in Nat
    BY Lengths, LenProperties DEF TypeOK
  <2>2. q <= 1 /\ t + s <= q /\ n + t <= 1 /\ d <= s
    BY DEF Once, OneSend
  <2>3. Len(sent'[c]) = d + t /\ Len(queue'[c]) = q /\ count'[c] = n
    BY <1>1
  <2> HIDE DEF q, t, s, d, n
  <2>4. d + t \in Nat /\ d + t <= q /\ q <= 1 /\ n <= 1
    BY <2>1, <2>2
  <2> QED
    BY <1>1, <2>1, <2>3, <2>4, NotSending
<1>3. ToServer'
  BY DEF Once, ToServer, network
<1> QED
  BY <1>1, <1>2, <1>3, KeepsOnce DEF control

LEMMA HandlerOnce ==
  ASSUME TypeOK, Once, NEW c \in Clients, Handler(c) PROVE Once'
<1>1. sent[c] \in Seq(BOOLEAN) /\ recvd[c] \in Seq(Completion) /\ Len(sent[c]) \in Nat
  BY Lengths DEF TypeOK
<1>2. CASE sent[c] # <<>> /\ SendSucceeded(c)
  BY <1>2, SendSucceededOnce
<1>3. CASE sent[c] # <<>> /\ PopsEmptyQueue(c)
  BY <1>3, PopsEmptyQueueOnce
<1>4. CASE sent[c] # <<>> /\ SendFailed(c)
  <2>1. Tail(sent[c]) \in Seq(BOOLEAN) /\ Len(Tail(sent[c])) = Len(sent[c]) - 1
    BY <1>1, <1>4, TailSeq
  <2>2. Len(Tail(sent[c])) <= Len(sent[c])
    BY <1>1, <2>1
  <2>3. ~Untouched(c)
    BY <1>4 DEF Untouched
  <2> QED
    BY <1>1, <1>4, <2>1, <2>2, <2>3, CloseOnce DEF SendFailed
<1>5. CASE recvd[c] # <<>> /\ ReceiveFailed(c)
  <2>1. Tail(recvd[c]) \in Seq(Completion)
    BY <1>1, <1>5, TailSeq
  <2>2. Len(sent[c]) <= Len(sent[c]) /\ ~Untouched(c)
    BY <1>1, <1>5 DEF Untouched
  <2> QED
    BY <1>1, <1>5, <2>1, <2>2, CloseOnce DEF ReceiveFailed
<1>6. CASE recvd[c] # <<>> /\ ReceiveSucceeded(c)
  <2>1. /\ UNCHANGED <<control, sending, rx, socket, network>>
        /\ \A b \in Clients \ {c} : recvd'[b] = recvd[b]
    BY <1>6 DEF ReceiveSucceeded, TypeOK
  <2>2. ~Untouched(c) /\ ToServer' /\ OneSend(c)'
    BY <1>6, <2>1 DEF Untouched, Once, ToServer, OneSend, sending, network
  <2> QED
    BY <2>1, <2>2, KeepsOnce DEF control, sending, socket
<1> QED
  BY <1>2, <1>3, <1>4, <1>5, <1>6 DEF Handler, HandleSendTo, HandleReceiveFrom

-----------------------------------------------------------------------------
\* A call of main moves from the script to the posted handlers.
LEMMA SendMessageOnce ==
  ASSUME TypeOK, Once, SendMessage PROVE Once'
<1> DEFINE p == [client |-> Head(script).client, msg |-> MessageOf(Head(script).text)]
           n == Len(script)
           k == Len(posted)
<1>1. /\ script # <<>> /\ script' = Tail(script) /\ posted' = Append(posted, p)
      /\ UNCHANGED <<fault, sending, receiving, socket, network>>
  BY DEF SendMessage
<1>2. /\ script \in Seq(Call) /\ n \in Nat \ {0} /\ DOMAIN script = 1..n
      /\ Head(script) = script[1]
      /\ DOMAIN Tail(script) = 1..(n - 1)
      /\ \A i \in 1..(n - 1) : Tail(script)[i] = script[i + 1]
  <2>1. script \in Seq(Call) /\ script # <<>>
    BY <1>1 DEF TypeOK
  <2>2. /\ Head(script) = script[1] /\ n \in Nat \ {0} /\ DOMAIN script = 1..n
    BY <2>1, TailSeq, LenProperties
  <2>3. /\ Tail(script) \in Seq(Call) /\ Len(Tail(script)) = n - 1
        /\ \A i \in 1..(n - 1) : Tail(script)[i] = script[i + 1]
    BY <2>1, HeadTailProperties
  <2>4. DOMAIN Tail(script) = 1..(n - 1)
    BY <2>3, LenProperties
  <2> QED
    BY <2>1, <2>2, <2>3, <2>4
<1>3. /\ k \in Nat /\ DOMAIN posted = 1..k /\ DOMAIN posted' = 1..(k + 1)
      /\ \A i \in 1..k : posted'[i] = posted[i]
      /\ posted'[k + 1] = p
  <2>1. posted \in Seq([client: Clients, msg: Message])
    BY DEF TypeOK
  <2>2. p \in [client: Clients, msg: Message]
    <3>1. Head(script) \in Call
      BY <1>1, <1>2, TailSeq
    <3> QED
      BY <3>1, MessageType DEF Call
  <2> HIDE DEF p
  <2>3. k \in Nat /\ DOMAIN posted = 1..k
    BY <2>1, LenProperties
  <2>4. /\ Append(posted, p) \in Seq([client: Clients, msg: Message])
        /\ Len(Append(posted, p)) = k + 1
        /\ \A i \in 1..k : Append(posted, p)[i] = posted[i]
        /\ Append(posted, p)[k + 1] = p
    BY <2>1, <2>2, AppendProperties
  <2>5. DOMAIN Append(posted, p) = 1..(k + 1)
    BY <2>4, LenProperties
  <2> QED
    BY <1>1, <2>3, <2>4, <2>5
<1>4. p.client = script[1].client
  BY <1>2
<1> HIDE DEF p, n, k
<1>5. Distinct(script')
  <2> SUFFICES ASSUME NEW i \in 1..(n - 1), NEW j \in 1..(n - 1),
                      script'[i].client = script'[j].client
               PROVE  i = j
    BY <1>1, <1>2 DEF Distinct
  <2>1. script[i + 1].client = script[j + 1].client
    BY <1>1, <1>2
  <2>2. i + 1 \in 1..n /\ j + 1 \in 1..n
    BY <1>2
  <2>3. i + 1 = j + 1
    BY <1>2, <2>1, <2>2 DEF Once, CallsLeft, Distinct
  <2> QED
    BY <1>2, <2>3
<1>6. \A i \in 1..k : posted[i].client # script[1].client
  BY <1>2, <1>3 DEF Once, CallsLeft
<1>7. Distinct(posted')
  <2> SUFFICES ASSUME NEW i \in 1..(k + 1), NEW j \in 1..(k + 1),
                      posted'[i].client = posted'[j].client
               PROVE  i = j
    BY <1>3 DEF Distinct
  <2>1. CASE i \in 1..k /\ j \in 1..k
    BY <1>3, <2>1 DEF Once, CallsLeft, Distinct
  <2>2. i \in 1..k \/ i = k + 1
    BY <1>3
  <2>3. j \in 1..k \/ j = k + 1
    BY <1>3
  <2> QED
    BY <1>3, <1>4, <1>6, <2>1, <2>2, <2>3
<1>8. \A i \in DOMAIN script', j \in DOMAIN posted' : script'[i].client # posted'[j].client
  <2> SUFFICES ASSUME NEW i \in 1..(n - 1), NEW j \in 1..(k + 1)
               PROVE  script[i + 1].client # posted'[j].client
    BY <1>1, <1>2, <1>3
  <2>1. i + 1 \in 1..n /\ 1 \in 1..n /\ i + 1 # 1
    BY <1>2
  <2>2. j \in 1..k \/ j = k + 1
    BY <1>3
  <2>3. CASE j \in 1..k
    BY <1>2, <1>3, <2>1, <2>3 DEF Once, CallsLeft
  <2>4. CASE j = k + 1
    BY <1>2, <1>3, <1>4, <2>1, <2>4 DEF Once, CallsLeft, Distinct
  <2> QED
    BY <2>2, <2>3, <2>4
<1>9. ASSUME NEW c \in Clients, Pending(c)' PROVE Pending(c)
  <2>1. CASE \E i \in DOMAIN script' : script'[i].client = c
    <3>1. PICK i \in 1..(n - 1) : script[i + 1].client = c
      BY <1>1, <1>2, <2>1
    <3>2. i + 1 \in DOMAIN script
      BY <1>2
    <3> QED
      BY <3>1, <3>2 DEF Pending
  <2>2. CASE \E i \in DOMAIN posted' : posted'[i].client = c
    <3>1. PICK i \in 1..(k + 1) : posted'[i].client = c
      BY <1>3, <2>2
    <3>2. i \in 1..k \/ i = k + 1
      BY <1>3
    <3>3. CASE i \in 1..k
      BY <1>3, <3>1, <3>3 DEF Pending
    <3>4. CASE i = k + 1
      <4>1. script[1].client = c /\ 1 \in DOMAIN script
        BY <1>2, <1>3, <1>4, <3>1, <3>4
      <4> QED
        BY <4>1 DEF Pending
    <3> QED
      BY <3>2, <3>3, <3>4
  <2> QED
    BY <1>9, <2>1, <2>2 DEF Pending
<1>10. \A c \in Clients : (Untouched(c)' <=> Untouched(c)) /\ (OneSend(c)' <=> OneSend(c))
  BY <1>1 DEF Untouched, OneSend, sending, receiving, socket
<1>11. ~fault' /\ ToServer'
  BY <1>1 DEF Once, ToServer, network
<1> QED
  BY <1>5, <1>7, <1>8, <1>9, <1>10, <1>11 DEF Once, CallsLeft

\* The one do_write of a client queues its message and starts its send.
LEMMA DoWriteOnce ==
  ASSUME TypeOK, Once, DoWrite PROVE Once'
<1>0. PICK c \in Clients, m \in Message : c = Head(posted).client /\ m = Head(posted).msg
  <2>1. posted \in Seq([client: Clients, msg: Message]) /\ posted # <<>>
    BY DEF TypeOK, DoWrite
  <2>2. Head(posted) \in [client: Clients, msg: Message]
    BY <2>1, TailSeq
  <2> QED
    BY <2>2
<1> DEFINE k == Len(posted)
<1>1. /\ posted # <<>> /\ posted' = Tail(posted)
      /\ queue' = [queue EXCEPT ![c] = Append(@, m)]
      /\ UNCHANGED <<script, fault, count, receiving, socket, network>>
  BY <1>0 DEF DoWrite
<1>2. /\ c = posted[1].client
      /\ k \in Nat \ {0} /\ DOMAIN posted = 1..k
      /\ DOMAIN Tail(posted) = 1..(k - 1)
      /\ \A i \in 1..(k - 1) : Tail(posted)[i] = posted[i + 1]
  <2>1. posted \in Seq([client: Clients, msg: Message]) /\ posted # <<>>
    BY <1>1 DEF TypeOK
  <2>2. /\ Head(posted) = posted[1] /\ k \in Nat \ {0} /\ DOMAIN posted = 1..k
    BY <2>1, TailSeq, LenProperties
  <2>3. /\ Tail(posted) \in Seq([client: Clients, msg: Message])
        /\ Len(Tail(posted)) = k - 1
        /\ \A i \in 1..(k - 1) : Tail(posted)[i] = posted[i + 1]
    BY <2>1, HeadTailProperties
  <2>4. DOMAIN Tail(posted) = 1..(k - 1)
    BY <2>3, LenProperties
  <2> QED
    BY <1>0, <2>2, <2>3, <2>4
<1>3. PICK b \in CopiesEarly :
        AsyncSendTo(c, tx[c], sent[c],
          [msg |-> m, to |-> endpoint[c], bytes |-> IF b THEN "copied" ELSE "freed"])
  BY <1>0 DEF DoWrite
<1> DEFINE op == [msg |-> m, to |-> endpoint[c],
                  bytes |-> IF b THEN "copied" ELSE "freed"]
<1> HIDE DEF k
<1>4. Untouched(c)
  <2>1. 1 \in DOMAIN posted
    BY <1>2
  <2> QED
    BY <1>2, <2>1 DEF Once, Pending
<1>5. op \in SendOp /\ op.to = Server[c]
  BY <1>2, <1>4 DEF SendOp, TypeOK, Untouched
<1> HIDE DEF op
<1>6. AsyncSendTo(c, <<>>, <<>>, op)
  BY <1>3, <1>4 DEF Untouched, op
<1>7. /\ \/ tx'[c] = <<op>> /\ sent'[c] = <<>>
         \/ tx'[c] = <<>> /\ sent'[c] = <<FALSE>>
      /\ queue'[c] = <<m>> /\ count'[c] = 0
      /\ \A b1 \in Clients \ {c} : /\ tx'[b1] = tx[b1] /\ sent'[b1] = sent[b1]
                                  /\ queue'[b1] = queue[b1]
  <2>1. Append(<<>>, op) = <<op>> /\ Append(<<>>, FALSE) = <<FALSE>>
        /\ Append(<<>>, m) = <<m>>
    OBVIOUS
  <2>2. \/ tx' = [tx EXCEPT ![c] = <<op>>] /\ sent' = [sent EXCEPT ![c] = <<>>]
        \/ tx' = [tx EXCEPT ![c] = <<>>] /\ sent' = [sent EXCEPT ![c] = <<FALSE>>]
    BY <1>6, <2>1 DEF AsyncSendTo
  <2>3. queue[c] = <<>> /\ count[c] = 0
    BY <1>4 DEF Untouched
  <2>4. queue'[c] = <<m>> /\ count'[c] = 0
    BY <1>1, <1>2, <2>1, <2>3 DEF TypeOK
  <2> QED
    BY <1>1, <1>2, <2>2, <2>4 DEF TypeOK
<1>8. OneSend(c)'
  <2>1. Len(queue'[c]) = 1
    BY <1>7
  <2>2. 0 \in Nat /\ 1 \in Nat /\ 0 <= 1 /\ 1 <= 1
    OBVIOUS
  <2>3. CASE tx'[c] = <<>> /\ sent'[c] = <<FALSE>>
    <3>1. Len(sent'[c]) = 1
      BY <2>3
    <3> QED
      BY <1>2, <1>7, <2>1, <2>2, <2>3, <3>1, NotSending, Zenon
  <2>4. CASE tx'[c] = <<op>> /\ sent'[c] = <<>>
    <3>1. Len(sent'[c]) = 0 /\ Len(tx'[c]) = 1 /\ DOMAIN tx'[c] = {1} /\ tx'[c][1] = op
      <4>1. /\ Len(<<>>) = 0 /\ Len(<<op>>) = 1 /\ DOMAIN <<op>> = {1} /\ <<op>>[1] = op
        OBVIOUS
      <4> QED
        BY <2>4, <4>1
    <3>2. Len(tx'[c]) + Len(sent'[c]) <= Len(queue'[c]) /\ count'[c] + Len(tx'[c]) <= 1
          /\ Len(queue'[c]) <= 1
      BY <1>7, <2>1, <3>1
    <3>3. \A i \in DOMAIN tx'[c] : tx'[c][i].to = Server[c]
      BY <1>5, <3>1
    <3> QED
      BY <3>2, <3>3 DEF OneSend
  <2> QED
    BY <1>7, <2>3, <2>4
<1>9. Distinct(posted') /\ \A i \in DOMAIN posted' : posted'[i].client # c
  <2>1. \A i \in 1..(k - 1) : i + 1 \in 1..k /\ i + 1 # 1 /\ 1 \in 1..k
    BY <1>2
  <2>2. ASSUME NEW i \in 1..(k - 1), NEW j \in 1..(k - 1),
               posted'[i].client = posted'[j].client
        PROVE  i = j
    <3>1. posted[i + 1].client = posted[j + 1].client
      BY <1>1, <1>2, <2>2
    <3>2. i + 1 = j + 1
      BY <1>2, <2>1, <3>1 DEF Once, CallsLeft, Distinct
    <3> QED
      BY <1>2, <3>2
  <2>3. ASSUME NEW i \in 1..(k - 1) PROVE posted'[i].client # c
    <3>1. posted'[i] = posted[i + 1]
      BY <1>1, <1>2
    <3> QED
      BY <1>2, <2>1, <3>1 DEF Once, CallsLeft, Distinct
  <2> QED
    BY <1>1, <1>2, <2>2, <2>3 DEF Distinct
<1>10. \A i \in DOMAIN posted' : \E j \in DOMAIN posted : posted'[i] = posted[j]
  <2> SUFFICES ASSUME NEW i \in 1..(k - 1)
               PROVE  \E j \in DOMAIN posted : posted'[i] = posted[j]
    BY <1>1, <1>2
  <2>1. i + 1 \in DOMAIN posted /\ posted'[i] = posted[i + 1]
    BY <1>1, <1>2
  <2> QED
    BY <2>1
<1>11. CallsLeft' /\ ~Pending(c)' /\ \A b1 \in Clients : Pending(b1)' => Pending(b1)
  <2>1. script' = script /\ Distinct(script) /\ 1 \in DOMAIN posted
    BY <1>1, <1>2 DEF Once, CallsLeft
  <2>2. \A i \in DOMAIN script, j \in DOMAIN posted : script[i].client # posted[j].client
    BY DEF Once, CallsLeft
  <2>3. \A i \in DOMAIN script', j \in DOMAIN posted' :
          script'[i].client # posted'[j].client
    BY <1>10, <2>1, <2>2
  <2>4. Distinct(script')
    BY <2>1
  <2>5. CallsLeft'
    BY <1>9, <2>3, <2>4 DEF CallsLeft
  <2>6. \A i \in DOMAIN script' : script'[i].client # c
    BY <1>2, <2>1, <2>2
  <2>7. ~Pending(c)'
    BY <1>9, <2>6 DEF Pending
  <2>8. \A b1 \in Clients : Pending(b1)' => Pending(b1)
    BY <1>10, <2>1 DEF Pending
  <2> QED
    BY <2>5, <2>7, <2>8
<1>12. ASSUME NEW b1 \in Clients PROVE (Pending(b1)' => Untouched(b1)') /\ OneSend(b1)'
  <2>1. CASE b1 = c
    BY <1>8, <1>11, <2>1
  <2>2. CASE b1 # c
    <3>1. (Pending(b1) => Untouched(b1)) /\ OneSend(b1)
      BY DEF Once
    <3>2. /\ tx'[b1] = tx[b1] /\ sent'[b1] = sent[b1] /\ queue'[b1] = queue[b1]
          /\ rx' = rx /\ recvd' = recvd /\ count' = count /\ endpoint' = endpoint
      BY <1>1, <1>7, <2>2 DEF receiving, socket
    <3>3. (Untouched(b1) => Untouched(b1)') /\ (OneSend(b1) => OneSend(b1)')
      BY <3>2 DEF Untouched, OneSend
    <3> QED
      BY <1>11, <3>1, <3>3
  <2> QED
    BY <2>1, <2>2
<1>13. ~fault' /\ ToServer'
  BY <1>1 DEF Once, ToServer, network
<1> QED
  BY <1>11, <1>12, <1>13 DEF Once

\* Other endpoints are no clients: what they send is no request.
LEMMA NetworkOnce ==
  ASSUME Once,
         \/ \E d \in net : Vanish(d) \/ Refuse(d)
         \/ \E o \in Others, c \in Clients, b \in Foreign, n \in StrayLengths :
              Arrive(o, c, b, n)
  PROVE  Once'
<1>1. ASSUME NEW d \in net, Vanish(d) \/ Refuse(d) PROVE Once'
  <2>1. net' = net \ {d} /\ UNCHANGED <<control, sending, receiving, endpoint>>
    BY <1>1 DEF Vanish, Refuse, socket
  <2>2. ToServer'
    BY <2>1 DEF Once, ToServer
  <2> QED
    BY <2>1, <2>2, KeepsOnceNetwork DEF control, sending, receiving
<1>2. ASSUME NEW o \in Others, NEW c \in Clients, NEW b \in Foreign, NEW n \in StrayLengths,
             Arrive(o, c, b, n)
      PROVE  Once'
  <2>1. o \notin Clients
    BY ClientAssumption
  <2>2. ToServer'
    BY <1>2, <2>1 DEF Once, ToServer, Arrive
  <2> QED
    BY <1>2, <2>2, KeepsOnceNetwork DEF Arrive, control, sending, receiving, socket
<1> QED
  BY <1>1, <1>2

-----------------------------------------------------------------------------
LEMMA InitOnce == UsedOnce /\ Init => Once
<1> SUFFICES ASSUME UsedOnce, Init PROVE Once
  OBVIOUS
<1>1. DOMAIN <<>> = {} /\ Len(<<>>) = 0
  BY EmptySeq
<1>2. CallsLeft
  BY <1>1 DEF Init, UsedOnce, CallsLeft, Distinct
<1>3. \A c \in Clients : Untouched(c)
  BY DEF Init, Untouched
<1>4. ASSUME NEW c \in Clients PROVE OneSend(c)
  <2>1. Len(queue[c]) = 0 /\ Len(tx[c]) = 0 /\ Len(sent[c]) = 0 /\ count[c] = 0
        /\ DOMAIN tx[c] = {}
    BY <1>1 DEF Init
  <2> QED
    BY <2>1 DEF OneSend
<1>5. ~fault /\ ToServer
  BY DEF Init, ToServer
<1> QED
  BY <1>2, <1>3, <1>4, <1>5 DEF Once

LEMMA NextOnce == TypeOK /\ Once /\ [Next]_vars => Once'
<1> SUFFICES ASSUME TypeOK, Once, [Next]_vars PROVE Once'
  OBVIOUS
<1>1. ASSUME NEW c \in Clients, Kernel(c) PROVE Once'
  BY <1>1, SendLeavesOnce, SendFailsOnce, ReceiveOnce DEF Kernel
<1>2. CASE UNCHANGED vars
  <2>1. ToServer'
    BY <1>2 DEF Once, ToServer, vars, network
  <2> QED
    BY <1>2, <2>1, KeepsOnceNetwork
       DEF vars, control, sending, receiving, socket, network
<1> QED
  BY <1>1, <1>2, SendMessageOnce, DoWriteOnce, HandlerOnce, NetworkOnce DEF Next, Program

\* Used as main uses it, a udp_client never pops an empty queue, and sends at
\* most one datagram, to the endpoint it resolved when it was constructed,
\* whatever reaches it and in whatever order its handlers run.
THEOREM OneRequest == Spec => []OneRequestEach
<1>1. CASE ~UsedOnce
  <2>1. OneRequestEach
    BY <1>1 DEF OneRequestEach
  <2> QED
    BY <2>1, PTL
<1>2. CASE UsedOnce
  <2>1. Init => Once
    BY <1>2, InitOnce
  <2>2. TypeOK /\ Once => OneRequestEach
    <3> SUFFICES ASSUME TypeOK, Once, NEW c \in Clients PROVE count[c] <= 1
      BY DEF OneRequestEach, Once, ToServer
    <3> DEFINE n == count[c]  t == Len(tx[c])
    <3>1. n \in Nat /\ t \in Nat
      BY Lengths DEF TypeOK
    <3>2. n + t <= 1
      BY DEF Once, OneSend
    <3> HIDE DEF n, t
    <3>3. n <= 1
      BY <3>1, <3>2
    <3> QED
      BY <3>3 DEF n
  <2> QED
    BY <2>1, <2>2, NextOnce, TypeCorrect, PTL DEF Spec
<1> QED
  BY <1>1, <1>2

-----------------------------------------------------------------------------
(* The clients and the servers together.                                   *)

\* What is proved of one server process and its clients, of these servers.
SrvP == INSTANCE UdpEchoServerProofs WITH
          Servers <- Others, Bodies <- Texts \cup {Garbage},
          Lengths <- {MessageOf(t).len : t \in Texts}, MaxSends <- 1,
          issued <- count, rx <- srx, recvd <- srecvd, tx <- stx,
          sent <- ssent, data <- sdata, endpoint <- sendpoint,
          wiping <- swiping, unreachable <- sunreachable

-----------------------------------------------------------------------------
(* The invariant: where the exchange of each client is.                    *)

MessageFor(c) == MessageOf(TextOf(c))

\* Every message is one a server answers: neither empty nor longer than its
\* buffer.
Fits == \A t \in Texts : MessageOf(t).len \in 1..MaxLength

\* Otherwise no exchange is lost.
MayFail == Lossy \/ ~Fits

Asks(c)    == {d \in net : d.src = c}
Holds(c)   == {d \in SrvP!Held : d.src = c}
Answers(c) == {d \in net : d.dst = c}
Results(c) == {i \in DOMAIN recvd[c] : ~recvd[c][i].error}

Stages == {"called", "sending", "asking", "held", "answered", "taken", "shown",
           "nowhere"}

\* The exchange of c is at stage k and at no other.
At(c, k) ==
  /\ k = "called"   <=> Pending(c)
  /\ k = "sending"  <=> tx[c] # <<>>
  /\ k = "asking"   <=> Asks(c) # {}
  /\ k = "held"     <=> Holds(c) # {}
  /\ k = "answered" <=> Answers(c) # {}
  /\ k = "taken"    <=> Results(c) # {}
  /\ k = "shown"    <=> shown[c] # <<>>
  /\ k = "nowhere"  => MayFail \/ CallOf(c) = {}

\* No server has the request of c to answer, or will have.
Past(c) == ~Pending(c) /\ tx[c] = <<>> /\ Asks(c) = {} /\ Holds(c) = {}

AtMostOne(S) == \A d, e \in S : d = e

\* One operation of a client is in progress, completed or shown.
OneActivity(c) ==
  rx[c] + Len(recvd[c]) + Len(shown[c]) + Len(sent[c]) + Len(tx[c]) <= 1

\* When nothing is lost, nothing fails.
NothingFails(c) ==
  /\ open[c] /\ ~refused[c]
  /\ \A i \in DOMAIN sent[c] : sent[c][i]
  /\ \A i \in DOMAIN recvd[c] : ~recvd[c][i].error

Exchange(c) ==
  /\ \E k \in Stages : At(c, k)
  /\ AtMostOne(Asks(c)) /\ AtMostOne(Holds(c)) /\ AtMostOne(Answers(c))
  /\ OneActivity(c)
  /\ \A i \in DOMAIN tx[c] : tx[c][i].msg = MessageFor(c)
  /\ MayFail \/ NothingFails(c)

\* The text of a call, and the message posted for it, are the client's own.
OwnCalls ==
  /\ \A i \in DOMAIN script : script[i].text = TextOf(script[i].client)
  /\ \A i \in DOMAIN posted : posted[i].msg = MessageFor(posted[i].client)

IsRequest(d) ==
  /\ d.src \in Clients /\ d.dst \in Others
  /\ TextOf(d.src) \in Texts /\ d.len = MessageFor(d.src).len

IsAnswer(d) ==
  /\ d.src \in Others /\ d.dst \in Clients
  /\ TextOf(d.dst) \in Texts /\ d.len = AtMost(MessageFor(d.dst).len, MaxLength)

Shapes ==
  /\ \A d \in net : IsRequest(d) \/ IsAnswer(d)
  /\ \A d \in SrvP!Held : IsRequest(d)

\* When nothing is lost, a server only receives what it answers.
ServerSound(s) ==
  /\ ~sunreachable[s]
  /\ \A i \in DOMAIN srecvd[s] : ~srecvd[s][i].error /\ srecvd[s][i].bytes > 0

Flow ==
  /\ OwnCalls
  /\ Shapes
  /\ \A c \in Clients : Exchange(c)
  /\ MayFail \/ \A s \in Others : ServerSound(s)

Inv == Covered /\ Once /\ SrvP!IInv /\ Flow

-----------------------------------------------------------------------------
(* The servers of the system are those of UdpEchoServerProofs.             *)

LEMMA ServersAssumed == SrvP!ServerAssumption
<1>1. \A t \in Texts : MessageOf(t).len \in Nat
  BY MessageType DEF Message
<1> QED
  BY <1>1, ClientAssumption, EchoAssumption
     DEF EchoAssumption, SrvP!ServerAssumption, SrvP!Request, Srv!Request

LEMMA SameHeld == Srv!Held = SrvP!Held
  BY DEF Srv!Held, SrvP!Held, Srv!HeldBy, SrvP!HeldBy

LEMMA SameActions ==
  ASSUME NEW s \in Others
  PROVE  /\ Srv!HandleReceiveFrom(s) => SrvP!HandleReceiveFrom(s)
         /\ Srv!HandleSendTo(s) => SrvP!HandleSendTo(s)
         /\ Srv!ClearBuffer(s) => SrvP!ClearBuffer(s)
         /\ Srv!KernelReceive(s) => SrvP!KernelReceive(s)
         /\ Srv!KernelReceiveError(s) => SrvP!KernelReceiveError(s)
         /\ Srv!SendLeaves(s) => SrvP!SendLeaves(s)
         /\ Srv!SendFails(s) => SrvP!SendFails(s)
<1>1. Srv!HandleReceiveFrom(s) => SrvP!HandleReceiveFrom(s)
  BY DEF Srv!HandleReceiveFrom, SrvP!HandleReceiveFrom, Srv!AsyncSendTo,
     SrvP!AsyncSendTo, Srv!AsyncReceiveFrom, SrvP!AsyncReceiveFrom, Srv!netVars,
     SrvP!netVars
<1>2. Srv!HandleSendTo(s) => SrvP!HandleSendTo(s)
  BY DEF Srv!HandleSendTo, SrvP!HandleSendTo, Srv!AsyncReceiveFrom,
     SrvP!AsyncReceiveFrom, Srv!netVars, SrvP!netVars
<1>3. Srv!ClearBuffer(s) => SrvP!ClearBuffer(s)
  BY DEF Srv!ClearBuffer, SrvP!ClearBuffer, Srv!netVars, SrvP!netVars
<1>4. Srv!KernelReceive(s) => SrvP!KernelReceive(s)
  BY DEF Srv!KernelReceive, SrvP!KernelReceive, Srv!Fit, SrvP!Fit
<1>5. Srv!KernelReceiveError(s) => SrvP!KernelReceiveError(s)
  BY DEF Srv!KernelReceiveError, SrvP!KernelReceiveError, Srv!netVars, SrvP!netVars
<1>6. Srv!SendLeaves(s) => SrvP!SendLeaves(s)
  BY DEF Srv!SendLeaves, SrvP!SendLeaves, Srv!Echo, SrvP!Echo
<1>7. Srv!SendFails(s) => SrvP!SendFails(s)
  BY DEF Srv!SendFails, SrvP!SendFails, Srv!netVars, SrvP!netVars
<1> QED
  BY <1>1, <1>2, <1>3, <1>4, <1>5, <1>6, <1>7

LEMMA ServerStepIs ==
  ASSUME NEW s \in Others, ServerStep(s)
  PROVE  /\ UNCHANGED clients
         /\ \/ SrvP!HandleReceiveFrom(s) \/ SrvP!HandleSendTo(s)
            \/ SrvP!ClearBuffer(s)
            \/ SrvP!KernelReceive(s) \/ SrvP!KernelReceiveError(s)
            \/ SrvP!SendLeaves(s)
            \/ Lossy /\ SrvP!SendFails(s)
  BY SameActions DEF ServerStep, Srv!Handler

-----------------------------------------------------------------------------
(* What a step leaves alone.                                               *)

LEMMA HeldKept == ASSUME UNCHANGED servers PROVE SrvP!Held' = SrvP!Held
  BY DEF servers, SrvP!Held, SrvP!HeldBy

LEMMA NetGains ==
  ASSUME NEW d, net' = net \cup {d}, NEW c
  PROVE  /\ Asks(c)' = Asks(c) \cup (IF d.src = c THEN {d} ELSE {})
         /\ Answers(c)' = Answers(c) \cup (IF d.dst = c THEN {d} ELSE {})
  BY DEF Asks, Answers

LEMMA NetLoses ==
  ASSUME NEW d, net' = net \ {d}, NEW c
  PROVE  /\ Asks(c)' = Asks(c) \ {d}
         /\ Answers(c)' = Answers(c) \ {d}
         /\ d.src # c => Asks(c)' = Asks(c)
         /\ d.dst # c => Answers(c)' = Answers(c)
  BY DEF Asks, Answers

LEMMA NetKept ==
  ASSUME net' = net, NEW c PROVE Asks(c)' = Asks(c) /\ Answers(c)' = Answers(c)
  BY DEF Asks, Answers

LEMMA HeldKeeps ==
  ASSUME SrvP!Held' = SrvP!Held, NEW c PROVE Holds(c)' = Holds(c)
  BY DEF Holds

LEMMA HeldGains ==
  ASSUME NEW d, SrvP!Held' = SrvP!Held \cup {d}, NEW c
  PROVE  Holds(c)' = Holds(c) \cup (IF d.src = c THEN {d} ELSE {})
  BY DEF Holds

LEMMA HeldLoses ==
  ASSUME NEW d, SrvP!Held' = SrvP!Held \ {d}, NEW c
  PROVE  /\ Holds(c)' = Holds(c) \ {d}
         /\ d.src # c => Holds(c)' = Holds(c)
  BY DEF Holds

\* The only element of a set is removed.
LEMMA LastRemoved ==
  ASSUME NEW S, AtMostOne(S), NEW d \in S PROVE S \ {d} = {} /\ S # {}
  BY DEF AtMostOne

LEMMA FirstAdded ==
  ASSUME NEW S, S = {}, NEW d PROVE AtMostOne(S \cup {d}) /\ S \cup {d} # {}
  BY DEF AtMostOne

\* A step that does not concern client b.
Elsewhere(b) ==
  /\ Pending(b)' <=> Pending(b)
  /\ tx'[b] = tx[b] /\ sent'[b] = sent[b] /\ rx'[b] = rx[b]
  /\ recvd'[b] = recvd[b] /\ shown'[b] = shown[b]
  /\ open'[b] = open[b] /\ refused'[b] = refused[b]
  /\ Asks(b)' = Asks(b) /\ Holds(b)' = Holds(b) /\ Answers(b)' = Answers(b)

LEMMA KeepsAt ==
  ASSUME NEW c, NEW k, At(c, k), Elsewhere(c) PROVE At(c, k)'
<1>1. Results(c)' = Results(c)
  BY DEF Elsewhere, Results
<1> QED
  BY <1>1 DEF At, Elsewhere

LEMMA KeepsExchange ==
  ASSUME NEW c \in Clients, Exchange(c), Elsewhere(c) PROVE Exchange(c)'
<1>1. \E k \in Stages : At(c, k)'
  BY KeepsAt DEF Exchange
<1>2. OneActivity(c)'
  BY DEF Exchange, OneActivity, Elsewhere
<1>3. AtMostOne(Asks(c))' /\ AtMostOne(Holds(c))' /\ AtMostOne(Answers(c))'
  BY DEF Exchange, Elsewhere, AtMostOne
<1>4. \A i \in DOMAIN tx'[c] : tx'[c][i].msg = MessageFor(c)
  BY DEF Exchange, Elsewhere
<1>5. MayFail \/ NothingFails(c)'
  BY DEF Exchange, Elsewhere, NothingFails
<1> QED
  BY <1>1, <1>2, <1>3, <1>4, <1>5 DEF Exchange, MessageFor

\* A step keeps the flow, and never comes back to a server that is done.
FlowStep == Flow' /\ \A b \in Clients : Past(b) => Past(b)'

LEMMA KeepsPast ==
  ASSUME NEW b \in Clients, Elsewhere(b) PROVE Past(b) => Past(b)'
  BY DEF Elsewhere, Past

LEMMA OneClientFlow ==
  ASSUME Flow, NEW c \in Clients, OwnCalls', Shapes', Exchange(c)',
         Past(c) => Past(c)',
         MayFail \/ \A s \in Others : ServerSound(s)',
         \A b \in Clients \ {c} : Elsewhere(b)
  PROVE  FlowStep
<1>1. \A b \in Clients \ {c} : Exchange(b)'
  BY KeepsExchange DEF Flow
<1>2. Flow'
  BY <1>1 DEF Flow
<1>3. \A b \in Clients : Past(b) => Past(b)'
  BY KeepsPast
<1> QED
  BY <1>2, <1>3 DEF FlowStep

\* A step that concerns no client.
LEMMA NoClientFlow ==
  ASSUME Flow, OwnCalls', Shapes', \A b \in Clients : Elsewhere(b),
         MayFail \/ \A s \in Others : ServerSound(s)'
  PROVE  FlowStep
<1>1. Flow'
  BY KeepsExchange DEF Flow
<1>2. \A b \in Clients : Past(b) => Past(b)'
  BY KeepsPast
<1> QED
  BY <1>1, <1>2 DEF FlowStep

-----------------------------------------------------------------------------
(* One activity of a client excludes the others.                           *)

LEMMA OneOfFive ==
  \A r, a, b, d, e \in Nat : r + a + b + d + e <= 1 =>
    /\ r > 0 => r = 1 /\ a = 0 /\ b = 0 /\ d = 0 /\ e = 0
    /\ a # 0 => a = 1 /\ r = 0 /\ b = 0 /\ d = 0 /\ e = 0
    /\ b # 0 => b = 1 /\ r = 0 /\ a = 0 /\ d = 0 /\ e = 0
    /\ d # 0 => d = 1 /\ r = 0 /\ a = 0 /\ b = 0 /\ e = 0
    /\ e # 0 => e = 1 /\ r = 0 /\ a = 0 /\ b = 0 /\ d = 0
  OBVIOUS

LEMMA EmptyOrNot ==
  ASSUME NEW S, NEW q \in Seq(S)
  PROVE  /\ Len(q) \in Nat /\ (Len(q) = 0 <=> q = <<>>)
         /\ Len(q) = 1 => /\ q = <<Head(q)>> /\ Head(q) = q[1] /\ Head(q) \in S
                         /\ Tail(q) = <<>> /\ DOMAIN q = {1}
<1>1. /\ Len(q) \in Nat /\ (Len(q) = 0 <=> q = <<>>)
      /\ Len(q) = 1 => /\ q = <<Head(q)>> /\ Head(q) = q[1]
                       /\ Head(q) \in S /\ Tail(q) = <<>>
  BY SrvP!Singleton, ServersAssumed
<1>2. Len(q) = 1 => DOMAIN q = {1}
  BY LenProperties
<1> QED
  BY <1>1, <1>2

Shown == [text: Contents, bytes: Nat]

LEMMA Activity ==
  ASSUME TypeOK, NEW c \in Clients, OneActivity(c)
  PROVE  /\ rx[c] > 0 => /\ rx[c] = 1 /\ recvd[c] = <<>> /\ shown[c] = <<>>
                        /\ sent[c] = <<>> /\ tx[c] = <<>>
         /\ recvd[c] # <<>> => /\ rx[c] = 0 /\ shown[c] = <<>>
                              /\ sent[c] = <<>> /\ tx[c] = <<>>
                              /\ recvd[c] = <<Head(recvd[c])>>
                              /\ Head(recvd[c]) = recvd[c][1]
                              /\ Head(recvd[c]) \in Completion
                              /\ Tail(recvd[c]) = <<>> /\ DOMAIN recvd[c] = {1}
         /\ shown[c] # <<>> => /\ rx[c] = 0 /\ recvd[c] = <<>>
                              /\ sent[c] = <<>> /\ tx[c] = <<>>
                              /\ Len(shown[c]) = 1
         /\ sent[c] # <<>> => /\ rx[c] = 0 /\ recvd[c] = <<>>
                             /\ shown[c] = <<>> /\ tx[c] = <<>>
                             /\ Head(sent[c]) = sent[c][1]
                             /\ Tail(sent[c]) = <<>> /\ DOMAIN sent[c] = {1}
         /\ tx[c] # <<>> => /\ rx[c] = 0 /\ recvd[c] = <<>>
                           /\ shown[c] = <<>> /\ sent[c] = <<>>
                           /\ Head(tx[c]) = tx[c][1] /\ Head(tx[c]) \in SendOp
                           /\ Tail(tx[c]) = <<>> /\ DOMAIN tx[c] = {1}
<1>1. /\ rx[c] \in Nat /\ recvd[c] \in Seq(Completion) /\ shown[c] \in Seq(Shown)
      /\ sent[c] \in Seq(BOOLEAN) /\ tx[c] \in Seq(SendOp)
  BY DEF TypeOK, Shown
<1> DEFINE r == rx[c]  a == Len(recvd[c])  b == Len(shown[c])  d == Len(sent[c])
           e == Len(tx[c])
<1>2. /\ r \in Nat /\ a \in Nat /\ b \in Nat /\ d \in Nat /\ e \in Nat
      /\ r + a + b + d + e <= 1
  BY <1>1, EmptyOrNot DEF OneActivity
<1>3. /\ a = 0 <=> recvd[c] = <<>>
      /\ b = 0 <=> shown[c] = <<>>
      /\ d = 0 <=> sent[c] = <<>>
      /\ e = 0 <=> tx[c] = <<>>
  BY <1>1, EmptyOrNot
<1>4. /\ a = 1 => /\ recvd[c] = <<Head(recvd[c])>> /\ Head(recvd[c]) = recvd[c][1]
                  /\ Head(recvd[c]) \in Completion
                  /\ Tail(recvd[c]) = <<>> /\ DOMAIN recvd[c] = {1}
      /\ d = 1 => /\ Head(sent[c]) = sent[c][1]
                  /\ Tail(sent[c]) = <<>> /\ DOMAIN sent[c] = {1}
      /\ e = 1 => /\ Head(tx[c]) = tx[c][1] /\ Head(tx[c]) \in SendOp
                  /\ Tail(tx[c]) = <<>> /\ DOMAIN tx[c] = {1}
  BY <1>1, EmptyOrNot
<1>5. Len(shown[c]) = b /\ rx[c] = r
  OBVIOUS
<1> HIDE DEF r, a, b, d, e
<1> QED
  BY <1>2, <1>3, <1>4, <1>5, OneOfFive

\* At most one activity, counted.
LEMMA Counted ==
  ASSUME NEW c, NEW r \in Nat, NEW a \in Nat, NEW b \in Nat, NEW d \in Nat,
         NEW e \in Nat, r + a + b + d + e <= 1,
         rx'[c] = r, Len(recvd'[c]) = a, Len(shown'[c]) = b, Len(sent'[c]) = d,
         Len(tx'[c]) = e
  PROVE  OneActivity(c)'
  BY DEF OneActivity

LEMMA ShortSeqs == /\ Len(<<>>) = 0 /\ DOMAIN <<>> = {}
                   /\ \A x : /\ Len(<<x>>) = 1 /\ DOMAIN <<x>> = {1} /\ <<x>>[1] = x
                             /\ <<x>> # <<>> /\ Append(<<>>, x) = <<x>>
  BY EmptySeq

-----------------------------------------------------------------------------
(* The calls of main.                                                      *)

Elements(q) == {q[i] : i \in DOMAIN q}

LEMMA ElementsOf ==
  ASSUME NEW S, NEW q \in Seq(S)
  PROVE  /\ \A e \in S : Elements(Append(q, e)) = Elements(q) \cup {e}
         /\ q # <<>> => Elements(q) = Elements(Tail(q)) \cup {Head(q)}
<1> DEFINE n == Len(q)
<1>1. n \in Nat /\ DOMAIN q = 1..n
  BY LenProperties
<1>2. ASSUME NEW e \in S PROVE Elements(Append(q, e)) = Elements(q) \cup {e}
  <2>1. /\ Append(q, e) \in Seq(S) /\ Len(Append(q, e)) = n + 1
        /\ \A i \in 1..n : Append(q, e)[i] = q[i]
        /\ Append(q, e)[n + 1] = e
    BY AppendProperties
  <2>2. DOMAIN Append(q, e) = 1..(n + 1)
    BY <2>1, LenProperties
  <2>3. 1..(n + 1) = 1..n \cup {n + 1}
    BY <1>1
  <2> HIDE DEF n
  <2>4. Elements(q) \cup {e} \subseteq Elements(Append(q, e))
    <3>1. \A i \in 1..n : i \in 1..(n + 1)
      BY <2>3
    <3>2. n + 1 \in 1..(n + 1)
      BY <2>3
    <3> QED
      BY <1>1, <2>1, <2>2, <3>1, <3>2 DEF Elements
  <2>5. Elements(Append(q, e)) \subseteq Elements(q) \cup {e}
    BY <1>1, <2>1, <2>2, <2>3 DEF Elements
  <2> QED
    BY <2>4, <2>5
<1>3. ASSUME q # <<>> PROVE Elements(q) = Elements(Tail(q)) \cup {Head(q)}
  <2>1. /\ Head(q) = q[1] /\ Tail(q) \in Seq(S) /\ Len(Tail(q)) = n - 1
        /\ \A i \in 1..(n - 1) : Tail(q)[i] = q[i + 1]
        /\ n # 0
    BY <1>3, HeadTailProperties, EmptySeq
  <2>2. DOMAIN Tail(q) = 1..(n - 1)
    BY <2>1, LenProperties
  <2> HIDE DEF n
  <2>3. \A i \in 1..n : i = 1 \/ (i - 1 \in 1..(n - 1) /\ i = (i - 1) + 1)
    BY <1>1
  <2>4. \A i \in 1..(n - 1) : i + 1 \in 1..n
    BY <1>1
  <2>5. 1 \in 1..n
    BY <1>1, <2>1
  <2>6. Elements(q) \subseteq Elements(Tail(q)) \cup {Head(q)}
    <3> SUFFICES ASSUME NEW i \in 1..n
                 PROVE  q[i] \in Elements(Tail(q)) \cup {Head(q)}
      BY <1>1 DEF Elements
    <3>1. CASE i = 1
      BY <2>1, <3>1
    <3>2. CASE i # 1
      <4>1. i - 1 \in 1..(n - 1) /\ (i - 1) + 1 = i
        BY <2>3, <3>2
      <4>2. Tail(q)[i - 1] = q[i]
        BY <2>1, <4>1
      <4> QED
        BY <2>2, <4>1, <4>2 DEF Elements
    <3> QED
      BY <3>1, <3>2
  <2>7. Elements(Tail(q)) \cup {Head(q)} \subseteq Elements(q)
    BY <1>1, <2>1, <2>2, <2>4, <2>5 DEF Elements
  <2> QED
    BY <2>6, <2>7
<1> QED
  BY <1>2, <1>3

LEMMA PendingElements ==
  \A c : Pending(c) <=> \/ \E e \in Elements(script) : e.client = c
                        \/ \E e \in Elements(posted) : e.client = c
  BY DEF Pending, Elements

LEMMA OwnCallsElements ==
  OwnCalls <=> /\ \A e \in Elements(script) : e.text = TextOf(e.client)
               /\ \A e \in Elements(posted) : e.msg = MessageFor(e.client)
  BY DEF OwnCalls, Elements

LEMMA SendMessageFlow ==
  ASSUME Covered, Flow, SendMessage, UNCHANGED servers PROVE FlowStep
<1> DEFINE h == Head(script)
           p == [client |-> h.client, msg |-> MessageOf(h.text)]
<1>1. /\ script # <<>> /\ script' = Tail(script) /\ posted' = Append(posted, p)
      /\ UNCHANGED <<fault, sending, receiving, socket, network>>
  BY DEF SendMessage
<1>2. /\ script \in Seq(Call) /\ posted \in Seq([client: Clients, msg: Message])
      /\ h \in Call /\ p \in [client: Clients, msg: Message]
  <2>1. /\ script \in Seq(Call) /\ posted \in Seq([client: Clients, msg: Message])
        /\ h \in Call
    BY <1>1, TailSeq DEF Covered, TypeOK
  <2> QED
    BY <2>1, MessageType DEF Call
<1>3. p.client = h.client /\ p.msg = MessageOf(h.text)
  OBVIOUS
<1> HIDE DEF p
<1>4. /\ Elements(script) = Elements(script') \cup {h}
      /\ Elements(posted') = Elements(posted) \cup {p}
  <2>1. Elements(script) = Elements(Tail(script)) \cup {h}
    BY <1>1, <1>2, ElementsOf
  <2>2. Elements(Append(posted, p)) = Elements(posted) \cup {p}
    <3> DEFINE P == [client: Clients, msg: Message]
    <3>1. posted \in Seq(P) /\ p \in P
      BY <1>2
    <3> HIDE DEF P
    <3> QED
      BY <3>1, ElementsOf
  <2> QED
    BY <1>1, <2>1, <2>2
<1> HIDE DEF h
<1>5. OwnCalls'
  <2>1. /\ \A e \in Elements(script') : e.text = TextOf(e.client)
        /\ \A e \in Elements(posted') : e.msg = MessageFor(e.client)
    BY <1>3, <1>4, OwnCallsElements DEF Flow, MessageFor
  <2>2. OwnCalls' <=> /\ \A e \in Elements(script') : e.text = TextOf(e.client)
                      /\ \A e \in Elements(posted') : e.msg = MessageFor(e.client)
    BY DEF OwnCalls, Elements, MessageFor
  <2> QED
    BY <2>1, <2>2
<1>6. ASSUME NEW c \in Clients PROVE Elsewhere(c)
  <2>1. Pending(c)' <=> \/ \E e \in Elements(script') : e.client = c
                        \/ \E e \in Elements(posted') : e.client = c
    BY DEF Pending, Elements
  <2>2. Pending(c)' <=> Pending(c)
    BY <1>3, <1>4, <2>1, PendingElements
  <2>3. Asks(c)' = Asks(c) /\ Answers(c)' = Answers(c) /\ Holds(c)' = Holds(c)
    BY <1>1, NetKept, HeldKept, HeldKeeps DEF network
  <2> QED
    BY <1>1, <2>2, <2>3 DEF Elsewhere, sending, receiving, socket
<1>7. Shapes' /\ (MayFail \/ \A s \in Others : ServerSound(s)')
  <2>1. net' = net /\ SrvP!Held' = SrvP!Held
    BY <1>1, HeldKept DEF network
  <2> QED
    BY <2>1 DEF Flow, Shapes, IsRequest, IsAnswer, MessageFor, ServerSound, servers
<1> QED
  BY <1>5, <1>6, <1>7, NoClientFlow

\* The do_write of a client is posted once: its exchange leaves main's calls.
LEMMA DoWriteFlow ==
  ASSUME Covered, Once, Once', Flow, DoWrite, UNCHANGED servers PROVE FlowStep
<1> DEFINE h == Head(posted)
<1>1. /\ posted # <<>> /\ posted' = Tail(posted)
      /\ queue' = [queue EXCEPT ![h.client] = Append(@, h.msg)]
      /\ UNCHANGED <<script, fault, count, receiving, socket, network>>
  BY DEF DoWrite
<1>2. /\ posted \in Seq([client: Clients, msg: Message])
      /\ h \in [client: Clients, msg: Message]
  <2>1. posted \in Seq([client: Clients, msg: Message])
    BY DEF Covered, TypeOK
  <2> QED
    BY <1>1, <2>1, TailSeq
<1>3. PICK c \in Clients, m \in Message : c = h.client /\ m = h.msg
  BY <1>2
<1>4. PICK copied \in CopiesEarly :
        AsyncSendTo(c, tx[c], sent[c],
          [msg |-> m, to |-> endpoint[c],
           bytes |-> IF copied THEN "copied" ELSE "freed"])
  BY <1>3 DEF DoWrite
<1> DEFINE op == [msg |-> m, to |-> endpoint[c],
                  bytes |-> IF copied THEN "copied" ELSE "freed"]
<1>5. op.msg = m /\ AsyncSendTo(c, tx[c], sent[c], op)
  BY <1>4
<1> HIDE DEF op
<1>6. Elements(posted) = Elements(posted') \cup {h}
  <2> DEFINE P == [client: Clients, msg: Message]
  <2>1. posted \in Seq(P)
    BY <1>2
  <2> HIDE DEF P
  <2> QED
    BY <1>1, <2>1, ElementsOf
<1> HIDE DEF h
<1>7. Pending(c) /\ Untouched(c)
  <2>1. Pending(c)
    BY <1>3, <1>6, PendingElements
  <2> QED
    BY <2>1 DEF Once
<1>8. ~Pending(c)' /\ \A b \in Clients \ {c} : Pending(b)' <=> Pending(b)
  <2>1. \A b : Pending(b)' <=> \/ \E e \in Elements(script') : e.client = b
                               \/ \E e \in Elements(posted') : e.client = b
    BY DEF Pending, Elements
  <2>2. \A b \in Clients \ {c} : Pending(b)' <=> Pending(b)
    BY <1>1, <1>3, <1>6, <2>1, PendingElements
  <2>3. queue'[c] = Append(queue[c], m) /\ queue[c] \in Seq(Message)
    BY <1>1, <1>3 DEF Covered, TypeOK
  <2>4. Append(queue[c], m) # <<>>
    <3>1. Len(Append(queue[c], m)) = Len(queue[c]) + 1 /\ Len(queue[c]) \in Nat
      BY <2>3, AppendSeq
    <3>2. Len(Append(queue[c], m)) # 0
      BY <3>1
    <3> QED
      BY <3>2, ShortSeqs
  <2>5. ~Pending(c)'
    BY <2>3, <2>4 DEF Once, Untouched
  <2> QED
    BY <2>2, <2>5
<1>9. m = MessageFor(c) /\ OwnCalls'
  <2>1. OwnCalls' <=> /\ \A e \in Elements(script') : e.text = TextOf(e.client)
                      /\ \A e \in Elements(posted') : e.msg = MessageFor(e.client)
    BY DEF OwnCalls, Elements, MessageFor
  <2> QED
    BY <1>1, <1>3, <1>6, <2>1, OwnCallsElements DEF Flow
<1>10. /\ tx[c] = <<>> /\ sent[c] = <<>> /\ recvd[c] = <<>> /\ rx[c] = 0
       /\ shown[c] = <<>> /\ At(c, "called")
  BY <1>7 DEF Untouched, Flow, Exchange, At
<1>11. /\ IF open[c] THEN tx'[c] = <<op>> /\ sent'[c] = <<>>
                     ELSE tx'[c] = <<>> /\ sent'[c] = <<FALSE>>
       /\ \A b \in Clients \ {c} : tx'[b] = tx[b] /\ sent'[b] = sent[b]
       /\ UNCHANGED <<rx, recvd, shown, open, refused, net>>
  <2>1. /\ open[c] => /\ tx' = [tx EXCEPT ![c] = <<op>>]
                      /\ sent' = [sent EXCEPT ![c] = <<>>]
        /\ ~open[c] => /\ tx' = [tx EXCEPT ![c] = <<>>]
                       /\ sent' = [sent EXCEPT ![c] = <<FALSE>>]
    BY <1>5, <1>10, ShortSeqs DEF AsyncSendTo
  <2>2. tx \in [Clients -> Seq(SendOp)] /\ sent \in [Clients -> Seq(BOOLEAN)]
    BY DEF Covered, TypeOK
  <2> QED
    BY <1>1, <2>1, <2>2 DEF receiving, socket, network
<1>12. /\ \A b : Asks(b)' = Asks(b) /\ Answers(b)' = Answers(b) /\ Holds(b)' = Holds(b)
       /\ Results(c)' = {} /\ Results(c) = {}
  BY <1>10, <1>11, NetKept, HeldKept, HeldKeeps, ShortSeqs DEF Results
<1>13. Exchange(c)'
  <2>1. Len(recvd'[c]) = 0 /\ Len(shown'[c]) = 0 /\ rx'[c] = 0
    BY <1>10, <1>11, ShortSeqs
  <2>2. OneActivity(c)'
    <3>1. CASE open[c]
      <4>1. Len(tx'[c]) = 1 /\ Len(sent'[c]) = 0
        BY <1>11, <3>1, ShortSeqs
      <4> QED
        BY <2>1, <4>1 DEF OneActivity
    <3>2. CASE ~open[c]
      <4>1. Len(tx'[c]) = 0 /\ Len(sent'[c]) = 1
        BY <1>11, <3>2, ShortSeqs
      <4> QED
        BY <2>1, <4>1 DEF OneActivity
    <3> QED
      BY <3>1, <3>2
  <2>3. open[c] => At(c, "sending")'
    BY <1>8, <1>10, <1>11, <1>12, ShortSeqs DEF At
  <2>4. ~open[c] => MayFail /\ At(c, "nowhere")'
    BY <1>8, <1>10, <1>11, <1>12, ShortSeqs DEF At, Flow, Exchange, NothingFails
  <2>5. \E k \in Stages : At(c, k)'
    BY <2>3, <2>4 DEF Stages
  <2>6. \A i \in DOMAIN tx'[c] : tx'[c][i].msg = MessageFor(c)
    <3>1. open[c] => DOMAIN tx'[c] = {1} /\ tx'[c][1] = op
      BY <1>11, ShortSeqs
    <3>2. ~open[c] => DOMAIN tx'[c] = {}
      BY <1>11, ShortSeqs
    <3> QED
      BY <1>5, <1>9, <3>1, <3>2
  <2>7. MayFail \/ NothingFails(c)'
    BY <1>10, <1>11, ShortSeqs DEF Flow, Exchange, NothingFails
  <2>8. AtMostOne(Asks(c))' /\ AtMostOne(Holds(c))' /\ AtMostOne(Answers(c))'
    BY <1>12 DEF Flow, Exchange, AtMostOne
  <2> QED
    BY <2>2, <2>5, <2>6, <2>7, <2>8 DEF Exchange, MessageFor
<1>14. \A b \in Clients \ {c} : Elsewhere(b)
  BY <1>8, <1>11, <1>12 DEF Elsewhere
<1>15. Shapes' /\ (MayFail \/ \A s \in Others : ServerSound(s)')
  <2>1. net' = net /\ SrvP!Held' = SrvP!Held
    BY <1>11, HeldKept
  <2> QED
    BY <2>1 DEF Flow, Shapes, IsRequest, IsAnswer, MessageFor, ServerSound, servers
<1>16. Past(c) => Past(c)'
  BY <1>7 DEF Past
<1> QED
  BY <1>9, <1>13, <1>14, <1>15, <1>16, OneClientFlow

-----------------------------------------------------------------------------
(* The steps of one client and its kernel, once its call has been made.    *)

LEMMA ClientFlow ==
  ASSUME Flow, NEW c \in Clients, UNCHANGED <<servers, script, posted>>,
         \A d \in net' : d \in net \/ IsRequest(d),
         Exchange(c)', Past(c) => Past(c)',
         \A b \in Clients \ {c} :
           /\ tx'[b] = tx[b] /\ sent'[b] = sent[b] /\ rx'[b] = rx[b]
           /\ recvd'[b] = recvd[b] /\ shown'[b] = shown[b]
           /\ open'[b] = open[b] /\ refused'[b] = refused[b]
           /\ Asks(b)' = Asks(b) /\ Answers(b)' = Answers(b)
  PROVE  FlowStep
<1>1. SrvP!Held' = SrvP!Held
  BY HeldKept
<1>2. OwnCalls'
  BY DEF Flow, OwnCalls, MessageFor
<1>3. Shapes'
  BY <1>1 DEF Flow, Shapes, IsRequest, IsAnswer, MessageFor
<1>4. \A b \in Clients \ {c} : Elsewhere(b)
  BY <1>1, HeldKeeps DEF Elsewhere, Pending
<1>5. MayFail \/ \A s \in Others : ServerSound(s)'
  BY DEF Flow, ServerSound, servers
<1> QED
  BY <1>2, <1>3, <1>4, <1>5, OneClientFlow

\* A completed step of client c, at stage k afterwards.
LEMMA ClientExchange ==
  ASSUME NEW c \in Clients, NEW k \in Stages, At(c, k)',
         Exchange(c), UNCHANGED servers,
         AtMostOne(Asks(c))', AtMostOne(Answers(c))', OneActivity(c)',
         \A i \in DOMAIN tx'[c] : tx'[c][i].msg = MessageFor(c),
         MayFail \/ NothingFails(c)'
  PROVE  Exchange(c)'
<1>1. AtMostOne(Holds(c))'
  BY HeldKept, HeldKeeps DEF Exchange, AtMostOne
<1> QED
  BY <1>1 DEF Exchange, MessageFor

LEMMA SendLeavesFlow ==
  ASSUME Covered, Once, Flow, NEW c \in Clients, SendLeaves(c), UNCHANGED servers
  PROVE  FlowStep
<1> DEFINE op == Head(tx[c])
<1>1. /\ tx[c] # <<>>
      /\ tx' = [tx EXCEPT ![c] = Tail(@)]
      /\ sent' = [sent EXCEPT ![c] = Append(@, TRUE)]
      /\ UNCHANGED <<queue, control, receiving, socket, strays>>
  BY DEF SendLeaves
<1>2. /\ Exchange(c) /\ At(c, "sending")
  BY <1>1 DEF Flow, Exchange, At
<1>3. /\ rx[c] = 0 /\ recvd[c] = <<>> /\ shown[c] = <<>> /\ sent[c] = <<>>
      /\ op = tx[c][1] /\ op \in SendOp /\ Tail(tx[c]) = <<>> /\ DOMAIN tx[c] = {1}
  BY <1>1, <1>2, Activity DEF Covered, Exchange
<1>4. op.to = Server[c] /\ op.msg = MessageFor(c)
  BY <1>1, <1>2, <1>3, OneOnly DEF Covered, Once, Exchange
<1> HIDE DEF op
<1>5. PICK d : /\ net' = net \cup {d}
               /\ d.src = c /\ d.dst = Server[c] /\ d.len = MessageFor(c).len
  <2> DEFINE D(b) == [src |-> c, dst |-> op.to, id |-> count[c] + 1,
                      body |-> b, len |-> op.msg.len]
  <2>1. PICK b : net' = net \cup {D(b)}
    BY DEF SendLeaves, op
  <2>2. D(b).src = c /\ D(b).dst = Server[c] /\ D(b).len = MessageFor(c).len
    BY <1>4
  <2> HIDE DEF D
  <2> QED
    BY <2>1, <2>2
<1>6. IsRequest(d)
  <2>1. MessageFor(c).text \in Texts
    BY <1>3, <1>4 DEF SendOp, Message
  <2>2. TextOf(c) \in Texts
    BY <2>1 DEF MessageFor, MessageOf
  <2> QED
    BY <1>5, <2>2, ClientAssumption DEF IsRequest
<1>7. d.dst \notin Clients
  BY <1>5, ClientAssumption
<1>8. /\ Asks(c)' = {d} /\ Answers(c)' = {} /\ Holds(c)' = {}
      /\ \A b \in Clients \ {c} : Asks(b)' = Asks(b) /\ Answers(b)' = Answers(b)
  <2>1. Asks(c) = {} /\ Answers(c) = {} /\ Holds(c) = {}
    BY <1>2 DEF At
  <2>2. \A b : /\ Asks(b)' = Asks(b) \cup (IF d.src = b THEN {d} ELSE {})
               /\ Answers(b)' = Answers(b) \cup (IF d.dst = b THEN {d} ELSE {})
    BY <1>5, NetGains
  <2>3. Holds(c)' = Holds(c)
    BY HeldKept, HeldKeeps
  <2> QED
    BY <1>5, <1>7, <2>1, <2>2, <2>3
<1>9. /\ tx'[c] = <<>> /\ sent'[c] = <<TRUE>>
      /\ \A b \in Clients \ {c} : tx'[b] = tx[b] /\ sent'[b] = sent[b]
      /\ UNCHANGED <<script, posted, rx, recvd, shown, open, refused>>
  BY <1>1, <1>3, ShortSeqs DEF Covered, TypeOK, control, receiving, socket
<1>10. Exchange(c)'
  <2>1. /\ Len(tx'[c]) = 0 /\ Len(sent'[c]) = 1 /\ DOMAIN tx'[c] = {}
        /\ DOMAIN sent'[c] = {1} /\ sent'[c][1] = TRUE
        /\ Len(recvd'[c]) = 0 /\ Len(shown'[c]) = 0 /\ rx'[c] = 0
    BY <1>3, <1>9, ShortSeqs
  <2>2. OneActivity(c)'
    BY <2>1 DEF OneActivity
  <2>3. At(c, "asking")'
    BY <1>2, <1>8, <1>9 DEF At, Pending, Results
  <2>4. AtMostOne(Asks(c))' /\ AtMostOne(Answers(c))'
    BY <1>8 DEF AtMostOne
  <2>5. MayFail \/ NothingFails(c)'
    BY <1>2, <1>9, <2>1 DEF Exchange, NothingFails
  <2>6. "asking" \in Stages
    BY DEF Stages
  <2> QED
    BY <1>2, <2>1, <2>2, <2>3, <2>4, <2>5, <2>6, ClientExchange
<1>11. \A b \in Clients \ {c} :
         /\ tx'[b] = tx[b] /\ sent'[b] = sent[b] /\ rx'[b] = rx[b]
         /\ recvd'[b] = recvd[b] /\ shown'[b] = shown[b]
         /\ open'[b] = open[b] /\ refused'[b] = refused[b]
         /\ Asks(b)' = Asks(b) /\ Answers(b)' = Answers(b)
  BY <1>8, <1>9
<1>12. \A e \in net' : e \in net \/ IsRequest(e)
  BY <1>5, <1>6
<1>13. Past(c) => Past(c)'
  BY <1>1 DEF Past
<1> QED
  BY <1>9, <1>10, <1>11, <1>12, <1>13, ClientFlow

LEMMA SendFailsFlow ==
  ASSUME Covered, Once, Flow, NEW c \in Clients, SendFails(c), MayFail,
         UNCHANGED servers
  PROVE  FlowStep
<1>1. /\ tx[c] # <<>>
      /\ tx' = [tx EXCEPT ![c] = Tail(@)]
      /\ sent' = [sent EXCEPT ![c] = Append(@, FALSE)]
      /\ UNCHANGED <<queue, count, control, receiving, socket, network>>
  BY DEF SendFails
<1>2. /\ Exchange(c) /\ At(c, "sending")
  BY <1>1 DEF Flow, Exchange, At
<1>3. /\ rx[c] = 0 /\ recvd[c] = <<>> /\ shown[c] = <<>> /\ sent[c] = <<>>
      /\ Tail(tx[c]) = <<>>
  BY <1>1, <1>2, Activity DEF Covered, Exchange
<1>4. /\ tx'[c] = <<>> /\ sent'[c] = <<FALSE>>
      /\ \A b \in Clients \ {c} : tx'[b] = tx[b] /\ sent'[b] = sent[b]
      /\ UNCHANGED <<script, posted, rx, recvd, shown, open, refused, net>>
  BY <1>1, <1>3, ShortSeqs DEF Covered, TypeOK, control, receiving, socket, network
<1>5. \A b : Asks(b)' = Asks(b) /\ Answers(b)' = Answers(b) /\ Holds(b)' = Holds(b)
  BY <1>4, NetKept, HeldKept, HeldKeeps
<1>6. Exchange(c)'
  <2>1. /\ Len(tx'[c]) = 0 /\ Len(sent'[c]) = 1 /\ DOMAIN tx'[c] = {}
        /\ Len(recvd'[c]) = 0 /\ Len(shown'[c]) = 0 /\ rx'[c] = 0
    BY <1>3, <1>4, ShortSeqs
  <2>2. OneActivity(c)'
    BY <2>1 DEF OneActivity
  <2>3. At(c, "nowhere")'
    BY <1>2, <1>4, <1>5 DEF At, Pending, Results
  <2>4. AtMostOne(Asks(c))' /\ AtMostOne(Answers(c))'
    BY <1>2, <1>5 DEF Exchange, AtMostOne
  <2>5. "nowhere" \in Stages
    BY DEF Stages
  <2> QED
    BY <1>2, <2>1, <2>2, <2>3, <2>4, <2>5, ClientExchange
<1>7. \A b \in Clients \ {c} :
        /\ tx'[b] = tx[b] /\ sent'[b] = sent[b] /\ rx'[b] = rx[b]
        /\ recvd'[b] = recvd[b] /\ shown'[b] = shown[b]
        /\ open'[b] = open[b] /\ refused'[b] = refused[b]
        /\ Asks(b)' = Asks(b) /\ Answers(b)' = Answers(b)
  BY <1>4, <1>5
<1>8. Past(c) => Past(c)'
  BY <1>1 DEF Past
<1> QED
  BY <1>4, <1>6, <1>7, <1>8, ClientFlow

\* An answer fits in the buffer of its client.
LEMMA AnswerFits ==
  ASSUME NEW d, IsAnswer(d)
  PROVE  d.len \in Nat /\ d.len <= MaxMessage /\ d.len <= MaxLength
<1>1. TextLength[TextOf(d.dst)] \in Nat /\ HeaderLength \in Nat /\ MaxBody \in Nat
  BY ClientAssumption DEF IsAnswer
<1>2. /\ MessageFor(d.dst).len \in Nat /\ MessageFor(d.dst).len <= MaxMessage
      /\ MaxLength \in Nat
  BY <1>1, EchoAssumption DEF MessageFor, MessageOf, AtMost, MaxMessage
<1> DEFINE n == MessageFor(d.dst).len
<1>3. d.len = IF n > MaxLength THEN MaxLength ELSE n
  BY DEF IsAnswer, AtMost
<1>4. MaxMessage \in Nat
  BY <1>1 DEF MaxMessage
<1> HIDE DEF n
<1> QED
  BY <1>2, <1>3, <1>4 DEF n

LEMMA KernelReceiveErrorFlow ==
  ASSUME Covered, Once, Flow, NEW c \in Clients, KernelReceiveError(c),
         UNCHANGED servers
  PROVE  FlowStep
<1> DEFINE e == [error |-> TRUE, bytes |-> 0]
<1>1. /\ rx[c] > 0 /\ refused[c]
      /\ refused' = [refused EXCEPT ![c] = FALSE]
      /\ recvd' = [recvd EXCEPT ![c] = Append(@, e)]
      /\ rx' = [rx EXCEPT ![c] = @ - 1]
      /\ UNCHANGED <<control, sending, data, bodyLength, shown, endpoint, open,
                     network>>
  BY DEF KernelReceiveError
<1>2. e.error = TRUE
  OBVIOUS
<1> HIDE DEF e
<1>3. Exchange(c) /\ MayFail
  BY <1>1 DEF Flow, Exchange, NothingFails
<1>4. /\ rx[c] = 1 /\ recvd[c] = <<>> /\ shown[c] = <<>> /\ sent[c] = <<>>
      /\ tx[c] = <<>>
  BY <1>1, <1>3, Activity DEF Covered, Exchange
<1>5. /\ recvd'[c] = <<e>> /\ rx'[c] = 0
      /\ \A b \in Clients \ {c} : /\ recvd'[b] = recvd[b] /\ rx'[b] = rx[b]
                                 /\ refused'[b] = refused[b]
      /\ UNCHANGED <<script, posted, tx, sent, shown, open, net>>
  BY <1>1, <1>4, ShortSeqs DEF Covered, TypeOK, control, sending, network
<1>6. \A b : Asks(b)' = Asks(b) /\ Answers(b)' = Answers(b) /\ Holds(b)' = Holds(b)
  BY <1>5, NetKept, HeldKept, HeldKeeps
<1>7. Exchange(c)'
  <2>1. /\ Len(tx'[c]) = 0 /\ Len(sent'[c]) = 0 /\ DOMAIN tx'[c] = {}
        /\ Len(recvd'[c]) = 1 /\ DOMAIN recvd'[c] = {1} /\ recvd'[c][1] = e
        /\ Len(shown'[c]) = 0 /\ rx'[c] = 0 /\ DOMAIN recvd[c] = {}
    BY <1>4, <1>5, ShortSeqs
  <2>2. OneActivity(c)'
    BY <2>1 DEF OneActivity
  <2>3. Results(c)' = {} /\ Results(c) = {}
    BY <1>2, <2>1 DEF Results
  <2>4. PICK k \in Stages : At(c, k)
    BY <1>3 DEF Exchange
  <2>5. At(c, k)'
    BY <1>5, <1>6, <2>3, <2>4 DEF At, Pending
  <2>6. AtMostOne(Asks(c))' /\ AtMostOne(Answers(c))'
    BY <1>3, <1>6 DEF Exchange, AtMostOne
  <2> QED
    BY <1>3, <2>1, <2>2, <2>5, <2>6, ClientExchange
<1>8. \A b \in Clients \ {c} :
        /\ tx'[b] = tx[b] /\ sent'[b] = sent[b] /\ rx'[b] = rx[b]
        /\ recvd'[b] = recvd[b] /\ shown'[b] = shown[b]
        /\ open'[b] = open[b] /\ refused'[b] = refused[b]
        /\ Asks(b)' = Asks(b) /\ Answers(b)' = Answers(b)
  BY <1>5, <1>6
<1>9. Past(c) => Past(c)'
  BY <1>5, <1>6 DEF Past, Pending
<1> QED
  BY <1>5, <1>7, <1>8, <1>9, ClientFlow

\* An answer completes the receive of the client it is for.
LEMMA KernelReceiveFlow ==
  ASSUME Covered, Once, Flow, NEW c \in Clients, KernelReceive(c), UNCHANGED servers
  PROVE  FlowStep
<1>1. /\ rx[c] > 0
      /\ rx' = [rx EXCEPT ![c] = @ - 1]
      /\ UNCHANGED <<control, sending, bodyLength, shown, open, refused, strays>>
  BY DEF KernelReceive
<1>2. PICK d \in net :
        /\ d.dst = c
        /\ net' = net \ {d}
        /\ \E e \in IF d.len > MaxMessage THEN BOOLEAN ELSE {FALSE} :
             recvd' = [recvd EXCEPT ![c] = Append(@,
                         [error |-> e, bytes |-> AtMost(d.len, MaxMessage)])]
  BY DEF KernelReceive
<1>3. IsAnswer(d)
  BY <1>2, ClientAssumption DEF Flow, Shapes, IsRequest
<1>4. PICK h : /\ h.error = FALSE /\ recvd' = [recvd EXCEPT ![c] = Append(@, h)]
  <2>1. ~(d.len > MaxMessage)
    <3>1. d.len \in Nat /\ d.len <= MaxMessage /\ MaxMessage \in Nat
      BY <1>3, AnswerFits, ClientAssumption DEF MaxMessage
    <3> QED
      BY <3>1
  <2>2. recvd' = [recvd EXCEPT ![c] = Append(@,
                    [error |-> FALSE, bytes |-> AtMost(d.len, MaxMessage)])]
    BY <1>2, <2>1
  <2> QED
    BY <2>2
<1>5. Exchange(c) /\ At(c, "answered")
  BY <1>2 DEF Flow, Exchange, At, Answers
<1>6. /\ rx[c] = 1 /\ recvd[c] = <<>> /\ shown[c] = <<>> /\ sent[c] = <<>>
      /\ tx[c] = <<>>
  BY <1>1, <1>5, Activity DEF Covered, Exchange
<1>7. /\ recvd'[c] = <<h>> /\ rx'[c] = 0
      /\ \A b \in Clients \ {c} : recvd'[b] = recvd[b] /\ rx'[b] = rx[b]
      /\ UNCHANGED <<script, posted, tx, sent, shown, open, refused>>
  BY <1>1, <1>4, <1>6, ShortSeqs DEF Covered, TypeOK, control, sending
<1>8. /\ Answers(c)' = {} /\ Asks(c)' = Asks(c) /\ Holds(c)' = Holds(c)
      /\ \A b \in Clients \ {c} : Asks(b)' = Asks(b) /\ Answers(b)' = Answers(b)
  <2>1. \A b : /\ Answers(b)' = Answers(b) \ {d}
               /\ d.src # b => Asks(b)' = Asks(b)
               /\ d.dst # b => Answers(b)' = Answers(b)
    BY <1>2, NetLoses
  <2>2. \A b \in Clients : d.src # b
    BY <1>3, ClientAssumption DEF IsAnswer
  <2>3. d \in Answers(c) /\ AtMostOne(Answers(c))
    BY <1>2, <1>5 DEF Answers, Exchange
  <2>4. Answers(c) \ {d} = {}
    BY <2>3, LastRemoved
  <2>5. Holds(c)' = Holds(c)
    BY HeldKept, HeldKeeps
  <2> QED
    BY <1>2, <2>1, <2>2, <2>4, <2>5
<1>9. Exchange(c)'
  <2>1. /\ Len(tx'[c]) = 0 /\ Len(sent'[c]) = 0 /\ DOMAIN tx'[c] = {}
        /\ DOMAIN sent'[c] = {}
        /\ Len(recvd'[c]) = 1 /\ DOMAIN recvd'[c] = {1} /\ recvd'[c][1] = h
        /\ Len(shown'[c]) = 0 /\ rx'[c] = 0
    BY <1>6, <1>7, ShortSeqs
  <2>2. OneActivity(c)'
    BY <2>1 DEF OneActivity
  <2>3. Results(c)' = {1}
    BY <1>4, <2>1 DEF Results
  <2>4. At(c, "taken")'
    BY <1>5, <1>6, <1>7, <1>8, <2>3 DEF At, Pending
  <2>5. AtMostOne(Asks(c))' /\ AtMostOne(Answers(c))'
    BY <1>5, <1>8 DEF Exchange, AtMostOne
  <2>6. MayFail \/ NothingFails(c)'
    BY <1>4, <1>5, <1>7, <2>1 DEF Exchange, NothingFails
  <2>7. "taken" \in Stages
    BY DEF Stages
  <2> QED
    BY <1>5, <2>1, <2>2, <2>4, <2>5, <2>6, <2>7, ClientExchange
<1>10. \A b \in Clients \ {c} :
         /\ tx'[b] = tx[b] /\ sent'[b] = sent[b] /\ rx'[b] = rx[b]
         /\ recvd'[b] = recvd[b] /\ shown'[b] = shown[b]
         /\ open'[b] = open[b] /\ refused'[b] = refused[b]
         /\ Asks(b)' = Asks(b) /\ Answers(b)' = Answers(b)
  BY <1>7, <1>8
<1>11. \A e \in net' : e \in net
  BY <1>2
<1>12. Past(c) => Past(c)'
  BY <1>7, <1>8 DEF Past, Pending
<1> QED
  BY <1>7, <1>9, <1>10, <1>11, <1>12, ClientFlow

LEMMA SendSucceededFlow ==
  ASSUME Covered, Once, Flow, NEW c \in Clients, sent[c] # <<>>, SendSucceeded(c),
         UNCHANGED servers
  PROVE  FlowStep
<1> DEFINE e == [error |-> TRUE, bytes |-> 0]
<1>1. /\ queue[c] # <<>>
      /\ IF open[c]
         THEN rx' = [rx EXCEPT ![c] = @ + 1] /\ UNCHANGED recvd
         ELSE recvd' = [recvd EXCEPT ![c] = Append(@, e)] /\ UNCHANGED rx
      /\ UNCHANGED <<control, count, data, bodyLength, shown, socket, network>>
  BY DEF SendSucceeded, RecvMessage
<1>2. e.error = TRUE
  OBVIOUS
<1> HIDE DEF e
<1>3. Exchange(c) /\ (open[c] \/ MayFail)
  BY DEF Flow, Exchange, NothingFails
<1>4. /\ rx[c] = 0 /\ recvd[c] = <<>> /\ shown[c] = <<>> /\ tx[c] = <<>>
      /\ Tail(sent[c]) = <<>>
  BY <1>3, Activity DEF Covered, Exchange
<1>5. Tail(queue[c]) = <<>>
  <2>1. Len(queue[c]) = 1
    BY OneOnly DEF Once, Covered
  <2>2. queue[c] \in Seq(Message)
    BY DEF Covered, TypeOK
  <2> QED
    BY <2>1, <2>2, EmptyOrNot
<1>6. tx' = [tx EXCEPT ![c] = PopFrees(@)] /\ sent' = [sent EXCEPT ![c] = Tail(@)]
  BY <1>5 DEF SendSucceeded
<1>7. /\ tx'[c] = <<>> /\ sent'[c] = <<>>
      /\ \A b \in Clients \ {c} : /\ tx'[b] = tx[b] /\ sent'[b] = sent[b]
                                 /\ recvd'[b] = recvd[b] /\ rx'[b] = rx[b]
      /\ IF open[c] THEN rx'[c] = 1 /\ recvd'[c] = <<>>
                    ELSE rx'[c] = 0 /\ recvd'[c] = <<e>>
      /\ UNCHANGED <<script, posted, shown, open, refused, net>>
  <2>1. PopFrees(<<>>) = <<>>
    BY DEF PopFrees
  <2>2. /\ tx'[c] = <<>> /\ sent'[c] = <<>>
        /\ \A b \in Clients \ {c} : tx'[b] = tx[b] /\ sent'[b] = sent[b]
    BY <1>4, <1>6, <2>1 DEF Covered, TypeOK
  <2>3. /\ \A b \in Clients \ {c} : recvd'[b] = recvd[b] /\ rx'[b] = rx[b]
        /\ IF open[c] THEN rx'[c] = 1 /\ recvd'[c] = <<>>
                      ELSE rx'[c] = 0 /\ recvd'[c] = <<e>>
    <3>1. CASE open[c]
      BY <1>1, <1>4, <3>1 DEF Covered, TypeOK
    <3>2. CASE ~open[c]
      BY <1>1, <1>4, <3>2, ShortSeqs DEF Covered, TypeOK
    <3> QED
      BY <3>1, <3>2
  <2> QED
    BY <1>1, <2>2, <2>3 DEF control, socket, network
<1>8. \A b : Asks(b)' = Asks(b) /\ Answers(b)' = Answers(b) /\ Holds(b)' = Holds(b)
  BY <1>7, NetKept, HeldKept, HeldKeeps
<1>9. Exchange(c)'
  <2>1. /\ Len(tx'[c]) = 0 /\ Len(sent'[c]) = 0 /\ DOMAIN tx'[c] = {}
        /\ DOMAIN sent'[c] = {} /\ DOMAIN recvd[c] = {} /\ Len(shown'[c]) = 0
    BY <1>4, <1>7, ShortSeqs
  <2>2. /\ open[c] => rx'[c] = 1 /\ Len(recvd'[c]) = 0 /\ DOMAIN recvd'[c] = {}
        /\ ~open[c] => rx'[c] = 0 /\ Len(recvd'[c]) = 1 /\ DOMAIN recvd'[c] = {1}
                       /\ recvd'[c][1] = e
    BY <1>7, ShortSeqs
  <2>3. OneActivity(c)'
    <3>1. \/ rx'[c] = 1 /\ Len(recvd'[c]) = 0
          \/ rx'[c] = 0 /\ Len(recvd'[c]) = 1
      BY <2>2
    <3>2. CASE rx'[c] = 1 /\ Len(recvd'[c]) = 0
      BY <2>1, <3>2 DEF OneActivity
    <3>3. CASE rx'[c] = 0 /\ Len(recvd'[c]) = 1
      BY <2>1, <3>3 DEF OneActivity
    <3> QED
      BY <3>1, <3>2, <3>3
  <2>4. Results(c)' = {} /\ Results(c) = {}
    BY <1>2, <2>1, <2>2 DEF Results
  <2>5. PICK k \in Stages : At(c, k)
    BY <1>3 DEF Exchange
  <2>6. At(c, k)'
    BY <1>4, <1>7, <1>8, <2>4, <2>5 DEF At, Pending
  <2>7. AtMostOne(Asks(c))' /\ AtMostOne(Answers(c))'
    BY <1>3, <1>8 DEF Exchange, AtMostOne
  <2>8. MayFail \/ NothingFails(c)'
    BY <1>3, <1>7, <2>1, <2>2 DEF Exchange, NothingFails
  <2> QED
    BY <1>3, <2>1, <2>3, <2>6, <2>7, <2>8, ClientExchange
<1>10. \A b \in Clients \ {c} :
         /\ tx'[b] = tx[b] /\ sent'[b] = sent[b] /\ rx'[b] = rx[b]
         /\ recvd'[b] = recvd[b] /\ shown'[b] = shown[b]
         /\ open'[b] = open[b] /\ refused'[b] = refused[b]
         /\ Asks(b)' = Asks(b) /\ Answers(b)' = Answers(b)
  BY <1>7, <1>8
<1>11. Past(c) => Past(c)'
  BY <1>7, <1>8 DEF Past, Pending
<1> QED
  BY <1>7, <1>9, <1>10, <1>11, ClientFlow

\* A socket that is closed when nothing is in progress on it.
LEMMA ClosedFlow ==
  ASSUME Covered, Once, Flow, NEW c \in Clients, Close(c, <<>>, <<>>), MayFail,
         tx[c] = <<>>, rx[c] = 0, shown[c] = <<>>, Results(c) = {},
         UNCHANGED <<control, shown, network, servers>>
  PROVE  FlowStep
<1>1. Exchange(c)
  BY DEF Flow
<1>2. /\ tx'[c] = <<>> /\ rx'[c] = 0 /\ sent'[c] = <<>> /\ recvd'[c] = <<>>
      /\ \A b \in Clients \ {c} :
           /\ tx'[b] = tx[b] /\ sent'[b] = sent[b] /\ rx'[b] = rx[b]
           /\ recvd'[b] = recvd[b] /\ open'[b] = open[b] /\ refused'[b] = refused[b]
      /\ UNCHANGED <<script, posted, shown, net>>
  <2> DEFINE fs == [i \in 1..Len(tx[c]) |-> FALSE]
             es == [i \in 1..rx[c] |-> [error |-> TRUE, bytes |-> 0]]
  <2>1. fs = <<>> /\ es = <<>>
    BY ShortSeqs
  <2>2. <<>> \o <<>> = <<>>
    OBVIOUS
  <2>3. /\ open' = [open EXCEPT ![c] = FALSE] /\ refused' = [refused EXCEPT ![c] = FALSE]
        /\ tx' = [tx EXCEPT ![c] = <<>>] /\ rx' = [rx EXCEPT ![c] = 0]
        /\ sent' = [sent EXCEPT ![c] = <<>> \o fs]
        /\ recvd' = [recvd EXCEPT ![c] = <<>> \o es]
    BY DEF Close
  <2> HIDE DEF fs, es
  <2>4. sent' = [sent EXCEPT ![c] = <<>>] /\ recvd' = [recvd EXCEPT ![c] = <<>>]
    BY <2>1, <2>2, <2>3
  <2> QED
    BY <2>3, <2>4 DEF Covered, TypeOK, control, network
<1>3. \A b : Asks(b)' = Asks(b) /\ Answers(b)' = Answers(b) /\ Holds(b)' = Holds(b)
  BY <1>2, NetKept, HeldKept, HeldKeeps
<1>4. Exchange(c)'
  <2>1. /\ Len(tx'[c]) = 0 /\ Len(sent'[c]) = 0 /\ DOMAIN tx'[c] = {}
        /\ Len(recvd'[c]) = 0 /\ DOMAIN recvd'[c] = {} /\ Len(shown'[c]) = 0
    BY <1>2, ShortSeqs
  <2>2. OneActivity(c)'
    BY <1>2, <2>1 DEF OneActivity
  <2>3. Results(c)' = {}
    BY <2>1 DEF Results
  <2>4. PICK k \in Stages : At(c, k)
    BY <1>1 DEF Exchange
  <2>5. At(c, k)'
    BY <1>2, <1>3, <2>3, <2>4 DEF At, Pending
  <2>6. AtMostOne(Asks(c))' /\ AtMostOne(Answers(c))'
    BY <1>1, <1>3 DEF Exchange, AtMostOne
  <2> QED
    BY <1>1, <2>1, <2>2, <2>5, <2>6, ClientExchange
<1>5. \A b \in Clients \ {c} :
        /\ tx'[b] = tx[b] /\ sent'[b] = sent[b] /\ rx'[b] = rx[b]
        /\ recvd'[b] = recvd[b] /\ shown'[b] = shown[b]
        /\ open'[b] = open[b] /\ refused'[b] = refused[b]
        /\ Asks(b)' = Asks(b) /\ Answers(b)' = Answers(b)
  BY <1>2, <1>3
<1>6. Past(c) => Past(c)'
  BY <1>2, <1>3 DEF Past, Pending
<1> QED
  BY <1>2, <1>4, <1>5, <1>6, ClientFlow

LEMMA ReceiveSucceededFlow ==
  ASSUME Covered, Once, Flow, NEW c \in Clients, recvd[c] # <<>>,
         ~Head(recvd[c]).error, ReceiveSucceeded(c), UNCHANGED servers
  PROVE  FlowStep
<1>1. PICK m : /\ shown' = [shown EXCEPT ![c] = Append(@, m)]
               /\ recvd' = [recvd EXCEPT ![c] = Tail(@)]
               /\ UNCHANGED <<control, sending, rx, data, socket, network>>
  BY DEF ReceiveSucceeded
<1>2. Exchange(c)
  BY DEF Flow
<1>3. /\ rx[c] = 0 /\ shown[c] = <<>> /\ sent[c] = <<>> /\ tx[c] = <<>>
      /\ Tail(recvd[c]) = <<>> /\ DOMAIN recvd[c] = {1}
      /\ Head(recvd[c]) = recvd[c][1]
  BY <1>2, Activity DEF Covered, Exchange
<1>4. 1 \in Results(c)
  BY <1>3 DEF Results
<1>5. At(c, "taken")
  BY <1>2, <1>4 DEF Exchange, At
<1>6. /\ shown'[c] = <<m>> /\ recvd'[c] = <<>>
      /\ \A b \in Clients \ {c} : shown'[b] = shown[b] /\ recvd'[b] = recvd[b]
      /\ UNCHANGED <<script, posted, tx, sent, rx, open, refused, net>>
  BY <1>1, <1>3, ShortSeqs DEF Covered, TypeOK, control, sending, socket, network
<1>7. \A b : Asks(b)' = Asks(b) /\ Answers(b)' = Answers(b) /\ Holds(b)' = Holds(b)
  BY <1>6, NetKept, HeldKept, HeldKeeps
<1>8. Exchange(c)'
  <2>1. /\ Len(tx'[c]) = 0 /\ Len(sent'[c]) = 0 /\ DOMAIN tx'[c] = {}
        /\ DOMAIN sent'[c] = {} /\ Len(recvd'[c]) = 0 /\ DOMAIN recvd'[c] = {}
        /\ Len(shown'[c]) = 1 /\ shown'[c] # <<>> /\ rx'[c] = 0
    BY <1>3, <1>6, ShortSeqs
  <2>2. OneActivity(c)'
    BY <2>1 DEF OneActivity
  <2>3. Results(c)' = {}
    BY <2>1 DEF Results
  <2>4. At(c, "shown")'
    BY <1>5, <1>6, <1>7, <2>1, <2>3 DEF At, Pending
  <2>5. AtMostOne(Asks(c))' /\ AtMostOne(Answers(c))'
    BY <1>2, <1>7 DEF Exchange, AtMostOne
  <2>6. MayFail \/ NothingFails(c)'
    BY <1>2, <1>6, <2>1 DEF Exchange, NothingFails
  <2>7. "shown" \in Stages
    BY DEF Stages
  <2> QED
    BY <1>2, <2>1, <2>2, <2>4, <2>5, <2>6, <2>7, ClientExchange
<1>9. \A b \in Clients \ {c} :
        /\ tx'[b] = tx[b] /\ sent'[b] = sent[b] /\ rx'[b] = rx[b]
        /\ recvd'[b] = recvd[b] /\ shown'[b] = shown[b]
        /\ open'[b] = open[b] /\ refused'[b] = refused[b]
        /\ Asks(b)' = Asks(b) /\ Answers(b)' = Answers(b)
  BY <1>6, <1>7
<1>10. Past(c) => Past(c)'
  BY <1>6, <1>7 DEF Past, Pending
<1> QED
  BY <1>6, <1>8, <1>9, <1>10, ClientFlow

LEMMA HandlerFlow ==
  ASSUME Covered, Once, Flow, NEW c \in Clients, Handler(c), UNCHANGED servers
  PROVE  FlowStep
<1>1. Exchange(c)
  BY DEF Flow
<1>2. CASE sent[c] # <<>> /\ SendSucceeded(c)
  BY <1>2, SendSucceededFlow
<1>3. CASE sent[c] # <<>> /\ PopsEmptyQueue(c)
  BY <1>3, PopsEmptyQueueOnce DEF Covered
<1>4. CASE sent[c] # <<>> /\ ~Head(sent[c]) /\ SendFailed(c)
  <2>1. /\ rx[c] = 0 /\ recvd[c] = <<>> /\ shown[c] = <<>> /\ tx[c] = <<>>
        /\ Tail(sent[c]) = <<>> /\ DOMAIN sent[c] = {1} /\ Head(sent[c]) = sent[c][1]
    BY <1>1, <1>4, Activity DEF Covered, Exchange
  <2>2. MayFail
    BY <1>1, <1>4, <2>1 DEF Exchange, NothingFails
  <2>3. Results(c) = {}
    BY <2>1, ShortSeqs DEF Results
  <2>4. Close(c, <<>>, <<>>) /\ UNCHANGED <<control, shown, network>>
    BY <1>4, <2>1 DEF SendFailed
  <2> QED
    BY <2>1, <2>2, <2>3, <2>4, ClosedFlow
<1>5. CASE recvd[c] # <<>> /\ Head(recvd[c]).error /\ ReceiveFailed(c)
  <2>1. /\ rx[c] = 0 /\ sent[c] = <<>> /\ shown[c] = <<>> /\ tx[c] = <<>>
        /\ Tail(recvd[c]) = <<>> /\ DOMAIN recvd[c] = {1}
        /\ Head(recvd[c]) = recvd[c][1]
    BY <1>1, <1>5, Activity DEF Covered, Exchange
  <2>2. MayFail
    BY <1>1, <1>5, <2>1 DEF Exchange, NothingFails
  <2>3. Results(c) = {}
    BY <1>5, <2>1 DEF Results
  <2>4. Close(c, <<>>, <<>>) /\ UNCHANGED <<control, shown, network>>
    BY <1>5, <2>1 DEF ReceiveFailed
  <2> QED
    BY <2>1, <2>2, <2>3, <2>4, ClosedFlow
<1>6. CASE recvd[c] # <<>> /\ ~Head(recvd[c]).error /\ ReceiveSucceeded(c)
  BY <1>6, ReceiveSucceededFlow
<1> QED
  BY <1>2, <1>3, <1>4, <1>5, <1>6 DEF Handler, HandleSendTo, HandleReceiveFrom

LEMMA ClientStepFlow ==
  ASSUME Covered, Once, Flow, NEW c \in Clients, ClientStep(c) PROVE FlowStep
  BY HandlerFlow, SendLeavesFlow, SendFailsFlow, KernelReceiveFlow,
     KernelReceiveErrorFlow DEF ClientStep, MayFail

LEMMA LoseStepFlow ==
  ASSUME Covered, Once, Flow, NEW d \in net, LoseStep(d) PROVE FlowStep
<1>1. /\ MayFail /\ net' = net \ {d}
      /\ UNCHANGED <<servers, script, posted, tx, sent, rx, recvd, shown, open>>
  BY DEF LoseStep, MayFail, Vanish, Refuse, control, sending, receiving, socket
<1>2. \A b : /\ Asks(b)' = Asks(b) \ {d} /\ Answers(b)' = Answers(b) \ {d}
             /\ d.src # b => Asks(b)' = Asks(b)
             /\ d.dst # b => Answers(b)' = Answers(b)
             /\ Holds(b)' = Holds(b)
  BY <1>1, NetLoses, HeldKept, HeldKeeps
<1>3. PICK c \in Clients :
        /\ \/ d.src = c /\ d.dst \notin Clients
           \/ d.dst = c /\ d.src \notin Clients
        /\ \A b \in Clients \ {c} : refused'[b] = refused[b]
  <2>1. \/ d.src \in Clients /\ d.dst \in Others
        \/ d.src \in Others /\ d.dst \in Clients
    BY DEF Flow, Shapes, IsRequest, IsAnswer
  <2>2. PICK c \in Clients : \/ d.src = c /\ d.dst \notin Clients
                             \/ d.dst = c /\ d.src \notin Clients
    <3>1. CASE d.src \in Clients /\ d.dst \in Others
      <4>1. d.dst \notin Clients
        BY <3>1, ClientAssumption
      <4> QED
        BY <3>1, <4>1
    <3>2. CASE d.src \in Others /\ d.dst \in Clients
      <4>1. d.src \notin Clients
        BY <3>2, ClientAssumption
      <4> QED
        BY <3>2, <4>1
    <3> QED
      BY <2>1, <3>1, <3>2
  <2>3. CASE Vanish(d)
    BY <2>2, <2>3 DEF Vanish, socket
  <2>4. CASE Refuse(d)
    <3>1. d.src = c /\ refused' = [refused EXCEPT ![c] = open[c]]
      BY <2>2, <2>4, ClientAssumption DEF Refuse
    <3>2. refused \in [Clients -> BOOLEAN]
      BY DEF Covered, TypeOK
    <3>3. \A b \in Clients \ {c} : refused'[b] = refused[b]
      BY <3>1, <3>2
    <3> QED
      BY <2>2, <3>3
  <2> QED
    BY <2>3, <2>4 DEF LoseStep
<1>4. Exchange(c)
  BY DEF Flow
<1>5. /\ d.src = c => Asks(c) # {} /\ Asks(c)' = {} /\ Answers(c)' = Answers(c)
      /\ d.src # c => Answers(c) # {} /\ Answers(c)' = {} /\ Asks(c)' = Asks(c)
  <2>1. AtMostOne(Asks(c)) /\ AtMostOne(Answers(c))
    BY <1>4 DEF Exchange
  <2>2. CASE d.src = c /\ d.dst \notin Clients
    <3>1. d \in Asks(c)
      BY <2>2 DEF Asks
    <3>2. Asks(c) \ {d} = {} /\ Asks(c) # {}
      BY <2>1, <3>1, LastRemoved
    <3>3. d.dst # c
      BY <2>2
    <3> QED
      BY <1>2, <2>2, <3>2, <3>3
  <2>3. CASE d.dst = c /\ d.src \notin Clients
    <3>1. d \in Answers(c)
      BY <2>3 DEF Answers
    <3>2. Answers(c) \ {d} = {} /\ Answers(c) # {}
      BY <2>1, <3>1, LastRemoved
    <3>3. d.src # c
      BY <2>3
    <3> QED
      BY <1>2, <3>2, <3>3
  <2> QED
    BY <1>3, <2>2, <2>3
<1>6. At(c, "nowhere")'
  <2>1. Results(c)' = Results(c)
    BY <1>1 DEF Results
  <2>2. CASE d.src = c
    <3>1. At(c, "asking")
      BY <1>4, <1>5, <2>2 DEF Exchange, At
    <3> QED
      BY <1>1, <1>2, <1>5, <2>1, <2>2, <3>1 DEF At, Pending
  <2>3. CASE d.src # c
    <3>1. At(c, "answered")
      BY <1>4, <1>5, <2>3 DEF Exchange, At
    <3> QED
      BY <1>1, <1>2, <1>5, <2>1, <2>3, <3>1 DEF At, Pending
  <2> QED
    BY <2>2, <2>3
<1>7. Exchange(c)'
  <2>1. OneActivity(c)' /\ \A i \in DOMAIN tx'[c] : tx'[c][i].msg = MessageFor(c)
    BY <1>1, <1>4 DEF Exchange, OneActivity
  <2>2. AtMostOne(Asks(c))' /\ AtMostOne(Answers(c))'
    BY <1>4, <1>5 DEF Exchange, AtMostOne
  <2>3. "nowhere" \in Stages
    BY DEF Stages
  <2> QED
    BY <1>1, <1>4, <1>6, <2>1, <2>2, <2>3, ClientExchange
<1>8. \A b \in Clients \ {c} :
        /\ tx'[b] = tx[b] /\ sent'[b] = sent[b] /\ rx'[b] = rx[b]
        /\ recvd'[b] = recvd[b] /\ shown'[b] = shown[b]
        /\ open'[b] = open[b] /\ refused'[b] = refused[b]
        /\ Asks(b)' = Asks(b) /\ Answers(b)' = Answers(b)
  BY <1>1, <1>2, <1>3
<1>9. Past(c) => Past(c)'
  BY <1>1, <1>2 DEF Past, Pending
<1> QED
  BY <1>1, <1>7, <1>8, <1>9, ClientFlow

-----------------------------------------------------------------------------
(* The steps of one server.                                                *)

\* What a server takes is what it can answer.
SoundStep == MayFail \/ \A s \in Others : ServerSound(s)'

LEMMA ServerFlow ==
  ASSUME Flow, SoundStep, UNCHANGED clients, Shapes', NEW c \in Clients,
         NEW k \in Stages, At(c, k)', Past(c) => Past(c)',
         AtMostOne(Asks(c))', AtMostOne(Holds(c))', AtMostOne(Answers(c))',
         \A b \in Clients \ {c} :
           Asks(b)' = Asks(b) /\ Answers(b)' = Answers(b) /\ Holds(b)' = Holds(b)
  PROVE  FlowStep
<1>1. UNCHANGED <<script, posted, tx, sent, rx, recvd, shown, open, refused>>
  BY DEF clients, control, sending, receiving, socket
<1>2. OwnCalls'
  BY <1>1 DEF Flow, OwnCalls, MessageFor
<1>3. Exchange(c)'
  BY <1>1 DEF Flow, Exchange, OneActivity, NothingFails, MessageFor
<1>4. \A b \in Clients \ {c} : Elsewhere(b)
  BY <1>1 DEF Elsewhere, Pending
<1> QED
  BY <1>2, <1>3, <1>4, OneClientFlow DEF SoundStep

\* A step that neither takes a request nor answers or drops one.
LEMMA ServerIdleFlow ==
  ASSUME Flow, SoundStep, UNCHANGED clients, net' = net, SrvP!Held' = SrvP!Held
  PROVE  FlowStep
<1>1. UNCHANGED <<script, posted, tx, sent, rx, recvd, shown, open, refused>>
  BY DEF clients, control, sending, receiving, socket
<1>2. OwnCalls' /\ Shapes'
  BY <1>1 DEF Flow, OwnCalls, Shapes, IsRequest, IsAnswer, MessageFor
<1>3. \A b \in Clients : Elsewhere(b)
  BY <1>1, NetKept, HeldKeeps DEF Elsewhere, Pending
<1> QED
  BY <1>2, <1>3, NoClientFlow DEF SoundStep

\* The exchange of a client whose request is held.
LEMMA HeldStage ==
  ASSUME Flow, NEW r \in SrvP!Held
  PROVE  /\ IsRequest(r) /\ r.src \in Clients /\ Exchange(r.src)
         /\ At(r.src, "held") /\ Holds(r.src) \ {r} = {}
<1>1. IsRequest(r) /\ r.src \in Clients /\ Exchange(r.src)
  BY DEF Flow, Shapes, IsRequest
<1>2. r \in Holds(r.src)
  BY DEF Holds
<1>3. At(r.src, "held")
  BY <1>1, <1>2 DEF Exchange, At
<1>4. Holds(r.src) \ {r} = {}
  BY <1>1, <1>2, LastRemoved DEF Exchange
<1> QED
  BY <1>1, <1>3, <1>4

LEMMA TakesFlow ==
  ASSUME Flow, SoundStep, UNCHANGED clients, NEW d \in net, d.dst \in Others,
         net' = net \ {d}, SrvP!Held' = SrvP!Held \cup {d}
  PROVE  FlowStep
<1>1. IsRequest(d) /\ d.dst \notin Clients
  BY ClientAssumption DEF Flow, Shapes, IsAnswer
<1>2. PICK c \in Clients : c = d.src
  BY <1>1 DEF IsRequest
<1>3. Exchange(c) /\ At(c, "asking")
  BY <1>2 DEF Flow, Exchange, At, Asks
<1>4. \A b : /\ Asks(b)' = Asks(b) \ {d}
             /\ d.src # b => Asks(b)' = Asks(b)
             /\ d.dst # b => Answers(b)' = Answers(b)
             /\ Holds(b)' = Holds(b) \cup (IF d.src = b THEN {d} ELSE {})
  BY NetLoses, HeldGains
<1>5. /\ Asks(c)' = {} /\ Answers(c)' = Answers(c) /\ Holds(c)' = {d}
      /\ \A b \in Clients \ {c} :
           Asks(b)' = Asks(b) /\ Answers(b)' = Answers(b) /\ Holds(b)' = Holds(b)
  <2>1. d \in Asks(c) /\ AtMostOne(Asks(c))
    BY <1>2, <1>3 DEF Asks, Exchange
  <2>2. Asks(c) \ {d} = {}
    BY <2>1, LastRemoved
  <2>3. Holds(c) = {}
    BY <1>3 DEF At
  <2>4. \A b \in Clients : d.dst # b
    BY <1>1
  <2> QED
    BY <1>2, <1>4, <2>2, <2>3, <2>4
<1>6. UNCHANGED <<script, posted, tx, sent, rx, recvd, shown, open, refused>>
  BY DEF clients, control, sending, receiving, socket
<1>7. At(c, "held")'
  BY <1>3, <1>5, <1>6 DEF At, Pending, Results
<1>8. AtMostOne(Asks(c))' /\ AtMostOne(Holds(c))' /\ AtMostOne(Answers(c))'
  BY <1>3, <1>5 DEF Exchange, AtMostOne
<1>9. Shapes'
  BY <1>1 DEF Flow, Shapes, IsRequest, IsAnswer, MessageFor
<1>10. "held" \in Stages
  BY DEF Stages
<1>11. Past(c) => Past(c)'
  BY <1>3 DEF Past, At
<1> QED
  BY <1>5, <1>7, <1>8, <1>9, <1>10, <1>11, ServerFlow

LEMMA DropsFlow ==
  ASSUME Flow, SoundStep, UNCHANGED clients, NEW r \in SrvP!Held, MayFail,
         net' = net, SrvP!Held' = SrvP!Held \ {r}
  PROVE  FlowStep
<1>1. PICK c \in Clients : c = r.src
  BY HeldStage
<1>2. Exchange(c) /\ At(c, "held") /\ Holds(c) \ {r} = {}
  BY <1>1, HeldStage
<1>3. /\ Holds(c)' = {} /\ \A b : Asks(b)' = Asks(b) /\ Answers(b)' = Answers(b)
      /\ \A b \in Clients \ {c} : Holds(b)' = Holds(b)
  BY <1>1, <1>2, NetKept, HeldLoses
<1>4. UNCHANGED <<script, posted, tx, sent, rx, recvd, shown, open, refused>>
  BY DEF clients, control, sending, receiving, socket
<1>5. At(c, "nowhere")'
  BY <1>2, <1>3, <1>4 DEF At, Pending, Results
<1>6. AtMostOne(Asks(c))' /\ AtMostOne(Holds(c))' /\ AtMostOne(Answers(c))'
  BY <1>2, <1>3 DEF Exchange, AtMostOne
<1>7. Shapes'
  BY DEF Flow, Shapes, IsRequest, IsAnswer, MessageFor
<1>8. "nowhere" \in Stages
  BY DEF Stages
<1>9. Past(c) => Past(c)'
  BY <1>2 DEF Past, At
<1> QED
  BY <1>3, <1>5, <1>6, <1>7, <1>8, <1>9, ServerFlow

LEMMA AnswersFlow ==
  ASSUME Flow, SoundStep, UNCHANGED clients, NEW r \in SrvP!Held,
         SrvP!Held' = SrvP!Held \ {r}, NEW a, net' = net \cup {a},
         a.src = r.dst, a.dst = r.src, a.len = AtMost(r.len, MaxLength)
  PROVE  FlowStep
<1>1. PICK c \in Clients : c = r.src
  BY HeldStage
<1>2. Exchange(c) /\ At(c, "held") /\ Holds(c) \ {r} = {} /\ IsRequest(r)
  BY <1>1, HeldStage
<1>3. IsAnswer(a) /\ a.dst = c /\ a.src \notin Clients
  BY <1>1, <1>2, ClientAssumption DEF IsAnswer, IsRequest
<1>4. /\ Asks(c)' = Asks(c) /\ Answers(c)' = {a} /\ Holds(c)' = {}
      /\ \A b \in Clients \ {c} :
           Asks(b)' = Asks(b) /\ Answers(b)' = Answers(b) /\ Holds(b)' = Holds(b)
  <2>1. \A b : /\ Asks(b)' = Asks(b) \cup (IF a.src = b THEN {a} ELSE {})
               /\ Answers(b)' = Answers(b) \cup (IF a.dst = b THEN {a} ELSE {})
               /\ Holds(b)' = Holds(b) \ {r}
               /\ r.src # b => Holds(b)' = Holds(b)
    BY NetGains, HeldLoses
  <2>2. Answers(c) = {}
    BY <1>2 DEF At
  <2>3. \A b \in Clients : a.src # b
    BY <1>3
  <2> QED
    BY <1>1, <1>2, <1>3, <2>1, <2>2, <2>3
<1>5. UNCHANGED <<script, posted, tx, sent, rx, recvd, shown, open, refused>>
  BY DEF clients, control, sending, receiving, socket
<1>6. At(c, "answered")'
  BY <1>2, <1>4, <1>5 DEF At, Pending, Results
<1>7. AtMostOne(Asks(c))' /\ AtMostOne(Holds(c))' /\ AtMostOne(Answers(c))'
  BY <1>2, <1>4 DEF Exchange, AtMostOne
<1>8. Shapes'
  BY <1>3 DEF Flow, Shapes, IsRequest, IsAnswer, MessageFor
<1>9. "answered" \in Stages
  BY DEF Stages
<1>10. Past(c) => Past(c)'
  BY <1>2 DEF Past, At
<1> QED
  BY <1>4, <1>6, <1>7, <1>8, <1>9, <1>10, ServerFlow

\* A server that received what it answers goes on doing so.
LEMMA SameSound ==
  ASSUME Flow, NEW s \in Others, \A t \in Others \ {s} :
           srecvd'[t] = srecvd[t] /\ sunreachable'[t] = sunreachable[t],
         MayFail \/ ServerSound(s)'
  PROVE  SoundStep
<1> SUFFICES ASSUME ~MayFail, NEW t \in Others PROVE ServerSound(t)'
  BY DEF SoundStep
<1>1. CASE t = s
  BY <1>1
<1>2. CASE t # s
  BY <1>2 DEF Flow, ServerSound
<1> QED
  BY <1>1, <1>2

LEMMA EmptySound ==
  ASSUME Flow, NEW s \in Others, MayFail \/ sunreachable'[s] = sunreachable[s],
         srecvd'[s] = srecvd[s] \/ srecvd'[s] = <<>>
  PROVE  MayFail \/ ServerSound(s)'
<1>1. CASE srecvd'[s] = srecvd[s]
  BY <1>1 DEF Flow, ServerSound
<1>2. CASE srecvd'[s] = <<>>
  <2>1. DOMAIN srecvd'[s] = {}
    BY <1>2, ShortSeqs
  <2> QED
    BY <2>1 DEF Flow, ServerSound
<1> QED
  BY <1>1, <1>2

LEMMA ServerReceivesFlow ==
  ASSUME SrvP!IInv, Flow, UNCHANGED clients,
         NEW s \in Others, SrvP!KernelReceive(s)
  PROVE  FlowStep
<1>1. PICK d \in net : d.dst = s /\ net' = net \ {d} /\ SrvP!Held' = SrvP!Held \cup {d}
  BY SrvP!TakesRequest, ServersAssumed
<1>2. SoundStep
  <2>1. PICK g \in net, e \in BOOLEAN :
          /\ g.dst = s /\ (e => g.len > MaxLength)
          /\ srecvd' = [srecvd EXCEPT ![s] = Append(@,
                          [error |-> e, bytes |-> SrvP!Fit(g.len), req |-> g])]
    BY DEF SrvP!KernelReceive
  <2> DEFINE h == [error |-> e, bytes |-> SrvP!Fit(g.len), req |-> g]
  <2>2. srecvd[s] = <<>>
    <3>1. srecvd[s] # <<>> => srx[s] = 0
      BY SrvP!Alone, ServersAssumed
    <3> QED
      BY <3>1 DEF SrvP!KernelReceive
  <2>3. srecvd \in [Others -> Seq(SrvP!Completion)]
    BY DEF SrvP!IInv, SrvP!TypeOK
  <2>4. h.error = e /\ h.bytes = SrvP!Fit(g.len)
    OBVIOUS
  <2>5. srecvd' = [srecvd EXCEPT ![s] = Append(srecvd[s], h)]
    BY <2>1
  <2> HIDE DEF h
  <2>6. srecvd'[s] = <<h>> /\ \A t \in Others \ {s} : srecvd'[t] = srecvd[t]
    BY <2>2, <2>3, <2>5, ShortSeqs
  <2>7. sunreachable' = sunreachable
    BY DEF SrvP!KernelReceive
  <2>8. MayFail \/ ServerSound(s)'
    <3> SUFFICES ASSUME ~MayFail PROVE ServerSound(s)'
      OBVIOUS
    <3>1. TextOf(g.src) \in Texts /\ g.len = MessageOf(TextOf(g.src)).len
      BY <2>1, ClientAssumption DEF Flow, Shapes, IsRequest, IsAnswer, MessageFor
    <3>2. g.len \in 1..MaxLength /\ MaxLength \in Nat
      BY <3>1, EchoAssumption DEF Fits, MayFail
    <3>3. ~h.error /\ h.bytes > 0
      BY <2>1, <2>4, <3>2 DEF SrvP!Fit
    <3>4. DOMAIN srecvd'[s] = {1} /\ srecvd'[s][1] = h
      BY <2>6, ShortSeqs
    <3> QED
      BY <2>7, <3>3, <3>4 DEF Flow, ServerSound
  <2> QED
    BY <2>6, <2>7, <2>8, SameSound
<1> QED
  BY <1>1, <1>2, TakesFlow

LEMMA ServerErrorFlow ==
  ASSUME SrvP!IInv, Flow, UNCHANGED clients,
         NEW s \in Others, SrvP!KernelReceiveError(s)
  PROVE  FlowStep
<1>1. net' = net /\ SrvP!Held' = SrvP!Held
  BY SrvP!ErrorTakesNothing, ServersAssumed
<1>2. MayFail
  BY DEF SrvP!KernelReceiveError, Flow, ServerSound
<1> QED
  BY <1>1, <1>2, ServerIdleFlow DEF SoundStep

LEMMA ServerSendsFlow ==
  ASSUME SrvP!IInv, Flow, UNCHANGED clients, NEW s \in Others,
         SrvP!SendLeaves(s) \/ (MayFail /\ SrvP!SendFails(s))
  PROVE  FlowStep
<1>1. SrvP!KernelSend(s)
  BY DEF SrvP!KernelSend
<1>2. PICK r \in SrvP!Held :
        /\ SrvP!Held' = SrvP!Held \ {r}
        /\ SrvP!SendLeaves(s) =>
             net' = net \cup {SrvP!Service!Answer(r, sdata[s])}
        /\ SrvP!SendFails(s) => UNCHANGED net
  BY <1>1, SrvP!EndsRequest, ServersAssumed
<1>3. SoundStep
  <2>1. srecvd' = srecvd /\ (MayFail \/ sunreachable' = sunreachable)
    BY DEF SrvP!SendLeaves, SrvP!SendFails
  <2> QED
    BY <2>1, EmptySound, SameSound DEF SoundStep, Flow, ServerSound
<1>4. CASE SrvP!SendLeaves(s)
  <2> DEFINE a == SrvP!Service!Answer(r, sdata[s])
  <2>1. a.src = r.dst /\ a.dst = r.src /\ a.len = AtMost(r.len, MaxLength)
    BY DEF SrvP!Service!Answer, AtMost
  <2>2. net' = net \cup {a}
    BY <1>2, <1>4
  <2> HIDE DEF a
  <2> QED
    BY <1>2, <1>3, <2>1, <2>2, AnswersFlow
<1>5. CASE MayFail /\ SrvP!SendFails(s)
  BY <1>2, <1>3, <1>5, DropsFlow
<1> QED
  BY <1>4, <1>5

LEMMA ServerHandlesFlow ==
  ASSUME SrvP!IInv, Flow, UNCHANGED clients, NEW s \in Others,
         \/ SrvP!HandleReceiveFrom(s)
         \/ SrvP!HandleSendTo(s) \/ SrvP!ClearBuffer(s)
  PROVE  FlowStep
<1>1. CASE SrvP!HandleReceiveFrom(s)
  <2>1. /\ srecvd[s] # <<>> /\ srecvd' = [srecvd EXCEPT ![s] = Tail(@)]
        /\ sunreachable' = sunreachable
    BY <1>1 DEF SrvP!HandleReceiveFrom
  <2>2. /\ srecvd[s] = <<Head(srecvd[s])>> /\ Head(srecvd[s]) = srecvd[s][1]
        /\ Tail(srecvd[s]) = <<>>
    BY <2>1, SrvP!Alone, ServersAssumed
  <2>3. SoundStep
    <3>1. srecvd'[s] = <<>> /\ \A t \in Others \ {s} : srecvd'[t] = srecvd[t]
      BY <2>1, <2>2 DEF SrvP!IInv, SrvP!TypeOK
    <3> QED
      BY <2>1, <3>1, EmptySound, SameSound
  <2>4. /\ net' = net
        /\ \/ SrvP!Held' = SrvP!Held
           \/ /\ Head(srecvd[s]).error \/ Head(srecvd[s]).bytes = 0
              /\ \E r \in SrvP!Held : SrvP!Held' = SrvP!Held \ {r}
    BY <1>1, SrvP!BeginsAnswer, ServersAssumed
  <2>5. CASE SrvP!Held' = SrvP!Held
    BY <2>3, <2>4, <2>5, ServerIdleFlow
  <2>6. CASE /\ Head(srecvd[s]).error \/ Head(srecvd[s]).bytes = 0
             /\ \E r \in SrvP!Held : SrvP!Held' = SrvP!Held \ {r}
    <3>1. DOMAIN srecvd[s] = {1}
      BY <2>2, ShortSeqs
    <3>2. MayFail
      <4>1. \A n : n = 0 => ~(n > 0)
        OBVIOUS
      <4> QED
        BY <2>2, <2>6, <3>1, <4>1 DEF Flow, ServerSound
    <3> QED
      BY <2>3, <2>4, <2>6, <3>2, DropsFlow
  <2> QED
    BY <2>4, <2>5, <2>6
<1>2. CASE SrvP!HandleSendTo(s) \/ SrvP!ClearBuffer(s)
  <2>1. UNCHANGED <<net, srecvd, stx, sunreachable>>
    BY <1>2 DEF SrvP!HandleSendTo, SrvP!ClearBuffer, SrvP!netVars
  <2>2. SrvP!Held' = SrvP!Held
    BY <2>1 DEF SrvP!Held, SrvP!HeldBy
  <2>3. SoundStep
    BY <2>1 DEF SoundStep, Flow, ServerSound
  <2> QED
    BY <2>1, <2>2, <2>3, ServerIdleFlow
<1> QED
  BY <1>1, <1>2

LEMMA ServerStepFlow ==
  ASSUME SrvP!IInv, Flow, NEW s \in Others, ServerStep(s) PROVE FlowStep
  BY ServerStepIs, ServerReceivesFlow, ServerErrorFlow, ServerSendsFlow,
     ServerHandlesFlow DEF MayFail

-----------------------------------------------------------------------------
(* Each program sees the other as its environment.                         *)

\* A step of the system, of main, the clients or the network, is one that
\* AsyncUdpClient allows.
LEMMA ClientsNext ==
  /\ MainStep => Next
  /\ \A c \in Clients : ClientStep(c) => Next
  /\ \A d \in net : LoseStep(d) => Next
  BY DEF MainStep, ClientStep, LoseStep, Next, Program, Kernel

LEMMA MessageLength ==
  ASSUME Covered, Once, Flow, NEW c \in Clients, tx[c] # <<>>
  PROVE  /\ count[c] = 0 /\ Head(tx[c]).to = Server[c] /\ Server[c] \in Others
         /\ Head(tx[c]).msg.text \in Texts
         /\ Head(tx[c]).msg.len \in {MessageOf(t).len : t \in Texts}
<1>1. Exchange(c)
  BY DEF Flow
<1>2. /\ Head(tx[c]) = tx[c][1] /\ Head(tx[c]) \in SendOp /\ DOMAIN tx[c] = {1}
  BY <1>1, Activity DEF Covered, Exchange
<1>3. Head(tx[c]).msg = MessageFor(c)
  BY <1>1, <1>2 DEF Exchange
<1>4. MessageFor(c).text \in Texts
  BY <1>2, <1>3 DEF SendOp, Message
<1>5. TextOf(c) \in Texts
  BY <1>4 DEF MessageFor, MessageOf
<1>6. count[c] = 0 /\ Head(tx[c]).to = Server[c]
  BY OneOnly DEF Covered, Once
<1> QED
  BY <1>3, <1>4, <1>5, <1>6, ClientAssumption DEF MessageFor

\* A step of the system is one that UdpEchoServer allows, or concerns no server.
LEMMA ServersNext ==
  ASSUME Covered, Once, Flow, SystemNext PROVE [Srv!Next]_(Srv!vars)
<1> USE DEF Srv!vars, Srv!netVars, Srv!serverVars, servers
<1>1. CASE MainStep
  BY <1>1 DEF MainStep, SendMessage, DoWrite, sending, network
<1>2. ASSUME NEW c \in Clients, SendLeaves(c), UNCHANGED servers PROVE Srv!Next
  <2> DEFINE op == Head(tx[c])
  <2>1. /\ tx[c] # <<>> /\ count' = [count EXCEPT ![c] = @ + 1]
        /\ \E b \in IF op.bytes = "freed" THEN {op.msg.text, Garbage}
                                          ELSE {op.msg.text} :
             net' = net \cup {[src |-> c, dst |-> op.to, id |-> count[c] + 1,
                               body |-> b, len |-> op.msg.len]}
    BY <1>2 DEF SendLeaves
  <2>2. /\ count[c] = 0 /\ op.to \in Others /\ op.msg.text \in Texts
        /\ op.msg.len \in {MessageOf(t).len : t \in Texts}
    BY <2>1, MessageLength
  <2>3. PICK b \in Texts \cup {Garbage} :
          net' = net \cup {[src |-> c, dst |-> op.to, id |-> count[c] + 1,
                            body |-> b, len |-> op.msg.len]}
    BY <2>1, <2>2
  <2> HIDE DEF op
  <2>4. count[c] < 1
    BY <2>2
  <2>5. Srv!ClientSend(c)
    BY <1>2, <2>1, <2>2, <2>3, <2>4 DEF Srv!ClientSend
  <2> QED
    BY <2>5 DEF Srv!Next
<1>3. ASSUME NEW c \in Clients, KernelReceive(c), UNCHANGED servers PROVE Srv!Next
  <2>1. PICK d \in net : net' = net \ {d} /\ count' = count
    BY <1>3 DEF KernelReceive, sending
  <2> QED
    BY <1>3, <2>1 DEF Srv!Next, Srv!Vanish
<1>4. ASSUME NEW c \in Clients, UNCHANGED servers,
             Handler(c) \/ KernelReceiveError(c) \/ SendFails(c)
      PROVE  UNCHANGED Srv!vars
  BY <1>4 DEF Handler, HandleSendTo, HandleReceiveFrom, SendSucceeded, PopsEmptyQueue,
     SendFailed, ReceiveFailed, ReceiveSucceeded, KernelReceiveError, SendFails,
     sending, network
<1>5. ASSUME NEW c \in Clients, ClientStep(c) PROVE [Srv!Next]_(Srv!vars)
  BY <1>2, <1>3, <1>4, <1>5 DEF ClientStep
<1>6. ASSUME NEW s \in Others, ServerStep(s) PROVE Srv!Next
  BY <1>6 DEF ServerStep, Srv!Next, Srv!Kernel, Srv!KernelSend
<1>7. ASSUME NEW d \in net, LoseStep(d) PROVE Srv!Next
  BY <1>7 DEF LoseStep, Vanish, Refuse, sending, Srv!Next, Srv!Vanish
<1> QED
  BY <1>1, <1>5, <1>6, <1>7 DEF SystemNext

LEMMA SameNext == [Srv!Next]_(Srv!vars) => [SrvP!Next]_(SrvP!vars)
<1> SUFFICES ASSUME [Srv!Next]_(Srv!vars) PROVE [SrvP!Next]_(SrvP!vars)
  OBVIOUS
<1>1. ASSUME NEW s \in Others, Srv!Handler(s) \/ Srv!Kernel(s) PROVE SrvP!Next
  BY <1>1, SameActions DEF Srv!Handler, Srv!Kernel, Srv!KernelSend, SrvP!Next,
     SrvP!Handler, SrvP!Kernel, SrvP!KernelSend
<1>2. ASSUME NEW c \in Clients, Srv!ClientSend(c) PROVE SrvP!Next
  <2>1. SrvP!ClientSend(c)
    BY <1>2 DEF Srv!ClientSend, SrvP!ClientSend, Srv!serverVars, SrvP!serverVars
  <2> QED
    BY <2>1 DEF SrvP!Next
<1>3. ASSUME NEW d \in net, Srv!Vanish(d) PROVE SrvP!Next
  <2>1. SrvP!Vanish(d)
    BY <1>3 DEF Srv!Vanish, SrvP!Vanish, Srv!serverVars, SrvP!serverVars
  <2> QED
    BY <2>1 DEF SrvP!Next
<1>4. CASE UNCHANGED Srv!vars
  BY <1>4 DEF Srv!vars, Srv!netVars, Srv!serverVars, SrvP!vars, SrvP!netVars,
     SrvP!serverVars
<1> QED
  BY <1>1, <1>2, <1>3, <1>4 DEF Srv!Next

\* Whatever a server puts on the network is a datagram a client may meet.
LEMMA ServerKeepsClients ==
  ASSUME Covered, Once, SrvP!IInv', NEW s \in Others, ServerStep(s)
  PROVE  Covered' /\ Once'
<1>1. UNCHANGED <<script, posted, fault, queue, tx, sent, count, rx, recvd, data,
                  bodyLength, shown, endpoint, open, refused, strays>>
  BY DEF ServerStep, clients, control, sending, receiving, socket
<1>2. net' \subseteq Datagram
  <2>1. net' \subseteq SrvP!Request \cup SrvP!Reply
    BY DEF SrvP!IInv, SrvP!TypeOK
  <2>2. SrvP!Request \subseteq Datagram /\ SrvP!Reply \subseteq Datagram
    BY EchoAssumption DEF SrvP!Request, SrvP!Reply, Datagram, Contents
  <2> QED
    BY <2>1, <2>2
<1>3. Covered'
  BY <1>1, <1>2 DEF Covered, TypeOK, EachHasASend
<1>4. \A d \in net' : d \in net \/ d.src \notin Clients
  <2>1. CASE SrvP!SendLeaves(s)
    <3>1. SrvP!Echo(s, Head(stx[s])).src = s
      BY DEF SrvP!Echo
    <3>2. net' = net \cup {SrvP!Echo(s, Head(stx[s]))}
      BY <2>1 DEF SrvP!SendLeaves
    <3>3. s \notin Clients
      BY ClientAssumption
    <3> QED
      BY <3>1, <3>2, <3>3
  <2>2. CASE SrvP!KernelReceive(s)
    BY <2>2 DEF SrvP!KernelReceive
  <2>3. CASE \/ SrvP!HandleReceiveFrom(s) \/ SrvP!HandleSendTo(s)
             \/ SrvP!ClearBuffer(s) \/ SrvP!KernelReceiveError(s)
             \/ SrvP!SendFails(s)
    BY <2>3 DEF SrvP!HandleReceiveFrom, SrvP!HandleSendTo, SrvP!ClearBuffer,
       SrvP!KernelReceiveError, SrvP!SendFails, SrvP!netVars
  <2> QED
    BY <2>1, <2>2, <2>3, ServerStepIs
<1>5. ToServer'
  BY <1>4 DEF Once, ToServer
<1>6. Once'
  BY <1>1, <1>5, KeepsOnceNetwork
<1> QED
  BY <1>3, <1>6

LEMMA SystemInitInvariant == UsedOnce /\ SystemInit => Inv
<1> SUFFICES ASSUME UsedOnce, SystemInit PROVE Inv
  OBVIOUS
<1>1. Init /\ Covered /\ Once
  BY InitCovered, InitOnce DEF SystemInit
<1>2. SrvP!IInv
  <2>1. SrvP!Init
    BY <1>1 DEF SystemInit, Init, Srv!ServerInit, SrvP!ServerInit, SrvP!Init
  <2> QED
    BY <2>1, SrvP!InitInvariant, ServersAssumed
<1>3. SrvP!Held = {}
  <2>1. \A s \in Others : SrvP!HeldBy(s) = {}
    BY ShortSeqs DEF SystemInit, Srv!ServerInit, SrvP!HeldBy
  <2> QED
    BY <2>1 DEF SrvP!Held
<1>4. Shapes
  BY <1>1, <1>3 DEF Init, Shapes
<1>5. \A c, i : i \in DOMAIN Script /\ Script[i].client = c =>
        CallOf(c) = {i} /\ TextOf(c) = Script[i].text
  <2> SUFFICES ASSUME NEW c, NEW i \in DOMAIN Script, Script[i].client = c
               PROVE  CallOf(c) = {i} /\ TextOf(c) = Script[i].text
    OBVIOUS
  <2>1. CallOf(c) = {i}
    BY DEF UsedOnce, CallOf
  <2> QED
    BY <2>1 DEF TextOf
<1>6. OwnCalls
  <2>1. DOMAIN posted = {} /\ script = Script
    BY <1>1, ShortSeqs DEF Init
  <2> QED
    BY <1>5, <2>1 DEF OwnCalls
<1>7. ASSUME NEW c \in Clients PROVE Exchange(c)
  <2>1. /\ tx[c] = <<>> /\ sent[c] = <<>> /\ rx[c] = 0 /\ recvd[c] = <<>>
        /\ shown[c] = <<>> /\ open[c] /\ ~refused[c] /\ net = {}
        /\ posted = <<>> /\ script = Script
    BY <1>1 DEF Init
  <2>2. /\ Asks(c) = {} /\ Answers(c) = {} /\ Holds(c) = {} /\ Results(c) = {}
    BY <1>3, <2>1, ShortSeqs DEF Asks, Answers, Holds, Results
  <2>3. /\ Len(tx[c]) = 0 /\ Len(sent[c]) = 0 /\ Len(recvd[c]) = 0
        /\ Len(shown[c]) = 0 /\ DOMAIN tx[c] = {} /\ DOMAIN sent[c] = {}
        /\ DOMAIN recvd[c] = {} /\ DOMAIN posted = {}
    BY <2>1, ShortSeqs
  <2>4. Pending(c) <=> CallOf(c) # {}
    BY <2>1, <2>3 DEF Pending, CallOf
  <2>5. OneActivity(c)
    BY <2>1, <2>3 DEF OneActivity
  <2>6. \E k \in Stages : At(c, k)
    <3>1. CASE CallOf(c) # {}
      <4>1. At(c, "called")
        BY <2>1, <2>2, <2>4, <3>1 DEF At
      <4> QED
        BY <4>1 DEF Stages
    <3>2. CASE CallOf(c) = {}
      <4>1. At(c, "nowhere")
        BY <2>1, <2>2, <2>4, <3>2 DEF At
      <4> QED
        BY <4>1 DEF Stages
    <3> QED
      BY <3>1, <3>2
  <2> QED
    BY <2>1, <2>2, <2>3, <2>5, <2>6 DEF Exchange, AtMostOne, NothingFails
<1>8. \A s \in Others : ServerSound(s)
  BY ShortSeqs DEF SystemInit, Srv!ServerInit, ServerSound
<1> QED
  BY <1>1, <1>2, <1>4, <1>6, <1>7, <1>8 DEF Inv, Flow

LEMMA SystemNextInvariant == Inv /\ [SystemNext]_system => Inv'
<1> SUFFICES ASSUME Inv, [SystemNext]_system PROVE Inv'
  OBVIOUS
<1> USE DEF Inv
<1>1. CASE UNCHANGED system
  <2>1. UNCHANGED vars /\ UNCHANGED servers /\ net' = net
    BY <1>1 DEF system, clients, vars, network
  <2>2. Covered'
    BY <2>1, NextCovered
  <2>3. Once'
    BY <2>1, NextOnce DEF Covered
  <2>4. SrvP!IInv'
    BY <2>1, SrvP!NextInvariant, ServersAssumed DEF vars, sending, servers, SrvP!vars,
       SrvP!netVars, SrvP!serverVars
  <2>5. Flow'
    <3>1. UNCHANGED clients
      BY <1>1 DEF system
    <3>2. SrvP!Held' = SrvP!Held
      BY <2>1, HeldKept
    <3>3. SoundStep
      BY <2>1 DEF SoundStep, Flow, ServerSound, servers
    <3> QED
      BY <2>1, <3>1, <3>2, <3>3, ServerIdleFlow DEF FlowStep
  <2> QED
    BY <2>2, <2>3, <2>4, <2>5
<1>2. CASE SystemNext
  <2>1. SrvP!IInv'
    <3>1. [SrvP!Next]_(SrvP!vars)
      BY <1>2, ServersNext, SameNext
    <3> QED
      BY <3>1, SrvP!NextInvariant, ServersAssumed
  <2>2. ASSUME Next PROVE Covered' /\ Once'
    BY <2>2, NextCovered, NextOnce DEF Covered
  <2>3. CASE MainStep
    <3>1. Covered' /\ Once'
      BY <2>2, <2>3, ClientsNext
    <3> QED
      BY <2>1, <2>3, <3>1, SendMessageFlow, DoWriteFlow
         DEF MainStep, FlowStep
  <2>4. ASSUME NEW c \in Clients, ClientStep(c) PROVE Inv'
    BY <2>1, <2>2, <2>4, ClientsNext, ClientStepFlow DEF FlowStep
  <2>5. ASSUME NEW s \in Others, ServerStep(s) PROVE Inv'
    BY <2>1, <2>5, ServerKeepsClients, ServerStepFlow DEF FlowStep
  <2>6. ASSUME NEW d \in net, LoseStep(d) PROVE Inv'
    BY <2>1, <2>2, <2>6, ClientsNext, LoseStepFlow DEF FlowStep
  <2> QED
    BY <1>2, <2>3, <2>4, <2>5, <2>6 DEF SystemNext
<1> QED
  BY <1>1, <1>2

\* The clients, the servers and the network keep all of it, for any number of
\* clients and servers, whenever main makes one call per client.
THEOREM SystemInvariant == UsedOnce => (System => []Inv)
<1> SUFFICES ASSUME UsedOnce PROVE System => []Inv
  OBVIOUS
<1>1. SystemInit => Inv
  BY SystemInitInvariant
<1> QED
  BY <1>1, SystemNextInvariant, PTL DEF System

-----------------------------------------------------------------------------
(* The properties.                                                         *)

\* What the clients, run by udp_client.cpp, and the network do to a server is
\* what UdpEchoServer assumes of its environment, however long the messages
\* and whatever is lost.
THEOREM ServersServed == UsedOnce => (System => ServersServe)
<1> SUFFICES ASSUME UsedOnce PROVE System => ServersServe
  OBVIOUS
<1>1. SystemInit => Srv!Init
  BY DEF SystemInit, Init, Srv!Init
<1>2. Inv /\ [SystemNext]_system => [Srv!Next]_(Srv!vars)
  <2>1. CASE SystemNext
    BY <2>1, ServersNext DEF Inv
  <2>2. CASE UNCHANGED system
    BY <2>2 DEF system, clients, servers, sending, Srv!vars, Srv!netVars,
       Srv!serverVars
  <2> QED
    BY <2>1, <2>2
<1> QED
  BY <1>1, <1>2, SystemInvariant, PTL DEF System, ServersServe, Srv!Spec

\* So the servers of the system implement the echo service: every request they
\* take is answered at most once, to its client, or dropped.
THEOREM SystemEchoes == UsedOnce => (System => SrvP!EchoesRequests)
<1>1. Srv!Init => SrvP!Init
  BY DEF Srv!Init, SrvP!Init, Srv!ServerInit, SrvP!ServerInit
<1>2. ServersServe => SrvP!Spec
  BY <1>1, SameNext, PTL DEF ServersServe, Srv!Spec, SrvP!Spec
<1>3. SrvP!Spec => SrvP!EchoesRequests
  BY SrvP!Refinement, ServersAssumed
<1> QED
  BY <1>2, <1>3, ServersServed

LEMMA FewCounted ==
  ASSUME NEW S, AtMostOne(S)
  PROVE  Cardinality(S) = IF S = {} THEN 0 ELSE 1
<1>1. CASE S = {}
  BY <1>1, FS_EmptySet
<1>2. CASE S # {}
  <2>1. PICK e : e \in S
    BY <1>2
  <2>2. S = {e}
    BY <2>1 DEF AtMostOne
  <2> QED
    BY <2>2, FS_Singleton
<1> QED
  BY <1>1, <1>2

LEMMA StageIsToken ==
  ASSUME Inv, NEW c \in Clients, NEW k \in Stages, At(c, k)
  PROVE  Tokens(c) = IF k = "nowhere" THEN 0 ELSE 1
<1> DEFINE S == {i \in DOMAIN script : script[i].client = c}
           P == {i \in DOMAIN posted : posted[i].client = c}
           N == {d \in net : c \in {d.src, d.dst}}
<1> USE DEF Inv
<1>1. Exchange(c)
  BY DEF Flow
<1>2. /\ Cardinality(S) = IF S = {} THEN 0 ELSE 1
      /\ Cardinality(P) = IF P = {} THEN 0 ELSE 1
      /\ (S # {} \/ P # {}) <=> k = "called"
      /\ S = {} \/ P = {}
  <2>1. AtMostOne(S) /\ AtMostOne(P) /\ (S = {} \/ P = {})
    BY DEF Once, CallsLeft, Distinct, AtMostOne
  <2>2. (S # {} \/ P # {}) <=> k = "called"
    BY DEF Pending, At
  <2> QED
    BY <2>1, <2>2, FewCounted
<1>3. Cardinality(N) = IF k \in {"asking", "answered"} THEN 1 ELSE 0
  <2>1. N = Asks(c) \cup Answers(c)
    BY DEF Asks, Answers
  <2>2. AtMostOne(N)
    BY <1>1, <2>1 DEF Exchange, At, AtMostOne
  <2>3. N # {} <=> k \in {"asking", "answered"}
    BY <2>1 DEF At
  <2> QED
    BY <2>2, <2>3, FewCounted
<1>4. Cardinality(Holds(c)) = IF k = "held" THEN 1 ELSE 0
  BY <1>1, FewCounted DEF Exchange, At
<1>5. Cardinality(Results(c)) = IF k = "taken" THEN 1 ELSE 0
  <2>1. recvd[c] = <<>> \/ DOMAIN recvd[c] = {1}
    BY <1>1, Activity DEF Covered, Exchange
  <2>2. AtMostOne(Results(c))
    BY <2>1, ShortSeqs DEF AtMostOne, Results
  <2> QED
    BY <2>2, FewCounted DEF At
<1>6. /\ Len(tx[c]) = IF k = "sending" THEN 1 ELSE 0
      /\ Len(shown[c]) = IF k = "shown" THEN 1 ELSE 0
  <2>1. /\ tx[c] = <<>> \/ (tx[c] \in Seq(SendOp) /\ DOMAIN tx[c] = {1})
        /\ shown[c] = <<>> \/ Len(shown[c]) = 1
    BY <1>1, Activity DEF Covered, Exchange, TypeOK
  <2>2. Len(tx[c]) = IF tx[c] = <<>> THEN 0 ELSE 1
    <3>1. \A n \in Nat : 1..n = {1} => n = 1
      <4> SUFFICES ASSUME NEW n \in Nat, 1..n = {1} PROVE n = 1
        OBVIOUS
      <4>1. 1 \in 1..n /\ (n > 1 => n \in 1..n)
        OBVIOUS
      <4> QED
        BY <4>1
    <3>2. ASSUME tx[c] # <<>> PROVE Len(tx[c]) = 1
      <4>1. Len(tx[c]) \in Nat /\ DOMAIN tx[c] = 1..Len(tx[c])
        BY <2>1, <3>2, LenProperties
      <4> QED
        BY <2>1, <3>1, <3>2, <4>1
    <3> QED
      BY <3>2, ShortSeqs
  <2>3. Len(shown[c]) = IF shown[c] = <<>> THEN 0 ELSE 1
    BY <2>1, ShortSeqs
  <2> QED
    BY <2>2, <2>3 DEF At
<1>7. Tokens(c) = Cardinality(S) + Cardinality(P) + Len(tx[c]) + Len(shown[c])
                  + Cardinality(N) + Cardinality(Results(c)) + Cardinality(Holds(c))
  BY SameHeld DEF Tokens, Results, Holds
<1>8. Cardinality(S) + Cardinality(P) = IF k = "called" THEN 1 ELSE 0
  BY <1>2
<1>9. k \in {"called", "sending", "asking", "held", "answered", "taken", "shown",
             "nowhere"}
  BY DEF Stages
<1> HIDE DEF S, P, N
<1> QED
  BY <1>2, <1>3, <1>4, <1>5, <1>6, <1>7, <1>8, <1>9

\* No client's exchange is ever in two places, so no request is sent, served
\* or shown twice; and it is always somewhere, unless the network loses
\* datagrams or a message is one the servers do not answer.
THEOREM ExchangedOnce ==
  UsedOnce /\ (Lossy \/ Fits) => (System => []OneExchange)
<1> SUFFICES ASSUME UsedOnce, Lossy \/ Fits PROVE System => []OneExchange
  OBVIOUS
<1>1. Inv => OneExchange
  <2> SUFFICES ASSUME Inv, NEW c \in Clients, CallOf(c) # {}
               PROVE  Tokens(c) <= 1 /\ (Lossy \/ Tokens(c) = 1)
    BY DEF OneExchange
  <2>1. PICK k \in Stages : At(c, k)
    BY DEF Inv, Flow, Exchange
  <2>2. k = "nowhere" => Lossy
    BY <2>1 DEF At, MayFail
  <2>3. Tokens(c) = IF k = "nowhere" THEN 0 ELSE 1
    BY <2>1, StageIsToken
  <2> QED
    BY <2>2, <2>3
<1> QED
  BY <1>1, SystemInvariant, PTL

-----------------------------------------------------------------------------
(* What the exchange carries.                                              *)

\* main gives each client a port of its own (udp_client.cpp:214-216).
OwnServers == \A b, c \in Clients : Server[b] = Server[c] => b = c

\* Bytes of the text of client c, unless they were freed before they were read.
Genuine(b, c) == b = TextOf(c) \/ (b = Garbage /\ FALSE \in CopiesEarly)

\* How much of its request a client is sent back.
Kept(c) == AtMost(MessageFor(c).len, MaxLength)

GenuineSends ==
  \A c \in Clients : \A i \in DOMAIN tx[c] :
    tx[c][i].bytes = "freed" => FALSE \in CopiesEarly

GenuineNet ==
  \A d \in net : /\ d.src \in Clients => Genuine(d.body, d.src)
                 /\ d.dst \in Clients => Genuine(d.body, d.dst)

\* A held request is the client's, and still in its server's buffer.
GenuineHeld ==
  \A r \in SrvP!Held :
    Genuine(r.body, r.src) /\ r.dst = Server[r.src] /\ sdata[r.dst] = r.body

GenuineReply(c) ==
  /\ \A i \in Results(c) : /\ TextOf(c) \in Texts /\ Genuine(data[c], c)
                           /\ recvd[c][i].bytes = Kept(c)
  /\ \A i \in DOMAIN shown[c] : /\ Genuine(shown[c][i].text, c)
                                /\ shown[c][i].bytes = Kept(c)
                                /\ bodyLength[c] = Kept(c) - HeaderLength
  /\ shown[c] = <<>> => bodyLength[c] = 0

\* A server clears its buffer after it is done with its only client.
DoneServers ==
  \A s \in Others : swiping[s] \/ ssent[s] > 0 =>
    \A c \in Clients : Server[c] = s => Past(c)

Content ==
  /\ GenuineSends
  /\ GenuineNet
  /\ GenuineHeld
  /\ \A c \in Clients : GenuineReply(c)
  /\ DoneServers

LEMMA PastStays ==
  ASSUME Inv, SystemNext PROVE \A b \in Clients : Past(b) => Past(b)'
<1> USE DEF Inv
<1>1. CASE MainStep
  <2>1. Once'
    BY <1>1, ClientsNext, NextOnce DEF Covered
  <2> QED
    BY <1>1, <2>1, SendMessageFlow, DoWriteFlow DEF MainStep, FlowStep
<1>2. ASSUME NEW c \in Clients, ClientStep(c) PROVE FlowStep
  BY <1>2, ClientStepFlow
<1>3. ASSUME NEW s \in Others, ServerStep(s) PROVE FlowStep
  BY <1>3, ServerStepFlow
<1>4. ASSUME NEW d \in net, LoseStep(d) PROVE FlowStep
  BY <1>4, LoseStepFlow
<1> QED
  BY <1>1, <1>2, <1>3, <1>4 DEF SystemNext, FlowStep

\* A step of a program on which the servers have no part.
LEMMA ClientContent ==
  ASSUME Inv, Content, SystemNext, UNCHANGED servers,
         GenuineSends', GenuineNet', \A c \in Clients : GenuineReply(c)'
  PROVE  Content'
<1>1. GenuineHeld'
  BY HeldKept DEF Content, GenuineHeld, Genuine, servers
<1>2. DoneServers'
  BY PastStays DEF Content, DoneServers, servers
<1> QED
  BY <1>1, <1>2 DEF Content

LEMMA SameReply ==
  ASSUME NEW c, GenuineReply(c), recvd'[c] = recvd[c], data'[c] = data[c],
         shown'[c] = shown[c], bodyLength'[c] = bodyLength[c]
  PROVE  GenuineReply(c)'
  BY DEF GenuineReply, Results, Genuine, Kept, MessageFor

LEMMA SendMessageContent ==
  ASSUME Inv, Content, SystemNext, SendMessage, UNCHANGED servers PROVE Content'
<1>1. UNCHANGED <<sending, receiving, network>>
  BY DEF SendMessage
<1>2. GenuineSends' /\ GenuineNet'
  BY <1>1 DEF Content, GenuineSends, GenuineNet, Genuine, sending, network
<1>3. \A c \in Clients : GenuineReply(c)'
  BY <1>1, SameReply DEF Content, receiving
<1> QED
  BY <1>2, <1>3, ClientContent

LEMMA DoWriteContent ==
  ASSUME Inv, Content, SystemNext, DoWrite, UNCHANGED servers PROVE Content'
<1>1. /\ posted # <<>> /\ UNCHANGED <<receiving, network>>
  BY DEF DoWrite
<1>2. Head(posted) \in [client: Clients, msg: Message]
  <2> DEFINE P == [client: Clients, msg: Message]
  <2>1. posted \in Seq(P)
    BY DEF Inv, Covered, TypeOK
  <2> HIDE DEF P
  <2>2. Head(posted) \in P
    BY <1>1, <2>1, TailSeq
  <2> QED
    BY <2>2 DEF P
<1>3. PICK c \in Clients : c = Head(posted).client
  BY <1>2
<1>4. PICK copied \in CopiesEarly :
        AsyncSendTo(c, tx[c], sent[c],
          [msg |-> Head(posted).msg, to |-> endpoint[c],
           bytes |-> IF copied THEN "copied" ELSE "freed"])
  BY <1>3 DEF DoWrite
<1> DEFINE op == [msg |-> Head(posted).msg, to |-> endpoint[c],
                  bytes |-> IF copied THEN "copied" ELSE "freed"]
<1>5. /\ op.bytes = "freed" => FALSE \in CopiesEarly
      /\ tx' = [tx EXCEPT ![c] = Append(tx[c], op)] \/ tx' = [tx EXCEPT ![c] = tx[c]]
  <2>1. CopiesEarly \subseteq BOOLEAN
    BY ClientAssumption
  <2>2. op.bytes = "freed" => FALSE \in CopiesEarly
    BY <2>1
  <2> QED
    BY <1>4, <2>2 DEF AsyncSendTo
<1> HIDE DEF op
<1>6. tx[c] = <<>> /\ tx \in [Clients -> Seq(SendOp)]
  <2>1. Pending(c)
    <3>1. 1 \in DOMAIN posted /\ Head(posted) = posted[1]
      <4> DEFINE P == [client: Clients, msg: Message]
      <4>1. posted \in Seq(P)
        BY DEF Inv, Covered, TypeOK
      <4> HIDE DEF P
      <4>2. Len(posted) \in Nat \ {0} /\ Head(posted) = posted[1]
        BY <1>1, <4>1, TailSeq
      <4> QED
        BY <4>1, <4>2, LenProperties
    <3> QED
      BY <1>3, <3>1 DEF Pending
  <2> QED
    BY <2>1 DEF Inv, Once, Untouched, Covered, TypeOK
<1>7. GenuineSends'
  <2>1. \A b \in Clients \ {c} : tx'[b] = tx[b]
    BY <1>5, <1>6
  <2>2. tx'[c] = <<op>> \/ tx'[c] = <<>>
    BY <1>5, <1>6, ShortSeqs
  <2>3. \A i \in DOMAIN tx'[c] : tx'[c][i] = op
    BY <2>2, ShortSeqs
  <2> QED
    BY <1>5, <2>1, <2>3 DEF Content, GenuineSends
<1>8. GenuineNet'
  BY <1>1 DEF Content, GenuineNet, Genuine, network
<1>9. \A b \in Clients : GenuineReply(b)'
  BY <1>1, SameReply DEF Content, receiving
<1> QED
  BY <1>7, <1>8, <1>9, ClientContent

\* The sends of a client other than c are the same, and c has none left.
LEMMA NoSendGenuine ==
  ASSUME Content, NEW c \in Clients, tx'[c] = <<>>,
         \A b \in Clients \ {c} : tx'[b] = tx[b]
  PROVE  GenuineSends'
<1>1. DOMAIN tx'[c] = {}
  BY ShortSeqs
<1> QED
  BY <1>1 DEF Content, GenuineSends

\* The request leaves with the bytes of its text, unless they were freed.
LEMMA SendLeavesContent ==
  ASSUME Inv, Content, SystemNext, NEW c \in Clients, SendLeaves(c),
         UNCHANGED servers
  PROVE  Content'
<1> DEFINE op == Head(tx[c])
<1>1. /\ tx[c] # <<>> /\ tx' = [tx EXCEPT ![c] = Tail(@)]
      /\ UNCHANGED <<receiving>>
  BY DEF SendLeaves
<1>2. op = tx[c][1] /\ Tail(tx[c]) = <<>> /\ DOMAIN tx[c] = {1}
  BY <1>1, Activity DEF Inv, Covered, Flow, Exchange
<1>3. op.msg = MessageFor(c) /\ (op.bytes = "freed" => FALSE \in CopiesEarly)
  BY <1>2 DEF Inv, Flow, Exchange, Content, GenuineSends
<1>4. op.msg.text = TextOf(c) /\ op.to \notin Clients
  <2>1. op.to \in Others
    BY <1>1, MessageLength DEF Inv
  <2> QED
    BY <1>3, <2>1, ClientAssumption DEF MessageFor, MessageOf
<1>5. PICK d : /\ net' = net \cup {d} /\ d.src = c /\ d.dst \notin Clients
               /\ Genuine(d.body, c)
  <2> DEFINE D(b) == [src |-> c, dst |-> op.to, id |-> count[c] + 1,
                      body |-> b, len |-> op.msg.len]
  <2>1. PICK b \in IF op.bytes = "freed" THEN {op.msg.text, Garbage}
                                         ELSE {op.msg.text} :
          net' = net \cup {D(b)}
    BY DEF SendLeaves
  <2>2. D(b).src = c /\ D(b).dst = op.to /\ D(b).body = b
    OBVIOUS
  <2>3. Genuine(b, c)
    BY <1>3, <1>4, <2>1 DEF Genuine
  <2> HIDE DEF D, op
  <2> QED
    BY <1>4, <2>1, <2>2, <2>3
<1>6. GenuineNet'
  BY <1>5 DEF Content, GenuineNet, Genuine
<1>7. GenuineSends'
  BY <1>1, <1>2, NoSendGenuine DEF Inv, Covered, TypeOK
<1>8. \A b \in Clients : GenuineReply(b)'
  BY <1>1, SameReply DEF Content, receiving
<1> QED
  BY <1>6, <1>7, <1>8, ClientContent

LEMMA SendFailsContent ==
  ASSUME Inv, Content, SystemNext, NEW c \in Clients, SendFails(c), UNCHANGED servers
  PROVE  Content'
<1>1. /\ tx[c] # <<>> /\ tx' = [tx EXCEPT ![c] = Tail(@)]
      /\ UNCHANGED <<receiving, network>>
  BY DEF SendFails
<1>2. Tail(tx[c]) = <<>>
  BY <1>1, Activity DEF Inv, Covered, Flow, Exchange
<1>3. GenuineSends'
  BY <1>1, <1>2, NoSendGenuine DEF Inv, Covered, TypeOK
<1>4. GenuineNet'
  BY <1>1 DEF Content, GenuineNet, Genuine, network
<1>5. \A b \in Clients : GenuineReply(b)'
  BY <1>1, SameReply DEF Content, receiving
<1> QED
  BY <1>3, <1>4, <1>5, ClientContent

\* A step that leaves the sends of every client, and no datagram more.
LEMMA FewerGenuine ==
  ASSUME Content, tx' = tx, net' \subseteq net PROVE GenuineSends' /\ GenuineNet'
  BY DEF Content, GenuineSends, GenuineNet, Genuine

LEMMA KernelReceiveContent ==
  ASSUME Inv, Content, SystemNext, NEW c \in Clients, KernelReceive(c),
         UNCHANGED servers
  PROVE  Content'
<1>1. /\ rx[c] > 0 /\ UNCHANGED <<tx, shown, bodyLength>>
  BY DEF KernelReceive, sending
<1>2. PICK d \in net, e \in BOOLEAN :
        /\ d.dst = c /\ net' = net \ {d}
        /\ data' = [data EXCEPT ![c] = d.body]
        /\ recvd' = [recvd EXCEPT ![c] = Append(@,
                       [error |-> e, bytes |-> AtMost(d.len, MaxMessage)])]
  BY DEF KernelReceive
<1> DEFINE h == [error |-> e, bytes |-> AtMost(d.len, MaxMessage)]
<1>3. recvd' = [recvd EXCEPT ![c] = Append(@, h)] /\ h.bytes = AtMost(d.len, MaxMessage)
  BY <1>2
<1> HIDE DEF h
<1>4. recvd[c] = <<>> /\ shown[c] = <<>>
  BY <1>1, Activity DEF Inv, Covered, Flow, Exchange
<1>5. h.bytes = Kept(c) /\ TextOf(c) \in Texts
  <2>1. IsAnswer(d)
    BY <1>2, ClientAssumption DEF Inv, Flow, Shapes, IsRequest
  <2>2. d.len \in Nat /\ d.len <= MaxMessage /\ MaxMessage \in Nat
    BY <2>1, AnswerFits, ClientAssumption DEF MaxMessage
  <2>3. AtMost(d.len, MaxMessage) = d.len
    BY <2>2 DEF AtMost
  <2>4. d.len = AtMost(MessageFor(c).len, MaxLength)
    BY <1>2, <2>1 DEF IsAnswer
  <2> QED
    BY <1>2, <1>3, <2>1, <2>3, <2>4 DEF Kept, IsAnswer
<1>6. Genuine(d.body, c)
  BY <1>2 DEF Content, GenuineNet
<1>7. /\ recvd'[c] = <<h>> /\ data'[c] = d.body
      /\ \A b \in Clients \ {c} : recvd'[b] = recvd[b] /\ data'[b] = data[b]
  BY <1>2, <1>3, <1>4, ShortSeqs DEF Inv, Covered, TypeOK
<1>8. GenuineReply(c)'
  <2>1. /\ DOMAIN recvd'[c] = {1} /\ recvd'[c][1] = h /\ DOMAIN shown'[c] = {}
    BY <1>1, <1>4, <1>7, ShortSeqs
  <2>2. \A i \in Results(c)' : /\ TextOf(c) \in Texts /\ Genuine(data'[c], c)
                              /\ recvd'[c][i].bytes = Kept(c)
    BY <1>5, <1>6, <1>7, <2>1 DEF Results
  <2>3. bodyLength'[c] = 0
    BY <1>1, <1>4 DEF Content, GenuineReply
  <2> QED
    BY <2>1, <2>2, <2>3 DEF GenuineReply, Genuine, Kept, MessageFor
<1>9. \A b \in Clients \ {c} : GenuineReply(b)'
  BY <1>1, <1>7, SameReply DEF Content
<1>10. net' \subseteq net
  BY <1>2
<1> QED
  BY <1>1, <1>8, <1>9, <1>10, FewerGenuine, ClientContent

\* The results of a client other than c are the same, and c has none.
LEMMA NoResultGenuine ==
  ASSUME Content, NEW c \in Clients, Results(c)' = {},
         UNCHANGED <<data, shown, bodyLength>>,
         \A b \in Clients \ {c} : recvd'[b] = recvd[b]
  PROVE  \A b \in Clients : GenuineReply(b)'
<1>1. GenuineReply(c)'
  <2>1. GenuineReply(c)
    BY DEF Content
  <2> QED
    BY <2>1 DEF GenuineReply, Genuine, Kept, MessageFor
<1>2. \A b \in Clients \ {c} : GenuineReply(b)'
  BY SameReply DEF Content
<1> QED
  BY <1>1, <1>2

LEMMA KernelReceiveErrorContent ==
  ASSUME Inv, Content, SystemNext, NEW c \in Clients, KernelReceiveError(c),
         UNCHANGED servers
  PROVE  Content'
<1> DEFINE e == [error |-> TRUE, bytes |-> 0]
<1>1. /\ rx[c] > 0 /\ recvd' = [recvd EXCEPT ![c] = Append(@, e)]
      /\ UNCHANGED <<tx, net, data, shown, bodyLength>>
  BY DEF KernelReceiveError, sending, network
<1>2. e.error = TRUE
  OBVIOUS
<1> HIDE DEF e
<1>3. recvd[c] = <<>>
  BY <1>1, Activity DEF Inv, Covered, Flow, Exchange
<1>4. recvd'[c] = <<e>> /\ \A b \in Clients \ {c} : recvd'[b] = recvd[b]
  BY <1>1, <1>3, ShortSeqs DEF Inv, Covered, TypeOK
<1>5. Results(c)' = {}
  BY <1>2, <1>4, ShortSeqs DEF Results
<1> QED
  BY <1>1, <1>4, <1>5, NoResultGenuine, FewerGenuine, ClientContent

LEMMA SendSucceededContent ==
  ASSUME Inv, Content, SystemNext, NEW c \in Clients, sent[c] # <<>>,
         SendSucceeded(c), UNCHANGED servers
  PROVE  Content'
<1> DEFINE e == [error |-> TRUE, bytes |-> 0]
<1>1. /\ recvd' = recvd \/ recvd' = [recvd EXCEPT ![c] = Append(@, e)]
      /\ UNCHANGED <<net, data, shown, bodyLength>>
  BY DEF SendSucceeded, RecvMessage, network
<1>2. e.error = TRUE
  OBVIOUS
<1> HIDE DEF e
<1>3. recvd[c] = <<>> /\ tx[c] = <<>>
  BY Activity DEF Inv, Covered, Flow, Exchange
<1>4. tx' = [tx EXCEPT ![c] = PopFrees(@)]
  <2>1. Len(queue[c]) = 1 /\ queue[c] \in Seq(Message)
    BY OneOnly DEF Inv, Once, Covered, TypeOK
  <2>2. Tail(queue[c]) = <<>>
    BY <2>1, EmptyOrNot
  <2> QED
    BY <2>2 DEF SendSucceeded
<1>5. GenuineSends'
  <2>1. PopFrees(<<>>) = <<>>
    BY DEF PopFrees
  <2> QED
    BY <1>3, <1>4, <2>1, NoSendGenuine DEF Inv, Covered, TypeOK
<1>6. /\ recvd'[c] = <<>> \/ recvd'[c] = <<e>>
      /\ \A b \in Clients \ {c} : recvd'[b] = recvd[b]
  BY <1>1, <1>3, ShortSeqs DEF Inv, Covered, TypeOK
<1>7. Results(c)' = {}
  BY <1>2, <1>6, ShortSeqs DEF Results
<1>8. GenuineNet'
  BY <1>1 DEF Content, GenuineNet, Genuine
<1> QED
  BY <1>1, <1>5, <1>6, <1>7, <1>8, NoResultGenuine, ClientContent

LEMMA ClosedContent ==
  ASSUME Inv, Content, SystemNext, NEW c \in Clients,
         NEW done, Close(c, done, <<>>), rx[c] = 0, UNCHANGED servers,
         UNCHANGED <<net, data, shown, bodyLength>>
  PROVE  Content'
<1> DEFINE es == [i \in 1..rx[c] |-> [error |-> TRUE, bytes |-> 0]]
<1>1. es = <<>> /\ <<>> \o <<>> = <<>>
  BY ShortSeqs
<1>2. tx' = [tx EXCEPT ![c] = <<>>] /\ recvd' = [recvd EXCEPT ![c] = <<>> \o es]
  BY DEF Close
<1> HIDE DEF es
<1>3. recvd' = [recvd EXCEPT ![c] = <<>>]
  BY <1>1, <1>2
<1>4. GenuineSends'
  BY <1>2, NoSendGenuine DEF Inv, Covered, TypeOK
<1>5. recvd'[c] = <<>> /\ \A b \in Clients \ {c} : recvd'[b] = recvd[b]
  BY <1>3 DEF Inv, Covered, TypeOK
<1>6. Results(c)' = {}
  BY <1>5, ShortSeqs DEF Results
<1>7. GenuineNet'
  BY DEF Content, GenuineNet, Genuine
<1> QED
  BY <1>4, <1>5, <1>6, <1>7, NoResultGenuine, ClientContent

LEMMA KeptRange ==
  ASSUME NEW c, TextOf(c) \in Texts
  PROVE  /\ Kept(c) \in Nat /\ Kept(c) >= HeaderLength
         /\ Kept(c) - HeaderLength <= MaxBody
<1> DEFINE t == TextLength[TextOf(c)]
           b == AtMost(t, MaxBody)
<1>1. /\ t \in Nat /\ HeaderLength \in Nat /\ MaxBody \in Nat /\ MaxLength \in Nat
      /\ HeaderLength <= MaxLength
  BY ClientAssumption, EchoAssumption
<1>2. b \in Nat /\ b <= MaxBody
  BY <1>1 DEF AtMost
<1>3. MessageFor(c).len = HeaderLength + b
  BY DEF MessageFor, MessageOf
<1>4. Kept(c) = IF HeaderLength + b > MaxLength THEN MaxLength ELSE HeaderLength + b
  BY <1>3 DEF Kept, AtMost
<1> HIDE DEF b, t
<1> QED
  BY <1>1, <1>2, <1>4

\* What is shown is what was taken, and the length is set to that of its text.
LEMMA ReceiveSucceededContent ==
  ASSUME Inv, Content, SystemNext, NEW c \in Clients, recvd[c] # <<>>,
         ~Head(recvd[c]).error, ReceiveSucceeded(c), UNCHANGED servers
  PROVE  Content'
<1> DEFINE n == Head(recvd[c]).bytes
           m == [text |-> data[c], bytes |-> n]
<1>1. /\ shown' = [shown EXCEPT ![c] = Append(@, m)]
      /\ IF n > HeaderLength
         THEN bodyLength' = [bodyLength EXCEPT ![c] = AtMost(n - HeaderLength, MaxBody)]
         ELSE UNCHANGED bodyLength
      /\ recvd' = [recvd EXCEPT ![c] = Tail(@)]
      /\ UNCHANGED <<tx, net, data>>
  BY DEF ReceiveSucceeded, sending, network
<1>2. /\ shown[c] = <<>> /\ Tail(recvd[c]) = <<>> /\ DOMAIN recvd[c] = {1}
      /\ Head(recvd[c]) = recvd[c][1]
  BY Activity DEF Inv, Covered, Flow, Exchange
<1>3. 1 \in Results(c)
  BY <1>2 DEF Results
<1>4. TextOf(c) \in Texts /\ Genuine(data[c], c) /\ n = Kept(c)
  BY <1>2, <1>3 DEF Content, GenuineReply
<1>5. m.text = data[c] /\ m.bytes = n
  OBVIOUS
<1> HIDE DEF m, n
<1>6. /\ recvd'[c] = <<>> /\ shown'[c] = <<m>>
      /\ \A b \in Clients \ {c} : /\ recvd'[b] = recvd[b] /\ shown'[b] = shown[b]
                                 /\ bodyLength'[b] = bodyLength[b]
  BY <1>1, <1>2, ShortSeqs DEF Inv, Covered, TypeOK
<1>7. bodyLength'[c] = Kept(c) - HeaderLength
  <2>1. /\ Kept(c) \in Nat /\ Kept(c) >= HeaderLength
        /\ Kept(c) - HeaderLength <= MaxBody /\ HeaderLength \in Nat /\ MaxBody \in Nat
    BY <1>4, KeptRange, ClientAssumption
  <2>2. bodyLength[c] = 0 /\ bodyLength \in [Clients -> 0..MaxBody]
    BY <1>2 DEF Content, GenuineReply, Inv, Covered, TypeOK
  <2>3. CASE n > HeaderLength
    <3>1. bodyLength'[c] = AtMost(n - HeaderLength, MaxBody)
      BY <1>1, <2>2, <2>3
    <3> QED
      BY <1>4, <2>1, <3>1 DEF AtMost
  <2>4. CASE ~(n > HeaderLength)
    <3>1. bodyLength'[c] = 0
      BY <1>1, <2>2, <2>4
    <3> QED
      BY <1>4, <2>1, <2>4, <3>1
  <2> QED
    BY <2>3, <2>4
<1>8. GenuineReply(c)'
  <2>1. /\ DOMAIN recvd'[c] = {} /\ DOMAIN shown'[c] = {1} /\ shown'[c][1] = m
        /\ shown'[c] # <<>>
    BY <1>6, ShortSeqs
  <2>2. Results(c)' = {}
    BY <2>1 DEF Results
  <2> QED
    BY <1>4, <1>5, <1>7, <2>1, <2>2 DEF GenuineReply, Genuine, Kept, MessageFor
<1>9. \A b \in Clients \ {c} : GenuineReply(b)'
  BY <1>1, <1>6, SameReply DEF Content
<1> QED
  BY <1>1, <1>8, <1>9, FewerGenuine, ClientContent

LEMMA ClientStepContent ==
  ASSUME Inv, Content, SystemNext, NEW c \in Clients, ClientStep(c) PROVE Content'
<1>1. Exchange(c) /\ UNCHANGED servers
  BY DEF Inv, Flow, ClientStep
<1>2. CASE sent[c] # <<>> /\ SendSucceeded(c)
  BY <1>1, <1>2, SendSucceededContent
<1>3. CASE sent[c] # <<>> /\ PopsEmptyQueue(c)
  BY <1>3, PopsEmptyQueueOnce DEF Inv, Covered
<1>4. CASE sent[c] # <<>> /\ SendFailed(c)
  <2>1. rx[c] = 0 /\ recvd[c] = <<>>
    BY <1>1, <1>4, Activity DEF Inv, Covered, Exchange
  <2>2. /\ Close(c, Tail(sent[c]), <<>>)
        /\ UNCHANGED <<net, data, shown, bodyLength>>
    BY <1>4, <2>1 DEF SendFailed, network
  <2> QED
    BY <1>1, <2>1, <2>2, ClosedContent
<1>5. CASE recvd[c] # <<>> /\ ReceiveFailed(c)
  <2>1. rx[c] = 0 /\ Tail(recvd[c]) = <<>>
    BY <1>1, <1>5, Activity DEF Inv, Covered, Exchange
  <2>2. /\ Close(c, sent[c], <<>>)
        /\ UNCHANGED <<net, data, shown, bodyLength>>
    BY <1>5, <2>1 DEF ReceiveFailed, network
  <2> QED
    BY <1>1, <2>1, <2>2, ClosedContent
<1>6. CASE recvd[c] # <<>> /\ ~Head(recvd[c]).error /\ ReceiveSucceeded(c)
  BY <1>1, <1>6, ReceiveSucceededContent
<1>7. CASE Handler(c)
  BY <1>2, <1>3, <1>4, <1>5, <1>6, <1>7 DEF Handler, HandleSendTo, HandleReceiveFrom
<1> QED
  BY <1>1, <1>7, SendLeavesContent, SendFailsContent, KernelReceiveContent,
     KernelReceiveErrorContent DEF ClientStep

LEMMA LoseStepContent ==
  ASSUME Inv, Content, SystemNext, NEW d \in net, LoseStep(d) PROVE Content'
<1>1. UNCHANGED <<servers, tx, receiving>> /\ net' \subseteq net
  BY DEF LoseStep, Vanish, Refuse, sending
<1>2. \A c \in Clients : GenuineReply(c)'
  BY <1>1, SameReply DEF Content, receiving
<1> QED
  BY <1>1, <1>2, FewerGenuine, ClientContent

-----------------------------------------------------------------------------
LEMMA HeldByDst ==
  ASSUME SrvP!IInv, NEW s \in Others, NEW r \in SrvP!Held, r.dst = s
  PROVE  r \in SrvP!HeldBy(s)
<1>1. PICK t \in Others : r \in SrvP!HeldBy(t)
  BY DEF SrvP!Held
<1>2. r.dst = t
  BY <1>1 DEF SrvP!IInv, SrvP!BuffersMatchRequest, SrvP!HeldBy
<1> QED
  BY <1>1, <1>2

\* A server that may clear its buffer holds no request.
LEMMA DoneHoldsNone ==
  ASSUME Content, NEW s \in Others, swiping[s] \/ ssent[s] > 0, NEW r \in SrvP!Held,
         IsRequest(r)
  PROVE  r.dst # s
<1>1. r \in Holds(r.src) /\ r.src \in Clients
  BY DEF Holds, IsRequest
<1>2. ~Past(r.src)
  BY <1>1 DEF Past
<1> QED
  BY <1>1, <1>2 DEF Content, DoneServers, GenuineHeld

\* A step of a server, as far as its client can tell.
LEMMA ServerContent ==
  ASSUME Content, UNCHANGED clients, GenuineNet', GenuineHeld', DoneServers'
  PROVE  Content'
<1>1. UNCHANGED <<tx, recvd, data, shown, bodyLength>>
  BY DEF clients, sending, receiving
<1>2. GenuineSends'
  BY <1>1 DEF Content, GenuineSends
<1>3. \A c \in Clients : GenuineReply(c)'
  BY <1>1, SameReply DEF Content
<1> QED
  BY <1>2, <1>3 DEF Content

LEMMA ServerReceivesContent ==
  ASSUME Inv, Content, SystemNext, UNCHANGED clients, NEW s \in Others,
         SrvP!KernelReceive(s)
  PROVE  Content'
<1> USE DEF Inv
<1>1. PICK d \in net : /\ d.dst = s /\ net' = net \ {d} /\ SrvP!HeldBy(s) = {}
                       /\ SrvP!HeldBy(s)' = {d} /\ SrvP!Held' = SrvP!Held \cup {d}
  BY SrvP!TakesRequest, ServersAssumed
<1>2. IsRequest(d)
  BY <1>1, ClientAssumption DEF Flow, Shapes, IsAnswer
<1>3. Genuine(d.body, d.src) /\ d.dst = Server[d.src]
  BY <1>2 DEF IsRequest, Content, GenuineNet, Once, ToServer
<1>4. sdata' = [sdata EXCEPT ![s] = d.body]
  <2>1. PICK g \in net : /\ g.dst = s /\ net' = net \ {g}
                         /\ sdata' = [sdata EXCEPT ![s] = g.body]
    BY DEF SrvP!KernelReceive
  <2>2. g = d
    BY <1>1, <2>1
  <2> QED
    BY <2>1, <2>2
<1>5. GenuineHeld'
  <2> SUFFICES ASSUME NEW r \in SrvP!Held'
               PROVE  /\ Genuine(r.body, r.src) /\ r.dst = Server[r.src]
                      /\ sdata'[r.dst] = r.body
    BY DEF GenuineHeld, Genuine
  <2>0. sdata \in [Others -> Texts \cup {Garbage} \cup {Zero}]
    BY DEF SrvP!IInv, SrvP!TypeOK
  <2>1. CASE r = d
    BY <1>1, <1>3, <1>4, <2>0, <2>1
  <2>2. CASE r \in SrvP!Held
    <3>1. r.dst # s
      BY <1>1, <2>2, HeldByDst
    <3>2. r.dst \in Others
      BY <2>2 DEF Flow, Shapes, IsRequest
    <3>3. sdata'[r.dst] = sdata[r.dst]
      BY <1>4, <2>0, <3>1, <3>2
    <3> QED
      BY <2>2, <3>3 DEF Content, GenuineHeld
  <2> QED
    BY <1>1, <2>1, <2>2
<1>6. GenuineNet'
  BY <1>1 DEF Content, GenuineNet, Genuine
<1>7. DoneServers'
  <2>1. swiping' = swiping /\ ssent' = ssent
    BY DEF SrvP!KernelReceive
  <2> QED
    BY <2>1, PastStays DEF Content, DoneServers
<1> QED
  BY <1>5, <1>6, <1>7, ServerContent

\* The answer leaves with the bytes of the request, and the server is done.
LEMMA ServerSendsContent ==
  ASSUME Inv, Content, SystemNext, OwnServers, UNCHANGED clients, NEW s \in Others,
         SrvP!KernelSend(s)
  PROVE  Content'
<1> USE DEF Inv
<1>1. PICK r \in SrvP!Held :
        /\ r.dst = s /\ SrvP!Held' = SrvP!Held \ {r}
        /\ SrvP!SendLeaves(s) =>
             net' = net \cup {SrvP!Service!Answer(r, sdata[s])}
        /\ SrvP!SendFails(s) => UNCHANGED net
  BY SrvP!EndsRequest, ServersAssumed
<1> DEFINE a == SrvP!Service!Answer(r, sdata[s])
<1>2. a.src = s /\ a.dst = r.src /\ a.body = sdata[s]
  BY <1>1 DEF SrvP!Service!Answer
<1>3. net' = net \/ net' = net \cup {a}
  BY <1>1 DEF SrvP!KernelSend
<1> HIDE DEF a
<1>4. /\ r.src \in Clients /\ At(r.src, "held") /\ Holds(r.src) \ {r} = {}
      /\ Server[r.src] = s /\ Genuine(sdata[s], r.src) /\ s \notin Clients
  BY <1>1, HeldStage, ClientAssumption DEF Content, GenuineHeld
<1>5. UNCHANGED <<sdata, swiping>> /\ \A t \in Others \ {s} : ssent'[t] = ssent[t]
  BY DEF SrvP!KernelSend, SrvP!SendLeaves, SrvP!SendFails, SrvP!IInv, SrvP!TypeOK
<1>6. GenuineNet'
  BY <1>2, <1>3, <1>4 DEF Content, GenuineNet, Genuine
<1>7. GenuineHeld'
  BY <1>1, <1>5 DEF Content, GenuineHeld, Genuine
<1>8. Past(r.src)'
  <2>1. UNCHANGED <<script, posted, tx>>
    BY DEF clients, control, sending
  <2>2. ~Pending(r.src) /\ tx[r.src] = <<>> /\ Asks(r.src) = {}
    BY <1>4 DEF At
  <2>3. Asks(r.src)' = {}
    BY <1>2, <1>3, <1>4, <2>2 DEF Asks
  <2>4. Holds(r.src)' = {}
    BY <1>1, <1>4, HeldLoses
  <2> QED
    BY <2>1, <2>2, <2>3, <2>4 DEF Past, Pending
<1>9. DoneServers'
  <2> SUFFICES ASSUME NEW t \in Others, swiping'[t] \/ ssent'[t] > 0,
                      NEW c \in Clients, Server[c] = t
               PROVE  Past(c)'
    BY DEF DoneServers
  <2>1. CASE t = s
    BY <1>4, <1>8, <2>1 DEF OwnServers
  <2>2. CASE t # s
    BY <1>5, <2>2, PastStays DEF Content, DoneServers
  <2> QED
    BY <2>1, <2>2
<1> QED
  BY <1>6, <1>7, <1>9, ServerContent

LEMMA ServerHandlesContent ==
  ASSUME Inv, Content, SystemNext, UNCHANGED clients, NEW s \in Others,
         \/ SrvP!HandleReceiveFrom(s) \/ SrvP!HandleSendTo(s)
         \/ SrvP!ClearBuffer(s) \/ SrvP!KernelReceiveError(s)
  PROVE  Content'
<1> USE DEF Inv
<1>1. net' = net /\ GenuineNet'
  <2>1. net' = net
    BY DEF SrvP!HandleReceiveFrom, SrvP!HandleSendTo, SrvP!ClearBuffer,
       SrvP!KernelReceiveError, SrvP!netVars
  <2> QED
    BY <2>1 DEF Content, GenuineNet, Genuine
<1>2. SrvP!Held' \subseteq SrvP!Held
  <2>1. CASE SrvP!HandleReceiveFrom(s)
    BY <2>1, SrvP!BeginsAnswer, ServersAssumed
  <2>2. CASE SrvP!HandleSendTo(s) \/ SrvP!ClearBuffer(s)
    BY <2>2 DEF SrvP!HandleSendTo, SrvP!ClearBuffer, SrvP!Held, SrvP!HeldBy
  <2>3. CASE SrvP!KernelReceiveError(s)
    BY <2>3, SrvP!ErrorTakesNothing, ServersAssumed
  <2> QED
    BY <2>1, <2>2, <2>3
<1>3. CASE SrvP!HandleReceiveFrom(s) \/ SrvP!KernelReceiveError(s)
  <2>1. UNCHANGED <<sdata, swiping, ssent>>
    BY <1>3 DEF SrvP!HandleReceiveFrom, SrvP!KernelReceiveError
  <2>2. GenuineHeld'
    BY <1>2, <2>1 DEF Content, GenuineHeld, Genuine
  <2>3. DoneServers'
    BY <2>1, PastStays DEF Content, DoneServers
  <2> QED
    BY <1>1, <2>2, <2>3, ServerContent
<1>4. CASE SrvP!HandleSendTo(s)
  <2>1. /\ ssent[s] > 0 /\ ssent' = [ssent EXCEPT ![s] = @ - 1]
        /\ swiping' = [swiping EXCEPT ![s] = TRUE] /\ UNCHANGED sdata
    BY <1>4 DEF SrvP!HandleSendTo
  <2>2. \A t \in Others \ {s} : ssent'[t] = ssent[t] /\ swiping'[t] = swiping[t]
    BY <2>1 DEF SrvP!IInv, SrvP!TypeOK
  <2>3. GenuineHeld'
    BY <1>2, <2>1 DEF Content, GenuineHeld, Genuine
  <2>4. DoneServers'
    BY <2>1, <2>2, PastStays DEF Content, DoneServers
  <2> QED
    BY <1>1, <2>3, <2>4, ServerContent
<1>5. CASE SrvP!ClearBuffer(s)
  <2>1. /\ swiping[s] /\ sdata' = [sdata EXCEPT ![s] = Zero]
        /\ swiping' = [swiping EXCEPT ![s] = FALSE] /\ UNCHANGED ssent
    BY <1>5 DEF SrvP!ClearBuffer
  <2>2. \A t \in Others \ {s} : sdata'[t] = sdata[t] /\ swiping'[t] = swiping[t]
    BY <2>1 DEF SrvP!IInv, SrvP!TypeOK
  <2>3. GenuineHeld'
    <3> SUFFICES ASSUME NEW r \in SrvP!Held'
                 PROVE  /\ Genuine(r.body, r.src) /\ r.dst = Server[r.src]
                        /\ sdata'[r.dst] = r.body
      BY DEF GenuineHeld, Genuine
    <3>1. r \in SrvP!Held /\ IsRequest(r)
      BY <1>2 DEF Flow, Shapes
    <3>2. r.dst # s /\ r.dst \in Others
      BY <2>1, <3>1, DoneHoldsNone DEF IsRequest
    <3> QED
      BY <2>2, <3>1, <3>2 DEF Content, GenuineHeld
  <2>4. DoneServers'
    BY <2>1, <2>2, PastStays DEF Content, DoneServers
  <2> QED
    BY <1>1, <2>3, <2>4, ServerContent
<1> QED
  BY <1>3, <1>4, <1>5

LEMMA ServerStepContent ==
  ASSUME Inv, Content, SystemNext, OwnServers, NEW s \in Others, ServerStep(s)
  PROVE  Content'
<1>1. UNCHANGED clients
  BY ServerStepIs
<1>2. CASE SrvP!KernelReceive(s)
  BY <1>1, <1>2, ServerReceivesContent
<1>3. CASE SrvP!SendLeaves(s) \/ SrvP!SendFails(s)
  BY <1>1, <1>3, ServerSendsContent DEF SrvP!KernelSend
<1>4. CASE \/ SrvP!HandleReceiveFrom(s) \/ SrvP!HandleSendTo(s)
           \/ SrvP!ClearBuffer(s) \/ SrvP!KernelReceiveError(s)
  BY <1>1, <1>4, ServerHandlesContent
<1> QED
  BY <1>2, <1>3, <1>4, ServerStepIs

LEMMA ContentNext == OwnServers /\ Inv /\ Content /\ [SystemNext]_system => Content'
<1> SUFFICES ASSUME OwnServers, Inv, Content, [SystemNext]_system PROVE Content'
  OBVIOUS
<1>1. CASE SystemNext
  <2>1. CASE MainStep
    BY <1>1, <2>1, SendMessageContent, DoWriteContent DEF MainStep
  <2> QED
    BY <1>1, <2>1, ClientStepContent, ServerStepContent, LoseStepContent
       DEF SystemNext
<1>2. CASE UNCHANGED system
  <2>1. UNCHANGED <<clients, servers, net>>
    BY <1>2 DEF system
  <2>2. SrvP!Held' = SrvP!Held
    BY <2>1, HeldKept
  <2>3. GenuineNet' /\ GenuineHeld'
    BY <2>1, <2>2 DEF Content, GenuineNet, GenuineHeld, Genuine, servers
  <2>4. \A c \in Clients : Past(c) => Past(c)'
    BY <2>1, <2>2, NetKept, HeldKeeps DEF Past, Pending, clients, control, sending
  <2>5. DoneServers'
    BY <2>1, <2>4 DEF Content, DoneServers, servers
  <2> QED
    BY <2>1, <2>3, <2>5, ServerContent
<1> QED
  BY <1>1, <1>2

LEMMA ContentInit == Inv /\ SystemInit => Content
<1> SUFFICES ASSUME Inv, SystemInit PROVE Content
  OBVIOUS
<1>1. DOMAIN <<>> = {}
  BY ShortSeqs
<1>2. SrvP!Held = {}
  <2>1. \A s \in Others : SrvP!HeldBy(s) = {}
    BY <1>1 DEF SystemInit, Srv!ServerInit, SrvP!HeldBy
  <2> QED
    BY <2>1 DEF SrvP!Held
<1>3. GenuineSends /\ GenuineNet /\ GenuineHeld
  BY <1>1, <1>2 DEF SystemInit, Init, GenuineSends, GenuineNet, GenuineHeld
<1>4. \A c \in Clients : GenuineReply(c)
  BY <1>1 DEF SystemInit, Init, GenuineReply, Results
<1>5. DoneServers
  <2>1. \A s \in Others : ~swiping[s] /\ ssent[s] = 0 /\ ~(0 > 0)
    BY DEF SystemInit, Srv!ServerInit
  <2> QED
    BY <2>1 DEF DoneServers
<1> QED
  BY <1>3, <1>4, <1>5 DEF Content

\* A client that shares its server with no other prints its own request, cut
\* to the server's buffer, or bytes that udp_client.cpp freed too early; never
\* another client's, and never a buffer the server has cleared.
THEOREM ShownIsOwn ==
  UsedOnce /\ OwnServers => (System => []ShowsOwnRequest)
<1> SUFFICES ASSUME UsedOnce, OwnServers PROVE System => []ShowsOwnRequest
  OBVIOUS
<1>1. SystemInit => Content
  BY SystemInitInvariant, ContentInit
<1>2. Inv /\ Content /\ [SystemNext]_system => Content'
  BY ContentNext
<1>3. Content => ShowsOwnRequest
  BY DEF Content, GenuineReply, Genuine, Kept, MessageFor, ShowsOwnRequest
<1> QED
  BY <1>1, <1>2, <1>3, SystemInvariant, PTL DEF System
=============================================================================
