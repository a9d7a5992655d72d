--------------------------- MODULE AsyncUdpClient ---------------------------
(***************************************************************************)
(* The client program of AsyncUDPServerClient/AsyncUDPClient/              *)
(* udp_client.cpp: objects of class udp_client, one per server, driven by  *)
(* one thread.  main calls send_message, which only posts do_write; then   *)
(* io_service::run runs handlers one at a time, while the kernel completes *)
(* the sends and receives they start.                                      *)
(*                                                                         *)
(* A message is its content (header and text, one value) and its length(). *)
(* The script of send_message calls is a constant, so that the class is    *)
(* checked under the use main makes of it and under others.                *)
(***************************************************************************)
EXTENDS Naturals, Sequences

CONSTANTS Clients,       \* the udp_client objects, and their endpoints
          Others,        \* every other endpoint
          Server,        \* Server[c]: the endpoint c's host and port resolve to
          HeaderLength,  \* message::header_length
          MaxBody,       \* message::max_body_length
          Texts,         \* contents of messages
          TextLength,    \* TextLength[t]: length of the text of message t
          Garbage,       \* what is read from freed or uninitialised memory
          Foreign,       \* contents of the datagrams other endpoints send
          Script,        \* the calls of main: a sequence of [client, text]
          CopiesEarly,   \* whether a send may have copied its bytes at once
          StrayLengths,  \* lengths of the datagrams other endpoints send
          MaxStray       \* bound: datagrams that come from other endpoints

Call == [client: Clients, text: Texts]

\* What a datagram, and so data_, may hold.
Contents == Texts \cup Foreign \cup {Garbage}

ASSUME ClientAssumption ==
  /\ Clients \cap Others = {}
  /\ Server \in [Clients -> Others]
  /\ HeaderLength \in Nat
  /\ MaxBody \in Nat
  /\ TextLength \in [Texts -> Nat]
  /\ Garbage \notin Texts
  /\ Script \in Seq(Call)
  /\ CopiesEarly \in (SUBSET BOOLEAN) \ {{}}
  /\ StrayLengths \subseteq Nat
  /\ MaxStray \in Nat

VARIABLES script,      \* calls main has not made yet
          posted,      \* do_write handlers in the io_service's queue
          queue,       \* send_msg_queue_
          tx,          \* sends in progress, per client
          sent,        \* completed sends whose handler has not run: success?
          rx,          \* receives in progress, per client
          recvd,       \* completed receives whose handler has not run
          data,        \* data_, the content
          bodyLength,  \* data_.body_length_
          endpoint,    \* sender_endpoint_
          open,        \* the socket is open
          refused,     \* an ICMP error is pending on the socket
          fault,       \* undefined behaviour: pop_front on an empty deque
          shown,       \* what handle_receive_from has printed
          count,       \* datagrams each client has put on the network
          net,         \* datagrams in flight
          strays       \* datagrams other endpoints have sent

sending   == <<queue, tx, sent, count>>
receiving == <<rx, recvd, data, bodyLength, shown>>
socket    == <<endpoint, open, refused>>
control   == <<script, posted, fault>>
network   == <<net, strays>>
vars      == <<control, sending, receiving, socket, network>>

Message == [text: Texts, len: Nat]

Datagram == [src: Clients \cup Others, dst: Clients \cup Others,
             id: Nat, body: Contents, len: Nat]

\* Where the bytes of a send in progress are: already in the kernel, in the
\* front element of send_msg_queue_, or in memory freed since.
SendOp == [msg: Message, to: Clients \cup Others,
           bytes: {"copied", "queue", "freed"}]

Completion == [error: BOOLEAN, bytes: Nat]

AtMost(n, m) == IF n > m THEN m ELSE n

\* body_length and length() of the message main fills with text t.
MessageOf(t) == [text |-> t, len |-> HeaderLength + AtMost(TextLength[t], MaxBody)]

MaxMessage == HeaderLength + MaxBody

-----------------------------------------------------------------------------
(* main, before is.run().                                                  *)

SendMessage ==
  /\ script # <<>>
  /\ posted' = Append(posted, [client |-> Head(script).client,
                               msg |-> MessageOf(Head(script).text)])
  /\ script' = Tail(script)
  /\ UNCHANGED <<fault, sending, receiving, socket, network>>

Running == script = <<>> /\ ~fault

-----------------------------------------------------------------------------
(* The kernel.  Operations of one kind on a socket complete in order.      *)

\* The bytes are read now, or were copied when the send was started.
SendLeaves(c) ==
  /\ ~fault
  /\ tx[c] # <<>>
  /\ LET op == Head(tx[c]) IN
       \E b \in IF op.bytes = "freed" THEN {op.msg.text, Garbage} ELSE {op.msg.text} :
         net' = net \cup {[src |-> c, dst |-> op.to, id |-> count[c] + 1,
                           body |-> b, len |-> op.msg.len]}
  /\ tx' = [tx EXCEPT ![c] = Tail(@)]
  /\ sent' = [sent EXCEPT ![c] = Append(@, TRUE)]
  /\ count' = [count EXCEPT ![c] = @ + 1]
  /\ UNCHANGED <<queue, control, receiving, socket, strays>>

SendFails(c) ==
  /\ ~fault
  /\ tx[c] # <<>>
  /\ tx' = [tx EXCEPT ![c] = Tail(@)]
  /\ sent' = [sent EXCEPT ![c] = Append(@, FALSE)]
  /\ UNCHANGED <<queue, count, control, receiving, socket, network>>

\* A datagram that does not fit in data_ completes the receive with its first
\* bytes (POSIX) or with an error (Windows).
KernelReceive(c) ==
  /\ ~fault
  /\ rx[c] > 0
  /\ \E d \in net :
       /\ d.dst = c
       /\ net' = net \ {d}
       /\ data' = [data EXCEPT ![c] = d.body]
       /\ endpoint' = [endpoint EXCEPT ![c] = d.src]
       /\ \E e \in IF d.len > MaxMessage THEN BOOLEAN ELSE {FALSE} :
            recvd' = [recvd EXCEPT ![c] = Append(@,
                        [error |-> e, bytes |-> AtMost(d.len, MaxMessage)])]
  /\ rx' = [rx EXCEPT ![c] = @ - 1]
  /\ UNCHANGED <<control, sending, bodyLength, shown, open, refused, strays>>

\* An earlier datagram was refused by its destination (WSAECONNRESET).
KernelReceiveError(c) ==
  /\ ~fault
  /\ rx[c] > 0
  /\ refused[c]
  /\ refused' = [refused EXCEPT ![c] = FALSE]
  /\ recvd' = [recvd EXCEPT ![c] = Append(@, [error |-> TRUE, bytes |-> 0])]
  /\ rx' = [rx EXCEPT ![c] = @ - 1]
  /\ UNCHANGED <<control, sending, data, bodyLength, shown, endpoint, open,
                 network>>

-----------------------------------------------------------------------------
(* The operations handlers start.  On a closed socket they complete at once *)
(* with an error.                                                          *)

AsyncSendTo(c, txc, sentc, op) ==
  IF open[c]
  THEN tx' = [tx EXCEPT ![c] = Append(txc, op)] /\ sent' = [sent EXCEPT ![c] = sentc]
  ELSE tx' = [tx EXCEPT ![c] = txc] /\ sent' = [sent EXCEPT ![c] = Append(sentc, FALSE)]

\* Mutant: no receive is started.
RecvNothing(c) == UNCHANGED <<rx, recvd>>

RecvMessage(c) ==
  IF open[c]
  THEN rx' = [rx EXCEPT ![c] = @ + 1] /\ UNCHANGED recvd
  ELSE /\ recvd' = [recvd EXCEPT ![c] = Append(@, [error |-> TRUE, bytes |-> 0])]
       /\ UNCHANGED rx

\* socket_.close(): every operation in progress completes with an error.
Close(c, sentc, recvdc) ==
  /\ open' = [open EXCEPT ![c] = FALSE]
  /\ refused' = [refused EXCEPT ![c] = FALSE]
  /\ tx' = [tx EXCEPT ![c] = <<>>]
  /\ sent' = [sent EXCEPT ![c] = sentc \o [i \in 1..Len(tx[c]) |-> FALSE]]
  /\ rx' = [rx EXCEPT ![c] = 0]
  /\ recvd' = [recvd EXCEPT ![c] =
                 recvdc \o [i \in 1..rx[c] |-> [error |-> TRUE, bytes |-> 0]]]
  /\ UNCHANGED endpoint

-----------------------------------------------------------------------------
(* The handlers.                                                           *)

\* do_write sends the bytes of its own argument, which is destroyed when it
\* returns, not those of the copy it queued; and it starts a send whatever is
\* in the queue already.
DoWrite ==
  /\ Running
  /\ posted # <<>>
  /\ LET c == Head(posted).client
         m == Head(posted).msg IN
       /\ queue' = [queue EXCEPT ![c] = Append(@, m)]
       /\ \E k \in CopiesEarly :
            AsyncSendTo(c, tx[c], sent[c],
              [msg |-> m, to |-> endpoint[c],
               bytes |-> IF k THEN "copied" ELSE "freed"])
  /\ posted' = Tail(posted)
  /\ UNCHANGED <<script, fault, count, receiving, socket, network>>

\* The sends in progress once the front of the queue has been destroyed.
PopFrees(ops) ==
  [i \in DOMAIN ops |->
     IF ops[i].bytes = "queue" THEN [ops[i] EXCEPT !.bytes = "freed"] ELSE ops[i]]

\* Mutant: the message sent is left in the queue, and nothing is sent again.
KeepsSentMessage(c) ==
  /\ queue[c] # <<>>
  /\ RecvMessage(c)
  /\ sent' = [sent EXCEPT ![c] = Tail(@)]
  /\ UNCHANGED <<control, queue, tx, count, data, bodyLength, shown, socket,
                 network>>

\* Mutant: whether more is queued is tested before the front is removed.
TestsBeforePop(c) ==
  /\ queue[c] # <<>>
  /\ RecvMessage(c)
  /\ queue' = [queue EXCEPT ![c] = Tail(@)]
  /\ AsyncSendTo(c, tx[c], Tail(sent[c]),
       [msg |-> queue[c][1], to |-> endpoint[c], bytes |-> "copied"])
  /\ UNCHANGED <<control, count, data, bodyLength, shown, socket, network>>

\* The front of the queue is removed, a receive started, and the new front
\* sent, although do_write has sent it already.
SendSucceeded(c) ==
  /\ queue[c] # <<>>
  /\ queue' = [queue EXCEPT ![c] = Tail(@)]
  /\ RecvMessage(c)
  /\ IF Tail(queue[c]) = <<>>
     THEN /\ tx' = [tx EXCEPT ![c] = PopFrees(@)]
          /\ sent' = [sent EXCEPT ![c] = Tail(@)]
     ELSE \E k \in CopiesEarly :
            AsyncSendTo(c, PopFrees(tx[c]), Tail(sent[c]),
              [msg |-> queue[c][2], to |-> endpoint[c],
               bytes |-> IF k THEN "copied" ELSE "queue"])
  /\ UNCHANGED <<control, count, data, bodyLength, shown, socket, network>>

\* pop_front on an empty deque: nothing is known of the process afterwards.
PopsEmptyQueue(c) ==
  /\ queue[c] = <<>>
  /\ fault' = TRUE
  /\ UNCHANGED <<script, posted, sending, receiving, socket, network>>

SendFailed(c) ==
  /\ Close(c, Tail(sent[c]), recvd[c])
  /\ UNCHANGED <<control, queue, count, data, bodyLength, shown, network>>

HandleSendTo(c) ==
  /\ Running
  /\ sent[c] # <<>>
  /\ IF Head(sent[c]) THEN SendSucceeded(c) \/ PopsEmptyQueue(c) ELSE SendFailed(c)

\* Mutant: the length of the datagram is stored as that of the text.
StoresDatagramLength(c) ==
  LET n == Head(recvd[c]).bytes IN
    /\ shown' = [shown EXCEPT ![c] = Append(@, [text |-> data[c], bytes |-> n])]
    /\ bodyLength' = [bodyLength EXCEPT ![c] = n]
    /\ recvd' = [recvd EXCEPT ![c] = Tail(@)]
    /\ UNCHANGED <<control, sending, rx, data, socket, network>>

\* The reply is printed; only a reply longer than a header sets the length.
ReceiveSucceeded(c) ==
  LET n == Head(recvd[c]).bytes IN
    /\ shown' = [shown EXCEPT ![c] = Append(@, [text |-> data[c], bytes |-> n])]
    /\ IF n > HeaderLength
       THEN bodyLength' = [bodyLength EXCEPT ![c] = AtMost(n - HeaderLength, MaxBody)]
       ELSE UNCHANGED bodyLength
    /\ recvd' = [recvd EXCEPT ![c] = Tail(@)]
    /\ UNCHANGED <<control, sending, rx, data, socket, network>>

ReceiveFailed(c) ==
  /\ Close(c, sent[c], Tail(recvd[c]))
  /\ UNCHANGED <<control, queue, count, data, bodyLength, shown, network>>

HandleReceiveFrom(c) ==
  /\ Running
  /\ recvd[c] # <<>>
  /\ IF Head(recvd[c]).error THEN ReceiveFailed(c) ELSE ReceiveSucceeded(c)

-----------------------------------------------------------------------------
(* The network, as far as the clients can tell.                            *)

\* A datagram is lost, or received by a host that is no client.
Vanish(d) ==
  /\ net' = net \ {d}
  /\ UNCHANGED <<control, sending, receiving, socket, strays>>

\* Nothing listens at its destination, and the sender's socket is told.
Refuse(d) ==
  /\ d.src \in Clients /\ d.dst \in Others
  /\ net' = net \ {d}
  /\ refused' = [refused EXCEPT ![d.src] = open[d.src]]
  /\ UNCHANGED <<control, sending, receiving, endpoint, open, strays>>

\* Any other endpoint may send a client anything.
Arrive(o, c, b, n) ==
  /\ strays < MaxStray
  /\ strays' = strays + 1
  /\ net' = net \cup {[src |-> o, dst |-> c, id |-> strays + 1, body |-> b, len |-> n]}
  /\ UNCHANGED <<control, sending, receiving, socket>>

-----------------------------------------------------------------------------
Init ==
  /\ script = Script
  /\ posted = <<>>
  /\ queue = [c \in Clients |-> <<>>]
  /\ tx = [c \in Clients |-> <<>>]
  /\ sent = [c \in Clients |-> <<>>]
  /\ rx = [c \in Clients |-> 0]
  /\ recvd = [c \in Clients |-> <<>>]
  /\ data = [c \in Clients |-> Garbage]
  /\ bodyLength = [c \in Clients |-> 0]
  /\ endpoint = Server
  /\ open = [c \in Clients |-> TRUE]
  /\ refused = [c \in Clients |-> FALSE]
  /\ fault = FALSE
  /\ shown = [c \in Clients |-> <<>>]
  /\ count = [c \in Clients |-> 0]
  /\ net = {}
  /\ strays = 0

Handler(c) == HandleSendTo(c) \/ HandleReceiveFrom(c)

Kernel(c) ==
  SendLeaves(c) \/ SendFails(c) \/ KernelReceive(c) \/ KernelReceiveError(c)

Program == SendMessage \/ DoWrite \/ \E c \in Clients : Handler(c) \/ Kernel(c)

Next ==
  \/ Program
  \/ \E d \in net : Vanish(d) \/ Refuse(d)
  \/ \E o \in Others, c \in Clients, b \in Foreign, n \in StrayLengths : Arrive(o, c, b, n)

Spec == Init /\ [][Next]_vars

\* main makes its calls, io_service::run dispatches every ready handler, and
\* the kernel completes every send and reports every pending error.
Fairness ==
  /\ WF_vars(SendMessage)
  /\ WF_vars(DoWrite)
  /\ \A c \in Clients : /\ WF_vars(HandleSendTo(c))
                        /\ WF_vars(HandleReceiveFrom(c))
                        /\ WF_vars(SendLeaves(c) \/ SendFails(c))
                        /\ WF_vars(KernelReceiveError(c))

FairSpec == Spec /\ Fairness

-----------------------------------------------------------------------------
(* Properties.                                                             *)

TypeOK ==
  /\ script \in Seq(Call)
  /\ posted \in Seq([client: Clients, msg: Message])
  /\ queue \in [Clients -> Seq(Message)]
  /\ tx \in [Clients -> Seq(SendOp)]
  /\ sent \in [Clients -> Seq(BOOLEAN)]
  /\ rx \in [Clients -> Nat]
  /\ recvd \in [Clients -> Seq(Completion)]
  /\ data \in [Clients -> Contents]
  /\ bodyLength \in [Clients -> 0..MaxBody]
  /\ endpoint \in [Clients -> Clients \cup Others]
  /\ open \in [Clients -> BOOLEAN]
  /\ refused \in [Clients -> BOOLEAN]
  /\ fault \in BOOLEAN
  /\ shown \in [Clients -> Seq([text: Contents, bytes: Nat])]
  /\ count \in [Clients -> Nat]
  /\ net \subseteq Datagram
  /\ strays \in Nat

\* A queued message is sent only from do_write, or from the handler of an
\* earlier send.  So while the socket is open no message waits in
\* send_msg_queue_ without a send in progress, or completed, whose handler
\* will come to it.
NothingStranded ==
  \A c \in Clients :
    open[c] /\ ~fault /\ queue[c] # <<>> => tx[c] # <<>> \/ sent[c] # <<>>

\* main calls send_message once on each client.
UsedOnce ==
  \A i, j \in DOMAIN Script : Script[i].client = Script[j].client => i = j

\* Used as main uses it, a client sends one datagram, to the server it was
\* constructed for whatever datagrams reach it, and never pops an empty queue.
OneRequestEach ==
  UsedOnce =>
    /\ ~fault
    /\ \A c \in Clients : count[c] <= 1
    /\ \A d \in net : d.src \in Clients => d.dst = Server[d.src]

\* Sending comes to an end, although a handler of a send may start another:
\* each open client ends with an empty queue and no send in progress.
SendingEnds ==
  <>[](fault \/ \A c \in Clients :
         /\ tx[c] = <<>> /\ sent[c] = <<>>
         /\ open[c] => queue[c] = <<>>)

\* "send success, remove from the queue" (handle_send_to): every successful
\* send finds its message there.
SuccessFindsItsMessage == ~fault
=============================================================================
