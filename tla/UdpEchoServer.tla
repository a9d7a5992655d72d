--------------------------- MODULE UdpEchoServer ---------------------------
(***************************************************************************)
(* The asynchronous echo server of                                         *)
(* AsyncUDPServerClient/AsynUDPServer/udp_server.cpp.  Each server process *)
(* has one thread, in io_service::run, that runs handlers one at a time,   *)
(* and one socket on which the kernel completes the operations the         *)
(* handlers start.  The kernel and the handlers share the buffer data_ and *)
(* the endpoint sender_endpoint_.                                          *)
(*                                                                         *)
(* An operation in progress is a count or an element of a queue, so that   *)
(* several of one kind may overlap.  Elements carry, in "req", the request *)
(* they work for: a history value no guard reads.                          *)
(***************************************************************************)
EXTENDS Naturals, Sequences

CONSTANTS Servers,     \* endpoints of the server processes
          Clients,     \* endpoints of the hosts that talk to them
          Bodies,      \* contents of the datagrams clients send
          Zero,        \* content of data_ after memset
          Lengths,     \* datagram lengths clients use
          MaxLength,   \* max_length, the size of data_
          MaxSends,    \* bound: datagrams each client sends
          NoRequest,   \* "req" of a completion that took no datagram
          NoEndpoint   \* a default-constructed udp::endpoint

\* "id" numbers the datagrams of one client.
Request == [src: Clients, dst: Servers, id: 1..MaxSends, body: Bodies, len: Nat]

Reply == [src: Servers, dst: Clients, id: 1..MaxSends,
          body: Bodies \cup {Zero}, len: Nat]

ASSUME ServerAssumption ==
  /\ Servers \cap Clients = {}
  /\ Lengths \subseteq Nat
  /\ MaxLength \in Nat \ {0}
  /\ MaxSends \in Nat
  /\ Zero \notin Bodies
  /\ NoEndpoint \notin Servers \cup Clients
  /\ NoRequest \notin Request

VARIABLES net,         \* datagrams in flight
          issued,      \* datagrams each client has sent so far
          rx,          \* receive operations in progress, per server
          recvd,       \* completed receives whose handler has not run
          tx,          \* send operations in progress
          sent,        \* completed sends whose handler has not run
          data,        \* data_
          endpoint,    \* sender_endpoint_
          wiping,      \* handle_send_to is between its receive and memset
          unreachable  \* an ICMP error is pending on the socket

netVars    == <<net, issued>>
serverVars == <<rx, recvd, tx, sent, data, endpoint, wiping, unreachable>>
vars       == <<netVars, serverVars>>

\* A completed receive: its error_code and bytes_transferred.
Completion == [error: BOOLEAN, bytes: Nat, req: Request]
                \cup [error: {TRUE}, bytes: {0}, req: {NoRequest}]

\* A send in progress: destination and length fixed when it was started, the
\* bytes still in data_.
SendOp == [to: Clients, len: Nat, req: Request]

Fit(n) == IF n > MaxLength THEN MaxLength ELSE n

-----------------------------------------------------------------------------
(* The network and the clients, as far as the servers can tell.            *)

ClientSend(c) ==
  /\ issued[c] < MaxSends
  /\ issued' = [issued EXCEPT ![c] = @ + 1]
  /\ \E s \in Servers, b \in Bodies, n \in Lengths :
       net' = net \cup {[src |-> c, dst |-> s, id |-> issued[c] + 1,
                         body |-> b, len |-> n]}
  /\ UNCHANGED serverVars

\* A datagram is lost, or a client receives it.
Vanish(d) ==
  /\ net' = net \ {d}
  /\ UNCHANGED <<issued, serverVars>>

-----------------------------------------------------------------------------
(* The kernel's part of the asynchronous operations.                       *)

\* A datagram that does not fit completes the receive with an error
\* (Windows) or with its first MaxLength bytes (POSIX).
KernelReceive(s) ==
  /\ rx[s] > 0
  /\ \E d \in net :
       /\ d.dst = s
       /\ net' = net \ {d}
       /\ data' = [data EXCEPT ![s] = d.body]
       /\ endpoint' = [endpoint EXCEPT ![s] = d.src]
       /\ \E e \in IF d.len > MaxLength THEN BOOLEAN ELSE {FALSE} :
            recvd' = [recvd EXCEPT ![s] = Append(@,
                        [error |-> e, bytes |-> Fit(d.len), req |-> d])]
  /\ rx' = [rx EXCEPT ![s] = @ - 1]
  /\ UNCHANGED <<issued, tx, sent, wiping, unreachable>>

\* The error an earlier send ran into is reported by a receive.
KernelReceiveError(s) ==
  /\ rx[s] > 0
  /\ unreachable[s]
  /\ unreachable' = [unreachable EXCEPT ![s] = FALSE]
  /\ recvd' = [recvd EXCEPT ![s] = Append(@,
                 [error |-> TRUE, bytes |-> 0, req |-> NoRequest])]
  /\ rx' = [rx EXCEPT ![s] = @ - 1]
  /\ UNCHANGED <<netVars, tx, sent, data, endpoint, wiping>>

Echo(s, op) == [src |-> s, dst |-> op.to, id |-> op.req.id,
                body |-> data[s], len |-> op.len]

SendLeaves(s) ==
  /\ tx[s] # <<>>
  /\ tx' = [tx EXCEPT ![s] = Tail(@)]
  /\ sent' = [sent EXCEPT ![s] = @ + 1]
  /\ net' = net \cup {Echo(s, Head(tx[s]))}
  /\ UNCHANGED <<issued, rx, recvd, data, endpoint, wiping, unreachable>>

\* The stack refuses the datagram, or nothing listens at its destination.
SendFails(s) ==
  /\ tx[s] # <<>>
  /\ tx' = [tx EXCEPT ![s] = Tail(@)]
  /\ sent' = [sent EXCEPT ![s] = @ + 1]
  /\ \/ unreachable' = [unreachable EXCEPT ![s] = TRUE]
     \/ UNCHANGED unreachable
  /\ UNCHANGED <<netVars, rx, recvd, data, endpoint, wiping>>

KernelSend(s) == SendLeaves(s) \/ SendFails(s)

-----------------------------------------------------------------------------
(* The handlers; none starts while another is running.                     *)

AsyncReceiveFrom(s) == rx' = [rx EXCEPT ![s] = @ + 1]

AsyncSendTo(s, h) ==
  tx' = [tx EXCEPT ![s] = Append(@,
           [to |-> endpoint[s], len |-> h.bytes, req |-> h.req])]

\* Mutant: the next receive is started while the answer is being sent.
ReceiveWhileSending(s) ==
  /\ ~wiping[s]
  /\ recvd[s] # <<>>
  /\ LET h == Head(recvd[s]) IN
       IF ~h.error /\ h.bytes > 0 THEN AsyncSendTo(s, h) ELSE UNCHANGED tx
  /\ AsyncReceiveFrom(s)
  /\ recvd' = [recvd EXCEPT ![s] = Tail(@)]
  /\ UNCHANGED <<netVars, sent, data, endpoint, wiping, unreachable>>

\* Mutant: a failed or empty receive is not followed by another.
GiveUpOnError(s) ==
  /\ ~wiping[s]
  /\ recvd[s] # <<>>
  /\ LET h == Head(recvd[s]) IN
       IF ~h.error /\ h.bytes > 0 THEN AsyncSendTo(s, h) ELSE UNCHANGED tx
  /\ recvd' = [recvd EXCEPT ![s] = Tail(@)]
  /\ UNCHANGED <<netVars, rx, sent, data, endpoint, wiping, unreachable>>

\* Mutant: whatever completed the receive is answered.
AnswersErrors(s) ==
  /\ ~wiping[s]
  /\ recvd[s] # <<>>
  /\ AsyncSendTo(s, Head(recvd[s]))
  /\ recvd' = [recvd EXCEPT ![s] = Tail(@)]
  /\ UNCHANGED <<netVars, rx, sent, data, endpoint, wiping, unreachable>>

\* Mutant: the buffer is cleared after the send is started, not after it ends.
ClearWhileSending(s) ==
  /\ ~wiping[s]
  /\ recvd[s] # <<>>
  /\ LET h == Head(recvd[s]) IN
       IF ~h.error /\ h.bytes > 0
       THEN AsyncSendTo(s, h) /\ data' = [data EXCEPT ![s] = Zero] /\ UNCHANGED rx
       ELSE AsyncReceiveFrom(s) /\ UNCHANGED <<tx, data>>
  /\ recvd' = [recvd EXCEPT ![s] = Tail(@)]
  /\ UNCHANGED <<netVars, sent, endpoint, wiping, unreachable>>

HandleReceiveFrom(s) ==
  /\ ~wiping[s]
  /\ recvd[s] # <<>>
  /\ LET h == Head(recvd[s]) IN
       \/ /\ ~h.error /\ h.bytes > 0
          /\ AsyncSendTo(s, h)
          /\ UNCHANGED rx
       \/ /\ h.error \/ h.bytes = 0
          /\ AsyncReceiveFrom(s)
          /\ UNCHANGED tx
  /\ recvd' = [recvd EXCEPT ![s] = Tail(@)]
  /\ UNCHANGED <<netVars, sent, data, endpoint, wiping, unreachable>>

\* The result of the send is ignored.  The next receive is started before the
\* buffer it will fill is cleared; ClearBuffer is the rest of the handler.
HandleSendTo(s) ==
  /\ ~wiping[s]
  /\ sent[s] > 0
  /\ sent' = [sent EXCEPT ![s] = @ - 1]
  /\ AsyncReceiveFrom(s)
  /\ wiping' = [wiping EXCEPT ![s] = TRUE]
  /\ UNCHANGED <<netVars, recvd, tx, data, endpoint, unreachable>>

ClearBuffer(s) ==
  /\ wiping[s]
  /\ data' = [data EXCEPT ![s] = Zero]
  /\ wiping' = [wiping EXCEPT ![s] = FALSE]
  /\ UNCHANGED <<netVars, rx, recvd, tx, sent, endpoint, unreachable>>

-----------------------------------------------------------------------------
\* The constructor clears data_ and starts the first receive.
ServerInit ==
  /\ rx = [s \in Servers |-> 1]
  /\ recvd = [s \in Servers |-> <<>>]
  /\ tx = [s \in Servers |-> <<>>]
  /\ sent = [s \in Servers |-> 0]
  /\ data = [s \in Servers |-> Zero]
  /\ endpoint = [s \in Servers |-> NoEndpoint]
  /\ wiping = [s \in Servers |-> FALSE]
  /\ unreachable = [s \in Servers |-> FALSE]

Init == net = {} /\ issued = [c \in Clients |-> 0] /\ ServerInit

Handler(s) == HandleReceiveFrom(s) \/ HandleSendTo(s) \/ ClearBuffer(s)

Kernel(s) == KernelReceive(s) \/ KernelReceiveError(s) \/ KernelSend(s)

Next ==
  \/ \E s \in Servers : Handler(s) \/ Kernel(s)
  \/ \E c \in Clients : ClientSend(c)
  \/ \E d \in net : Vanish(d)

Spec == Init /\ [][Next]_vars

\* io_service::run keeps dispatching ready handlers, and the kernel keeps
\* completing sends and reporting errors.  No fairness on the network.
Fairness ==
  \A s \in Servers :
    WF_vars(Handler(s)) /\ WF_vars(KernelSend(s)) /\ WF_vars(KernelReceiveError(s))

FairSpec == Spec /\ Fairness

-----------------------------------------------------------------------------
(* Properties.                                                             *)

TypeOK ==
  /\ net \subseteq Request \cup Reply
  /\ issued \in [Clients -> 0..MaxSends]
  /\ rx \in [Servers -> Nat]
  /\ recvd \in [Servers -> Seq(Completion)]
  /\ tx \in [Servers -> Seq(SendOp)]
  /\ sent \in [Servers -> Nat]
  /\ data \in [Servers -> Bodies \cup {Zero}]
  /\ endpoint \in [Servers -> Clients \cup {NoEndpoint}]
  /\ wiping \in [Servers -> BOOLEAN]
  /\ unreachable \in [Servers -> BOOLEAN]

\* handle_receive_from and handle_send_to hand the socket to one another and
\* start one operation each on every path, errors included.  So one operation
\* of a server is always in progress or completed: never none, which would let
\* io_service::run return, and never two, which would share data_.
OneOutstandingOperation ==
  \A s \in Servers : rx[s] + Len(recvd[s]) + Len(tx[s]) + sent[s] = 1

\* data_ and sender_endpoint_ are shared by all the requests of a server and
\* are read late, when the send starts or the datagram leaves.  They still
\* belong to the request being worked on: its sender, its length, and its
\* bytes unless memset cleared them, never those of another request.
BuffersMatchRequest ==
  \A s \in Servers :
    /\ \A i \in DOMAIN recvd[s] : LET h == recvd[s][i] IN
         h.req # NoRequest =>
           /\ h.req.dst = s
           /\ h.bytes = Fit(h.req.len)
           /\ endpoint[s] = h.req.src
           /\ data[s] \in {h.req.body, Zero}
    /\ \A i \in DOMAIN tx[s] : LET op == tx[s][i] IN
         /\ op.req.dst = s
         /\ op.len = Fit(op.req.len)
         /\ op.to = op.req.src
         /\ data[s] \in {op.req.body, Zero}

HeldBy(s) ==
  ({recvd[s][i].req : i \in DOMAIN recvd[s]} \cup {tx[s][i].req : i \in DOMAIN tx[s]})
    \ {NoRequest}

Held == UNION {HeldBy(s) : s \in Servers}

Service == INSTANCE EchoService WITH held <- Held

\* The server implements the echo service: whatever the kernel does between
\* two handlers, each datagram it takes is answered at most once, to the
\* endpoint that sent it and with its length, or is dropped.
EchoesRequests == Service!Spec

\* No completion leaves the server deaf: after every request, failed send or
\* reported ICMP error it comes back to a receive in progress.
ListensAgain == \A s \in Servers : []<>(rx[s] = 1)

\* A program named an echo server answers with the bytes it received: a
\* datagram a server put on the network carries a client's bytes.
EchoIntact == \A d \in net : d.src \in Servers => d.body # Zero
=============================================================================
