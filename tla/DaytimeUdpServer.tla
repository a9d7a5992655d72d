-------------------------- MODULE DaytimeUdpServer --------------------------
(***************************************************************************)
(* The asynchronous daytime server of                                      *)
(* AsyncUDPServerClient/AsynUDPServer/boost_udp_server.cpp (the same       *)
(* program is AsyncUDPClient/boost_udp_client.cpp) and its clients.        *)
(*                                                                         *)
(* Unlike udp_server.cpp it starts the next receive as soon as it has      *)
(* started to answer, so that any number of sends overlap with a receive   *)
(* that overwrites remote_endpoint_; and it starts none after an error.    *)
(***************************************************************************)
EXTENDS OneShotClients

CONSTANT NoEndpoint  \* a default-constructed udp::endpoint

ASSUME ServerAssumption == NoEndpoint \notin Clients

VARIABLES rx,        \* receives in progress
          heard,     \* clients whose request completed a receive
          failed,    \* receives that completed with an error
          tx,        \* tx[c]: sends in progress to c
          sent,      \* completed sends whose handler has not run
          endpoint,  \* remote_endpoint_
          running    \* io_context::run has not returned

serverVars == <<rx, heard, failed, tx, sent, endpoint, running>>
vars       == <<clientVars, serverVars>>

-----------------------------------------------------------------------------
(* The kernel.                                                             *)

KernelReceive(c) ==
  /\ rx > 0
  /\ asked[c] > 0
  /\ asked' = [asked EXCEPT ![c] = @ - 1]
  /\ rx' = rx - 1
  /\ heard' = heard \cup {c}
  /\ endpoint' = c
  /\ UNCHANGED <<client, answers, refused, faulty, failed, tx, sent, running>>

KernelReceiveError ==
  /\ rx > 0
  /\ refused
  /\ refused' = FALSE
  /\ rx' = rx - 1
  /\ failed' = failed + 1
  /\ UNCHANGED <<client, asked, answers, faulty, heard, tx, sent, endpoint,
                 running>>

\* The destination was copied when the send was started.
SendLeaves(c) ==
  /\ tx[c] > 0
  /\ tx' = [tx EXCEPT ![c] = @ - 1]
  /\ sent' = sent + 1
  /\ answers' = [answers EXCEPT ![c] = @ + 1]
  /\ UNCHANGED <<client, asked, refused, faulty, rx, heard, failed, endpoint,
                 running>>

SendFails(c) ==
  /\ tx[c] > 0
  /\ tx' = [tx EXCEPT ![c] = @ - 1]
  /\ sent' = sent + 1
  /\ faulty' = TRUE
  /\ UNCHANGED <<client, asked, answers, refused, rx, heard, failed, endpoint,
                 running>>

-----------------------------------------------------------------------------
(* The handlers.                                                           *)

\* Mutant: the next receive is left to handle_send.
AnswersOnly(c) ==
  /\ c \in heard
  /\ heard' = heard \ {c}
  /\ tx' = [tx EXCEPT ![endpoint] = @ + 1]
  /\ UNCHANGED <<clientVars, rx, failed, sent, endpoint, running>>

\* Mutant: the receive is started first and completes before the destination
\* is read.
ReceivesFirst(c) ==
  /\ c \in heard
  /\ \E d \in Clients :
       /\ asked[d] > 0
       /\ asked' = [asked EXCEPT ![d] = @ - 1]
       /\ heard' = (heard \ {c}) \cup {d}
       /\ endpoint' = d
       /\ tx' = [tx EXCEPT ![d] = @ + 1]
  /\ UNCHANGED <<client, answers, refused, faulty, rx, failed, sent, running>>

\* A request is answered to remote_endpoint_, and the next one awaited.
HandleRequest(c) ==
  /\ c \in heard
  /\ heard' = heard \ {c}
  /\ tx' = [tx EXCEPT ![endpoint] = @ + 1]
  /\ rx' = rx + 1
  /\ UNCHANGED <<clientVars, failed, sent, endpoint, running>>

\* Mutant: a receive is started after an error, too.
ReceivesAgain ==
  /\ failed > 0
  /\ failed' = failed - 1
  /\ rx' = rx + 1
  /\ UNCHANGED <<clientVars, heard, tx, sent, endpoint, running>>

\* An error is followed by nothing.
HandleReceiveError ==
  /\ failed > 0
  /\ failed' = failed - 1
  /\ UNCHANGED <<clientVars, rx, heard, tx, sent, endpoint, running>>

\* Mutant: handle_send starts a receive.
SendThenReceive ==
  /\ sent > 0
  /\ sent' = sent - 1
  /\ rx' = rx + 1
  /\ UNCHANGED <<clientVars, heard, failed, tx, endpoint, running>>

HandleSend ==
  /\ sent > 0
  /\ sent' = sent - 1
  /\ UNCHANGED <<clientVars, rx, heard, failed, tx, endpoint, running>>

\* io_context::run returns when nothing is in progress and no handler waits.
Return ==
  /\ running
  /\ rx = 0 /\ heard = {} /\ failed = 0 /\ sent = 0
  /\ \A c \in Clients : tx[c] = 0
  /\ running' = FALSE
  /\ UNCHANGED <<clientVars, rx, heard, failed, tx, sent, endpoint>>

-----------------------------------------------------------------------------
\* The constructor starts the first receive.
Init ==
  /\ ClientInit
  /\ rx = 1
  /\ heard = {}
  /\ failed = 0
  /\ tx = [c \in Clients |-> 0]
  /\ sent = 0
  /\ endpoint = NoEndpoint
  /\ running = TRUE

Server ==
  \/ KernelReceiveError \/ HandleReceiveError \/ HandleSend \/ Return
  \/ \E c \in Clients :
       KernelReceive(c) \/ SendLeaves(c) \/ SendFails(c) \/ HandleRequest(c)

Peers == \E c \in Clients : ClientNext(c) /\ UNCHANGED serverVars

Next == Server \/ Peers

Spec == Init /\ [][Next]_vars

\* The server's thread and kernel go on, and clients send, and receive what
\* has arrived for them.
Fairness ==
  /\ WF_vars(KernelReceiveError) /\ WF_vars(HandleReceiveError)
  /\ WF_vars(HandleSend) /\ WF_vars(Return)
  /\ \A c \in Clients :
       /\ WF_vars((Ask(c) \/ Hear(c)) /\ UNCHANGED serverVars)
       /\ WF_vars(KernelReceive(c)) /\ WF_vars(HandleRequest(c))
       /\ WF_vars(SendLeaves(c) \/ SendFails(c))

FairSpec == Spec /\ Fairness

-----------------------------------------------------------------------------
(* Properties.                                                             *)

TypeOK ==
  /\ ClientTypeOK
  /\ rx \in 0..1
  /\ heard \subseteq Clients
  /\ failed \in 0..1
  /\ tx \in [Clients -> Nat]
  /\ sent \in Nat
  /\ endpoint \in Clients \cup {NoEndpoint}
  /\ running \in BOOLEAN

Exchange(c) ==
  asked[c] + answers[c] + tx[c]
  + (IF c \in heard THEN 1 ELSE 0)
  + (IF client[c] = "done" THEN 1 ELSE 0)

\* Each request is answered at most once, to the client that sent it, though
\* several sends overlap with a receive that overwrites remote_endpoint_: a
\* client's exchange is in one place at a time, and a client that has asked
\* nothing is sent nothing.
OneAnswerEach ==
  \A c \in Clients : Exchange(c) <= (IF client[c] = "new" THEN 0 ELSE 1)

\* No receive is in progress and no handler that waits will start one.
Deaf == rx = 0 /\ heard = {}

\* A receive that failed is the last one: no later handler starts another.
DeafForGood == [][Deaf => Deaf']_vars

\* A deaf server does not linger: it ends once the sends it had started have.
DeafEnds == Deaf ~> ~running

\* Unless a datagram is lost, or a call of a program fails, every client gets
\* its answer: the server has a receive in progress as long as one is needed.
AllServed == <>(faulty \/ \A c \in Clients : client[c] = "done")
=============================================================================
