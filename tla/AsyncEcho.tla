----------------------------- MODULE AsyncEcho -----------------------------
(***************************************************************************)
(* The client program of AsyncUDPServerClient together with one process of *)
(* udp_server.cpp for each endpoint its clients are constructed for, on    *)
(* one network.  Clients and servers interact only through datagrams: a    *)
(* step of the system is a step of one of them, or the network losing a    *)
(* datagram.                                                               *)
(***************************************************************************)
EXTENDS AsyncUdpClient, FiniteSets

CONSTANTS Zero, MaxLength, NoRequest, NoEndpoint,  \* of UdpEchoServer
          Lossy  \* whether datagrams may be lost and sends may fail

VARIABLES srx, srecvd, stx, ssent, sdata, sendpoint, swiping, sunreachable

servers == <<srx, srecvd, stx, ssent, sdata, sendpoint, swiping, sunreachable>>
clients == <<control, sending, receiving, socket, strays>>
system  == <<clients, servers, net>>

\* The clients are the environment of the servers: each sends one datagram.
Srv == INSTANCE UdpEchoServer WITH
         Servers <- Others, Bodies <- Texts \cup {Garbage},
         Lengths <- {MessageOf(t).len : t \in Texts}, MaxSends <- 1,
         issued <- count, rx <- srx, recvd <- srecvd, tx <- stx,
         sent <- ssent, data <- sdata, endpoint <- sendpoint,
         wiping <- swiping, unreachable <- sunreachable

\* The buffer of a server holds a header, and the zeros memset leaves in it
\* are the content of no message.
ASSUME EchoAssumption ==
  /\ MaxLength \in Nat \ {0} /\ HeaderLength <= MaxLength
  /\ Zero \in Foreign /\ Zero \notin Texts \cup {Garbage}
  /\ NoEndpoint \notin Others \cup Clients
  /\ NoRequest \notin Srv!Request
  /\ Lossy \in BOOLEAN

-----------------------------------------------------------------------------
MainStep == (SendMessage \/ DoWrite) /\ UNCHANGED servers

ClientStep(c) ==
  /\ \/ Handler(c)
     \/ SendLeaves(c) \/ KernelReceive(c) \/ KernelReceiveError(c)
     \/ Lossy /\ SendFails(c)
  /\ UNCHANGED servers

ServerStep(s) ==
  /\ \/ Srv!Handler(s)
     \/ Srv!SendLeaves(s) \/ Srv!KernelReceive(s) \/ Srv!KernelReceiveError(s)
     \/ Lossy /\ Srv!SendFails(s)
  /\ UNCHANGED clients

LoseStep(d) == Lossy /\ (Vanish(d) \/ Refuse(d)) /\ UNCHANGED servers

SystemInit == Init /\ Srv!ServerInit

SystemNext ==
  \/ MainStep
  \/ \E c \in Clients : ClientStep(c)
  \/ \E s \in Others : ServerStep(s)
  \/ \E d \in net : LoseStep(d)

System == SystemInit /\ [][SystemNext]_system

\* Each program's thread and kernel keep working; used when nothing is lost.
SystemFairness ==
  /\ WF_system(MainStep)
  /\ \A c \in Clients : WF_system(ClientStep(c))
  /\ \A s \in Others : WF_system(ServerStep(s))

FairSystem == System /\ SystemFairness

-----------------------------------------------------------------------------
(* Properties.                                                             *)

CallOf(c) == {i \in DOMAIN Script : Script[i].client = c}
TextOf(c) == Script[CHOOSE i \in CallOf(c) : TRUE].text

\* What udp_client.cpp and any number of lost datagrams do to a server is
\* what UdpEchoServer assumes of its clients, so that all that is shown of
\* that module holds of the servers of this system.
ServersServe == Srv!Spec

\* What handle_receive_from prints is the client's own request, cut to the
\* server's buffer, unless its bytes were freed before they were sent; data_
\* then has the length of its text.  No server answers a client with another
\* client's request, or with a buffer cleared too early.
ShowsOwnRequest ==
  \A c \in Clients : \A i \in DOMAIN shown[c] :
    LET n == AtMost(MessageOf(TextOf(c)).len, MaxLength) IN
      /\ \/ shown[c][i].text = TextOf(c)
         \/ shown[c][i].text = Garbage /\ FALSE \in CopiesEarly
      /\ shown[c][i].bytes = n
      /\ bodyLength[c] = n - HeaderLength

\* The places where the exchange of client c can be.
Tokens(c) ==
  Cardinality({i \in DOMAIN script : script[i].client = c})
  + Cardinality({i \in DOMAIN posted : posted[i].client = c})
  + Len(tx[c]) + Len(shown[c])
  + Cardinality({d \in net : c \in {d.src, d.dst}})
  + Cardinality({i \in DOMAIN recvd[c] : ~recvd[c][i].error})
  + Cardinality({d \in Srv!Held : d.src = c})

\* A client's exchange is in one place at a time, from main's call through
\* its send, the network, the server and back to what is printed.  Nothing
\* duplicates it; when the network is reliable nothing loses it.
OneExchange ==
  \A c \in Clients : CallOf(c) # {} =>
    Tokens(c) <= 1 /\ (Lossy \/ Tokens(c) = 1)

Finished ==
  /\ script = <<>> /\ posted = <<>>
  /\ \A c \in Clients : tx[c] = <<>> /\ sent[c] = <<>> /\ rx[c] = 0 /\ recvd[c] = <<>>

\* On a network that loses nothing, io_service::run returns, and by then each
\* client has printed its reply.  (A client that is not answered waits in
\* recv_message for ever: there is no timeout.)
RunReturns == <>(Finished /\ \A c \in Clients : Len(shown[c]) = 1)
=============================================================================
