----------------------------- MODULE WinSockTcp -----------------------------
(***************************************************************************)
(* The WinSock programs on TCP: the echo server and client of              *)
(* MSExample_TCP-Server.cpp and MSExample_TCP-Client.cpp, and the file     *)
(* size server and client of WinSock-Sample-master (TCP-Server.cpp and     *)
(* TCP-Client.cpp), which were made from them.                             *)
(*                                                                         *)
(* A server accepts one connection, closes its listening socket, serves    *)
(* and ends.  A client sends its text, a file's name in one system and a   *)
(* fixed text in the other, and receives until the server closes.  TCP     *)
(* keeps the order of bytes and not the boundaries of sends: a recv may    *)
(* return any part of what was sent.                                       *)
(***************************************************************************)
EXTENDS FileSizes, SequencesExt

CONSTANTS Clients,  \* processes that run a client
          Tests,    \* what an echo client may send: sequences of characters
          Names,    \* what the user of a file client may type
          Window,   \* bytes that fit in one direction of a connection
          Buffer,   \* DEFAULT_BUFLEN
          NoPeer    \* INVALID_SOCKET

\* A client sends everything before it receives anything: what it sends must fit
\* in what the connection and the server can hold meanwhile (see EveryoneEnds).
WinSockAssumption ==
  /\ FileSizesAssumption
  /\ Tests \subseteq Seq(Nat) \ {<<>>} /\ Names \subseteq Seq(Nat)
  /\ Window \in Nat \ {0} /\ Buffer \in Nat \ {0}
  /\ \A t \in Tests : Len(t) <= 2 * Window + 1
  /\ \A t \in Names : Len(t) <= Window + 1
  /\ NoPeer \notin Clients

VARIABLES system,   \* which server and client: "echo" or "file"
          server,   \* what the server is doing
          peer,     \* the client whose connection was accepted
          reply,    \* what remains of the server's send
          client,   \* what each client is doing
          text,     \* text[c]: what c sends
          unsent,   \* unsent[c]: what remains of its send
          up,       \* up[c]: bytes on the way to the server
          upEnd,    \* upEnd[c]: "open", "fin" (shutdown) or "reset"
          down,     \* down[c]: bytes on the way to c
          downEnd,  \* downEnd[c]: as upEnd
          shown     \* shown[c]: what each recv of c returned, in order

serverVars == <<server, peer, reply>>
clientVars == <<client, text, unsent, shown>>
upVars     == <<up, upEnd>>
downVars   == <<down, downEnd>>
vars == <<system, serverVars, clientVars, upVars, downVars>>

Take(s, n) == SubSeq(s, 1, n)
Drop(s, n) == SubSeq(s, n + 1, Len(s))
AtMost(m, n) == IF m < n THEN m ELSE n

Connected(c) == client[c] \notin {"new", "refused"}
Gone(c) == client[c] \in {"closed", "failed"}

-----------------------------------------------------------------------------
(* The client.                                                             *)

\* connect: only while the server listens.
Connect(c) ==
  /\ client[c] = "new"
  /\ server = "listening"
  /\ client' = [client EXCEPT ![c] = "connected"]
  /\ UNCHANGED <<system, serverVars, text, unsent, shown, upVars, downVars>>

\* No address answers, or a call before it fails.
Refused(c) ==
  /\ client[c] = "new"
  /\ client' = [client EXCEPT ![c] = "refused"]
  /\ UNCHANGED <<system, serverVars, text, unsent, shown, upVars, downVars>>

\* The client is stopped, or a call fails: the client cleans up and returns.
Fail(c) ==
  /\ client[c] \in {"connected", "sending", "receiving"}
  /\ client' = [client EXCEPT ![c] = "failed"]
  /\ upEnd' = [upEnd EXCEPT ![c] = "reset"]
  /\ UNCHANGED <<system, serverVars, text, unsent, shown, up, downVars>>

\* The user names a file, or the text is the constant one; send is called.
BeginSend(c) ==
  /\ client[c] = "connected"
  /\ client' = [client EXCEPT ![c] = "sending"]
  /\ \E t \in IF system = "echo" THEN Tests ELSE Names :
       /\ text' = [text EXCEPT ![c] = t]
       /\ unsent' = [unsent EXCEPT ![c] = t]
  /\ UNCHANGED <<system, serverVars, shown, upVars, downVars>>

\* send waits until all of it has been taken by the connection.
SendSome(c) ==
  /\ client[c] = "sending"
  /\ \E n \in 1..Len(unsent[c]) :
       /\ Len(up[c]) + n <= Window
       /\ up' = [up EXCEPT ![c] = @ \o Take(unsent[c], n)]
       /\ unsent' = [unsent EXCEPT ![c] = Drop(@, n)]
  /\ UNCHANGED <<system, serverVars, client, text, shown, upEnd, downVars>>

\* Mutant: the echo client keeps its side of the connection open.
SendNoEnd(c) ==
  /\ client[c] = "sending" /\ unsent[c] = <<>>
  /\ client' = [client EXCEPT ![c] = "receiving"]
  /\ UNCHANGED <<system, serverVars, text, unsent, shown, upVars, downVars>>

\* send returns; the echo client then shuts its side down, the file client goes
\* on to receive at once.
EndSend(c) ==
  /\ client[c] = "sending" /\ unsent[c] = <<>>
  /\ client' = [client EXCEPT ![c] = "receiving"]
  /\ upEnd' = IF system = "echo" THEN [upEnd EXCEPT ![c] = "fin"] ELSE upEnd
  /\ UNCHANGED <<system, serverVars, text, unsent, shown, up, downVars>>

\* recv returns a part of what has come; the file client takes it for a whole
\* answer, and prints it as one.
Receive(c) ==
  /\ client[c] = "receiving"
  /\ downEnd[c] # "reset"
  /\ \E n \in 1..AtMost(Buffer, Len(down[c])) :
       /\ shown' = [shown EXCEPT ![c] = Append(@, Take(down[c], n))]
       /\ down' = [down EXCEPT ![c] = Drop(@, n)]
  /\ UNCHANGED <<system, serverVars, client, text, unsent, upVars, downEnd>>

\* recv returns 0, or an error, which ends the loop as well; the client closes
\* its socket, the file client after a shutdown.
Leave(c) ==
  /\ client[c] = "receiving"
  /\ \/ downEnd[c] = "fin" /\ down[c] = <<>>
     \/ downEnd[c] = "reset"
  /\ client' = [client EXCEPT ![c] = IF downEnd[c] = "fin" THEN "closed"
                                                           ELSE "failed"]
  /\ upEnd' = [upEnd EXCEPT ![c] = IF @ = "open" THEN "fin" ELSE @]
  /\ UNCHANGED <<system, serverVars, text, unsent, shown, up, downVars>>

\* send fails on a connection that the server's host has reset.
SendFails(c) ==
  /\ client[c] \in {"connected", "sending"}
  /\ downEnd[c] = "reset"
  /\ client' = [client EXCEPT ![c] = "failed"]
  /\ UNCHANGED <<system, serverVars, text, unsent, shown, upVars, downVars>>

-----------------------------------------------------------------------------
(* The server.                                                             *)

\* WSAStartup, socket, bind and listen; if one fails the server returns.
Listen ==
  /\ server = "new"
  /\ server' \in {"listening", "ended"}
  /\ UNCHANGED <<system, peer, reply, clientVars, upVars, downVars>>

\* A connection is accepted and the listening socket closed, which resets the
\* connections that wait behind it.
Accept(c) ==
  /\ server = "listening"
  /\ Connected(c)
  /\ server' = "receiving"
  /\ peer' = c
  /\ downEnd' = [d \in Clients |-> IF d # c /\ Connected(d) THEN "reset"
                                                                ELSE "open"]
  /\ UNCHANGED <<system, reply, clientVars, upVars, down>>

\* The server's calls that fail end it, and reset the connection.
ServerFails ==
  /\ server \in {"listening", "receiving", "sending", "closing"}
  /\ server' = "ended"
  /\ downEnd' = [c \in Clients |-> IF peer \in {NoPeer, c} /\ Connected(c)
                                   THEN "reset" ELSE downEnd[c]]
  /\ UNCHANGED <<system, peer, reply, clientVars, upVars, down>>

\* Mutant: what was received is taken with one byte beyond it.
ReadsBeyond(c) ==
  /\ server = "receiving" /\ peer = c
  /\ upEnd[c] # "reset"
  /\ \E n \in 1..AtMost(Buffer, Len(up[c])) :
       /\ up' = [up EXCEPT ![c] = Drop(@, n)]
       /\ reply' = IF system = "echo" THEN Append(Take(up[c], n), 0)
                   ELSE Decimal(FileSize(Append(Take(up[c], n), 0)))
  /\ server' = "sending"
  /\ UNCHANGED <<system, peer, clientVars, upEnd, downVars>>

\* recv returns a part of what has come.  The echo server sends it back; the
\* file server takes it for the whole name and sends the size of that file.
Recv(c) ==
  /\ server = "receiving" /\ peer = c
  /\ upEnd[c] # "reset"
  /\ \E n \in 1..AtMost(Buffer, Len(up[c])) :
       /\ up' = [up EXCEPT ![c] = Drop(@, n)]
       /\ reply' = IF system = "echo" THEN Take(up[c], n)
                                      ELSE Decimal(FileSize(Take(up[c], n)))
  /\ server' = "sending"
  /\ UNCHANGED <<system, peer, clientVars, upEnd, downVars>>

\* send waits until all of it has been taken by the connection.
SendReply(c) ==
  /\ server = "sending" /\ peer = c
  /\ \E n \in 1..Len(reply) :
       /\ Len(down[c]) + n <= Window
       /\ down' = [down EXCEPT ![c] = @ \o Take(reply, n)]
       /\ reply' = Drop(reply, n)
  /\ UNCHANGED <<system, server, peer, clientVars, upVars, downEnd>>

\* Mutant: the echo server answers once, as the file server does.
RepliesOnce ==
  /\ server = "sending" /\ reply = <<>>
  /\ server' = "closing"
  /\ UNCHANGED <<system, peer, reply, clientVars, upVars, downVars>>

\* send returns: the echo server receives again, the file server is done.
EndReply ==
  /\ server = "sending" /\ reply = <<>>
  /\ server' = IF system = "echo" THEN "receiving" ELSE "closing"
  /\ UNCHANGED <<system, peer, reply, clientVars, upVars, downVars>>

\* recv returns 0: the client has shut its side down.
RecvEnd(c) ==
  /\ server = "receiving" /\ peer = c
  /\ upEnd[c] = "fin" /\ up[c] = <<>>
  /\ server' = "closing"
  /\ UNCHANGED <<system, peer, reply, clientVars, upVars, downVars>>

\* recv or send fails: the client's host has reset the connection.
PeerIsGone(c) ==
  /\ server \in {"receiving", "sending"} /\ peer = c
  /\ upEnd[c] = "reset"
  /\ server' = "ended"
  /\ downEnd' = [downEnd EXCEPT ![c] = "reset"]
  /\ UNCHANGED <<system, peer, reply, clientVars, upVars, down>>

\* shutdown and closesocket.  Bytes that were never received reset the
\* connection, with what the client has not read yet.
Close(c) ==
  /\ server = "closing" /\ peer = c
  /\ server' = "ended"
  /\ downEnd' = [downEnd EXCEPT ![c] = IF up[c] = <<>> THEN "fin" ELSE "reset"]
  /\ UNCHANGED <<system, peer, reply, clientVars, upVars, down>>

\* Bytes that come for a connection the server has closed reset it, too.
ResetLate(c) ==
  /\ server = "ended" /\ peer = c
  /\ up[c] # <<>> /\ downEnd[c] = "fin"
  /\ downEnd' = [downEnd EXCEPT ![c] = "reset"]
  /\ UNCHANGED <<system, serverVars, clientVars, upVars, down>>

-----------------------------------------------------------------------------
Init ==
  /\ system \in {"echo", "file"}
  /\ server = "new" /\ peer = NoPeer /\ reply = <<>>
  /\ client = [c \in Clients |-> "new"]
  /\ text = [c \in Clients |-> <<>>]
  /\ unsent = [c \in Clients |-> <<>>]
  /\ up = [c \in Clients |-> <<>>]
  /\ upEnd = [c \in Clients |-> "open"]
  /\ down = [c \in Clients |-> <<>>]
  /\ downEnd = [c \in Clients |-> "open"]
  /\ shown = [c \in Clients |-> <<>>]

ClientStep(c) ==
  \/ BeginSend(c) \/ SendSome(c) \/ EndSend(c) \/ Receive(c) \/ Leave(c)
  \/ SendFails(c)

ServerStep ==
  \/ Listen \/ EndReply
  \/ \E c \in Clients :
       \/ Accept(c) \/ Recv(c) \/ SendReply(c) \/ RecvEnd(c) \/ PeerIsGone(c)
       \/ Close(c)

Next ==
  \/ ServerStep \/ ServerFails
  \/ \E c \in Clients :
       \/ Connect(c) \/ Refused(c) \/ Fail(c) \/ ClientStep(c) \/ ResetLate(c)

Spec == Init /\ [][Next]_vars

\* Programs go on whenever their call can return.
Fairness ==
  /\ WF_vars(ServerStep)
  /\ \A c \in Clients : WF_vars(ClientStep(c)) /\ WF_vars(ResetLate(c))

FairSpec == Spec /\ Fairness

-----------------------------------------------------------------------------
(* Properties.                                                             *)

TypeOK ==
  /\ system \in {"echo", "file"}
  /\ server \in {"new", "listening", "receiving", "sending", "closing", "ended"}
  /\ peer \in Clients \cup {NoPeer}
  /\ reply \in Seq(Nat) /\ (system = "echo" => Len(reply) <= Buffer)
  /\ client \in [Clients -> {"new", "connected", "sending", "receiving",
                             "closed", "failed", "refused"}]
  /\ text \in [Clients -> Seq(Nat)]
  /\ unsent \in [Clients -> Seq(Nat)]
  /\ up \in [Clients -> Seq(Nat)]
  /\ upEnd \in [Clients -> {"open", "fin", "reset"}]
  /\ down \in [Clients -> Seq(Nat)]
  /\ downEnd \in [Clients -> {"open", "fin", "reset"}]
  /\ shown \in [Clients -> Seq(Seq(Nat))]

\* An echo client that saw the connection closed has received exactly what it
\* sent, in order, however the sends and receives were cut up.
EchoComplete ==
  \A c \in Clients :
    system = "echo" /\ client[c] = "closed" => FlattenSeq(shown[c]) = text[c]

\* A file client that saw the connection closed has received one whole answer,
\* right for the name it sent, or for the beginning of it that reached the
\* server in time for its only recv.
ToldOfItsFile ==
  \A c \in Clients :
    system = "file" /\ client[c] = "closed" =>
      \E n \in 1..Len(text[c]) :
        Told(Take(text[c], n), FlattenSeq(shown[c]))

\* Unless the user names no file, a connection does not hang: both sides end,
\* though the client receives nothing before it has sent everything.
EveryoneEnds ==
  \A c \in Clients :
    client[c] = "sending" /\ text[c] # <<>> ~>
      Gone(c) /\ (peer = c => server = "ended")
=============================================================================
