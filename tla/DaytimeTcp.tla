----------------------------- MODULE DaytimeTcp -----------------------------
(***************************************************************************)
(* The daytime servers on TCP and their client (src/TCP_boostExample): the *)
(* asynchronous server of async_server_TCP.cpp, the synchronous one of     *)
(* Boost_TCP_Server_Main.cpp, which serves one connection at a time, and   *)
(* any number of processes of ClientMain.cpp.                              *)
(*                                                                         *)
(* A connection is named by its client.  Its bytes are in one of three     *)
(* places: with the server's write operation, on the way, or printed.      *)
(***************************************************************************)
EXTENDS Naturals, Sequences

CONSTANTS Clients,    \* processes that run ClientMain.cpp
          Message,    \* the bytes of make_daytime_string()
          Window,     \* the bytes a connection can hold
          MaxErrors   \* bound: accepts and writes that fail by themselves

ASSUME DaytimeAssumption ==
  /\ Message \in Seq(Nat)
  /\ Window \in Nat \ {0}
  /\ MaxErrors \in Nat

VARIABLES program,    \* which of the two servers runs
          idle,       \* clients whose output is paused: they stop reading
          running,    \* the server has not ended
          accepting,  \* an accept is in progress
          accepted,   \* connections whose handle_accept has not run
          refusal,    \* a failed accept: its handle_accept has not run, or it has
              \* ended the synchronous server
          errors,     \* errors so far
          backlog,    \* connections not accepted yet
          writing,    \* connections with a write in progress
          left,       \* left[c]: bytes the write to c has not sent
          wire,       \* wire[c]: bytes sent and not read
          closed,     \* connections whose socket the server has destroyed
          broken,     \* history: connections on which a write failed
          client,     \* what each client is doing
          shown       \* shown[c]: bytes that c has printed

acceptVars == <<accepting, accepted, refusal, backlog>>
writeVars  == <<writing, left, closed, broken>>
clientVars == <<client, shown>>
vars == <<program, idle, running, errors, acceptVars, writeVars, wire,
          clientVars>>

Async == program = "async"
Sync  == program = "sync"

Take(s, n) == SubSeq(s, 1, n)
Drop(s, n) == SubSeq(s, n + 1, Len(s))

-----------------------------------------------------------------------------
(* The clients.                                                            *)

\* connect: the kernel of the server's host completes it.
Connect(c) ==
  /\ client[c] = "new"
  /\ running
  /\ client' = [client EXCEPT ![c] = "connected"]
  /\ backlog' = backlog \cup {c}
  /\ UNCHANGED <<program, idle, running, errors, accepting, accepted, refusal,
                 writeVars, wire, shown>>

\* connect throws, or the client is stopped, or read_some fails.
ClientFails(c) ==
  /\ client[c] \in {"new", "connected"}
  /\ client' = [client EXCEPT ![c] = "failed"]
  /\ UNCHANGED <<program, idle, running, errors, acceptVars, writeVars, wire,
                 shown>>

\* The connection was never accepted by a server that has ended.
Reset(c) ==
  /\ ~running
  /\ c \in backlog
  /\ client[c] = "connected"
  /\ client' = [client EXCEPT ![c] = "reset"]
  /\ UNCHANGED <<program, idle, running, errors, acceptVars, writeVars, wire,
                 shown>>

\* read_some returns some of the bytes that have arrived, which are printed, or
\* the end of the connection.
ReadSome(c) ==
  /\ client[c] = "connected" /\ c \notin idle
  /\ \/ \E n \in 1..Len(wire[c]) :
          /\ shown' = [shown EXCEPT ![c] = @ \o Take(wire[c], n)]
          /\ wire' = [wire EXCEPT ![c] = Drop(@, n)]
          /\ UNCHANGED client
     \/ /\ wire[c] = <<>> /\ c \in closed
        /\ client' = [client EXCEPT ![c] = "done"]
        /\ UNCHANGED <<wire, shown>>
  /\ UNCHANGED <<program, idle, running, errors, acceptVars, writeVars>>

-----------------------------------------------------------------------------
(* Writing, which the two servers have in common.                          *)

\* Part of the message fits in the connection.
WriteSome(c) ==
  /\ c \in writing
  /\ \E n \in 1..Len(left[c]) :
       /\ Len(wire[c]) + n <= Window
       /\ wire' = [wire EXCEPT ![c] = @ \o Take(left[c], n)]
       /\ left' = [left EXCEPT ![c] = Drop(@, n)]
  /\ UNCHANGED <<program, idle, running, errors, acceptVars, writing, closed,
                 broken, clientVars>>

\* The write ends with an error: the client has gone, or something is amiss
\* here.
WriteFails(c) ==
  /\ c \in writing /\ left[c] # <<>>
  /\ \/ client[c] = "failed" /\ UNCHANGED errors
     \/ errors < MaxErrors /\ errors' = errors + 1
  /\ left' = [left EXCEPT ![c] = <<>>]
  /\ broken' = broken \cup {c}
  /\ UNCHANGED <<program, idle, running, acceptVars, writing, closed, wire,
                 clientVars>>

\* start, or the loop's body: the message is made and its write started.
StartWrite(c) ==
  /\ writing' = writing \cup {c}
  /\ left' = [left EXCEPT ![c] = Message]

\* The last reference to the connection, or the socket of the loop, is gone.
CloseConnection(c) ==
  /\ writing' = writing \ {c}
  /\ closed' = closed \cup {c}

-----------------------------------------------------------------------------
(* The asynchronous server.                                                *)

KernelAccept(c) ==
  /\ Async /\ accepting /\ c \in backlog
  /\ accepting' = FALSE
  /\ backlog' = backlog \ {c}
  /\ accepted' = accepted \cup {c}
  /\ UNCHANGED <<program, idle, running, errors, refusal, writeVars, wire,
                 clientVars>>

KernelAcceptError ==
  /\ Async /\ accepting /\ errors < MaxErrors
  /\ accepting' = FALSE
  /\ errors' = errors + 1
  /\ refusal' = TRUE
  /\ UNCHANGED <<program, idle, running, accepted, backlog, writeVars, wire,
                 clientVars>>

\* Mutant: the handlers do not keep the connection: its socket is destroyed
\* when handle_accept returns, whatever the write has sent.
StartsUnshared(c) ==
  /\ c \in accepted
  /\ accepted' = accepted \ {c}
  /\ left' = [left EXCEPT ![c] = <<>>]
  /\ CloseConnection(c)
  /\ accepting' = TRUE
  /\ UNCHANGED <<program, idle, running, errors, refusal, backlog, broken,
                 wire, clientVars>>

\* handle_accept: the connection's write starts, and holds the connection; the
\* next accept starts.
HandleAccept(c) ==
  /\ c \in accepted
  /\ accepted' = accepted \ {c}
  /\ StartWrite(c)
  /\ accepting' = TRUE
  /\ UNCHANGED <<program, idle, running, errors, refusal, backlog, closed,
                 broken, wire, clientVars>>

\* Mutant: the next accept is started only when there is no error.
GivesUp ==
  /\ Async /\ refusal
  /\ refusal' = FALSE
  /\ UNCHANGED <<program, idle, running, errors, accepting, accepted, backlog,
                 writeVars, wire, clientVars>>

\* handle_accept with an error: the next accept starts all the same.
HandleAcceptError ==
  /\ Async /\ refusal
  /\ refusal' = FALSE
  /\ accepting' = TRUE
  /\ UNCHANGED <<program, idle, running, errors, accepted, backlog, writeVars,
                 wire, clientVars>>

\* handle_write does nothing, and with it goes the connection.
HandleWrite(c) ==
  /\ Async /\ c \in writing /\ left[c] = <<>>
  /\ CloseConnection(c)
  /\ UNCHANGED <<program, idle, running, errors, acceptVars, left, broken,
                 wire, clientVars>>

-----------------------------------------------------------------------------
(* The synchronous server.                                                 *)

\* accept returns, and the message is written.
Accept(c) ==
  /\ Sync /\ accepting /\ c \in backlog
  /\ accepting' = FALSE
  /\ backlog' = backlog \ {c}
  /\ StartWrite(c)
  /\ UNCHANGED <<program, idle, running, errors, accepted, refusal, closed,
                 broken, wire, clientVars>>

\* accept throws, which ends the loop and the server.
AcceptThrows ==
  /\ Sync /\ accepting /\ errors < MaxErrors
  /\ accepting' = FALSE
  /\ errors' = errors + 1
  /\ running' = FALSE
  /\ refusal' = TRUE
  /\ UNCHANGED <<program, idle, accepted, backlog, writeVars, wire, clientVars>>

\* Mutant: a write that has failed ends the loop, and the server.
EndsOnError(c) ==
  /\ Sync /\ c \in writing /\ left[c] = <<>>
  /\ CloseConnection(c)
  /\ accepting' = (c \notin broken)
  /\ running' = (c \notin broken)
  /\ UNCHANGED <<program, idle, errors, accepted, refusal, backlog, left,
                 broken, wire, clientVars>>

\* write has returned: its error is ignored, the socket goes out of scope, and
\* the loop accepts the next connection.
EndIteration(c) ==
  /\ Sync /\ c \in writing /\ left[c] = <<>>
  /\ CloseConnection(c)
  /\ accepting' = TRUE
  /\ UNCHANGED <<program, idle, running, errors, accepted, refusal, backlog,
                 left, broken, wire, clientVars>>

-----------------------------------------------------------------------------
\* The constructor, and the loop, start with an accept.
Init ==
  /\ program \in {"async", "sync"}
  /\ idle \in SUBSET Clients
  /\ running = TRUE
  /\ accepting = TRUE
  /\ accepted = {} /\ refusal = FALSE /\ backlog = {}
  /\ errors = 0
  /\ writing = {} /\ closed = {} /\ broken = {}
  /\ left = [c \in Clients |-> <<>>]
  /\ wire = [c \in Clients |-> <<>>]
  /\ client = [c \in Clients |-> "new"]
  /\ shown = [c \in Clients |-> <<>>]

AsyncServer ==
  \/ KernelAcceptError \/ HandleAcceptError
  \/ \E c \in Clients : KernelAccept(c) \/ HandleAccept(c) \/ HandleWrite(c)

SyncServer ==
  \/ AcceptThrows
  \/ \E c \in Clients : Accept(c) \/ EndIteration(c)

Connections ==
  \E c \in Clients :
    \/ Connect(c) \/ ClientFails(c) \/ Reset(c) \/ ReadSome(c)
    \/ WriteSome(c) \/ WriteFails(c)

Next == AsyncServer \/ SyncServer \/ Connections

Spec == Init /\ [][Next]_vars

\* A server's thread goes on; the kernel accepts a connection that waits, tells
\* a client of a server that has ended, and moves bytes; a client reads.
Fairness ==
  /\ WF_vars(HandleAcceptError)
  /\ \A c \in Clients :
       /\ WF_vars(HandleAccept(c)) /\ WF_vars(HandleWrite(c))
       /\ WF_vars(EndIteration(c))
       /\ SF_vars(KernelAccept(c)) /\ SF_vars(Accept(c))
       /\ WF_vars(WriteSome(c) \/ WriteFails(c))
       /\ WF_vars(Reset(c)) /\ WF_vars(ReadSome(c))

FairSpec == Spec /\ Fairness

-----------------------------------------------------------------------------
(* Properties.                                                             *)

TypeOK ==
  /\ program \in {"async", "sync"}
  /\ idle \subseteq Clients
  /\ running \in BOOLEAN
  /\ accepting \in BOOLEAN
  /\ accepted \subseteq Clients
  /\ refusal \in BOOLEAN
  /\ errors \in 0..MaxErrors
  /\ backlog \subseteq Clients
  /\ writing \subseteq Clients
  /\ closed \subseteq Clients
  /\ broken \subseteq Clients
  /\ left \in [Clients -> Seq(Nat)]
  /\ wire \in [Clients -> Seq(Nat)]
  /\ client \in [Clients -> {"new", "connected", "done", "failed", "reset"}]
  /\ shown \in [Clients -> Seq(Nat)]

\* A client that saw the end of its connection has printed the whole message,
\* once, unless a write to it failed: the connection outlives handle_accept, and
\* its socket is not destroyed before all is written.
WholeMessage ==
  \A c \in Clients :
    client[c] = "done" /\ c \notin broken => shown[c] = Message

\* A connection is written to, closed, accepted or waiting, never two of them,
\* and the synchronous server has accepted none while it writes to another.
OnePlace ==
  /\ writing \cap closed = {}
  /\ backlog \cap (accepted \cup writing \cup closed) = {}
  /\ accepted \cap (writing \cup closed) = {}
  /\ Sync => \A c, d \in writing : c = d

\* The asynchronous server hands the day to every client that goes on reading,
\* whatever accepts fail and whoever else stops reading in the middle of the
\* message.
ServedAmongIdle ==
  \A c \in Clients :
    Async /\ client[c] = "connected" /\ c \notin idle
      ~> client[c] \in {"done", "failed"}

\* The synchronous one hands it to all that read, in turn, whatever writes fail.
\* A client goes without it only because an accept has failed, which ends the
\* server, or because the write to one that has stopped reading lasts for ever.
ServedInTurn ==
  \A c \in Clients :
    Sync /\ client[c] = "connected" /\ c \notin idle
      ~> \/ client[c] \in {"done", "failed"}
         \/ client[c] = "reset" /\ refusal
         \/ [](\E d \in idle : d \in writing)
=============================================================================
