-------------------------------- MODULE MCTcp --------------------------------
(* The two systems on TCP for TLC, DaytimeTcp and WinSockTcp.  They share     *)
(* nothing: a behaviour is of the one or of the other, which is settled when  *)
(* it starts, while the system that does not run has come to its end.         *)
EXTENDS DaytimeTcp, TLC

\* What WinSockTcp and FileSizes are parameterised by; Clients and Window are
\* those of DaytimeTcp.
CONSTANTS Size, IntRange, Tests, Names, Buffer, NoPeer

VARIABLES system, server, peer, reply, party, text, unsent, up, upEnd, down,
          downEnd, told

\* Files, one of them too long for an int; the text of the echo clients, and names
\* of files and of none; a daytime string.
MCSize == (<<1>> :> 5) @@ (<<1, 2>> :> 12) @@ (<<1, 2, 3>> :> 7) @@ (<<3>> :> 31)
MCTests == {<<1, 2, 3, 4>>}
MCNames == {<<>>, <<2>>, <<3>>, <<1, 2, 3>>}
Day == <<1, 2, 3>>

WinSock == INSTANCE WinSockTcp WITH client <- party, shown <- told

ASSUME WinSockFits == WinSock!WinSockAssumption

\* Every client has failed to start, and no error is left to happen.
DaytimeOver ==
  /\ program = "async" /\ idle = {} /\ running = TRUE
  /\ accepting = TRUE /\ accepted = {} /\ refusal = FALSE /\ backlog = {}
  /\ errors = MaxErrors
  /\ writing = {} /\ closed = {} /\ broken = {}
  /\ left = [c \in Clients |-> <<>>]
  /\ wire = [c \in Clients |-> <<>>]
  /\ client = [c \in Clients |-> "failed"]
  /\ shown = [c \in Clients |-> <<>>]

\* The server could not be started.
WinSockOver ==
  /\ system = "echo" /\ server = "ended" /\ peer = NoPeer /\ reply = <<>>
  /\ party = [c \in Clients |-> "refused"]
  /\ text = [c \in Clients |-> <<>>]
  /\ unsent = [c \in Clients |-> <<>>]
  /\ up = [c \in Clients |-> <<>>] /\ upEnd = [c \in Clients |-> "open"]
  /\ down = [c \in Clients |-> <<>>] /\ downEnd = [c \in Clients |-> "open"]
  /\ told = [c \in Clients |-> <<>>]

MCInit == (Init /\ WinSockOver) \/ (DaytimeOver /\ WinSock!Init)

winSockVars == <<system, server, peer, reply, party, text, unsent, up, upEnd,
                 down, downEnd, told>>

MCNext == \/ Next /\ UNCHANGED winSockVars
          \/ WinSock!Next /\ UNCHANGED vars

WinSockFairness ==
  /\ WF_winSockVars(WinSock!ServerStep)
  /\ \A c \in Clients : /\ WF_winSockVars(WinSock!ClientStep(c))
                        /\ WF_winSockVars(WinSock!ResetLate(c))

MCSpec == /\ MCInit /\ [][MCNext]_<<vars, winSockVars>>
          /\ Fairness /\ WinSockFairness

EchoComplete  == WinSock!EchoComplete
ToldOfItsFile == WinSock!ToldOfItsFile
EveryoneEnds  == WinSock!EveryoneEnds
=============================================================================
