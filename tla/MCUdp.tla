-------------------------------- MODULE MCUdp --------------------------------
(* The other programs on UDP for TLC, SendUdp and SyncUdp.  They share        *)
(* nothing: a behaviour is of the one or of the other, which is settled when  *)
(* it starts, while the system that does not run has come to its end.         *)
EXTENDS SyncUdp, TLC

CONSTANT Sends

VARIABLES tooLong, sender, receiver, count, sent, inbox, printed, missed, amiss,
          aborted

\* What clients send: nothing, short texts, one as long as the buffer, one with
\* a 0 in it, and one that does not fit.
MCTexts ==
  {<<>>, <<1>>, <<1, 2, 3>>, <<1, 2, 3, 4>>, <<3, 0, 1>>, <<1, 2, 3, 4, 5>>}

\* A file of that many bytes is more, one at most an int.
MCSize == (<<1>> :> 31) @@ (<<1, 2>> :> 12) @@ (<<1, 2, 3>> :> 7)

MCHello == <<7, 7>>

\* A list whose second phone has a field with its default value, and a time that
\* takes two bytes.
MCPhoneLists ==
  {<<[id |-> 1, name |-> <<70>>, network |-> 1, active |-> TRUE, type |-> 0,
      created |-> 3],
     [id |-> 2, name |-> <<70, 71>>, network |-> 0, active |-> TRUE, type |-> 1,
      created |-> 201]>>}

\* The serialised list has 36 bytes.  What follows it is zeros, another phone,
\* or no message at all.
MCJunk ==
  {[i \in 1..40 |-> 0],
   [i \in 1..40 |-> CASE i = 38 -> 2 [] i = 39 -> 8 [] i = 40 -> 5
                      [] OTHER -> 10],
   [i \in 1..40 |-> 255]}

Sending == INSTANCE SendUdp

ASSUME SyncFits == SyncUdpAssumption
ASSUME SendFits == Sending!SendsAssumption

sendVars == <<tooLong, sender, receiver, count, sent, inbox, printed, missed,
              amiss, aborted>>

\* An exception has ended the program at its start.
SendOver ==
  /\ tooLong = FALSE /\ sender = "sending" /\ receiver = "starting"
  /\ count = Sends
  /\ sent = 0 /\ inbox = 0 /\ printed = 0 /\ missed = 0
  /\ amiss = FALSE /\ aborted = TRUE

\* The server has ended and no client was let in.
SyncOver ==
  /\ client = [c \in Clients |-> "gone"]
  /\ asked = [c \in Clients |-> 0] /\ answers = [c \in Clients |-> 0]
  /\ refused = FALSE /\ faulty = TRUE
  /\ system = "hello" /\ server = "ended"
  /\ buffer = [i \in 1..Buffer |-> 9]
  /\ text = [c \in Clients |-> <<>>]
  /\ answer = [c \in Clients |-> <<>>]
  /\ heard = [c \in Clients |-> <<>>]
  /\ overrun = FALSE

MCInit == (Init /\ SendOver) \/ (SyncOver /\ Sending!Init)

MCNext == \/ Next /\ UNCHANGED sendVars
          \/ Sending!Next /\ UNCHANGED vars

SendFairness ==
  /\ WF_sendVars(Sending!Open) /\ WF_sendVars(Sending!Bind)
  /\ WF_sendVars(inbox > 0 /\ (Sending!Handle \/ Sending!HandleError))
  /\ WF_sendVars(Sending!Main)

MCSpec == MCInit /\ [][MCNext]_<<vars, sendVars>> /\ Fairness /\ SendFairness

AllPrinted  == Sending!AllPrinted
JoinReturns == Sending!JoinReturns
=============================================================================
