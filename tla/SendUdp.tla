------------------------------- MODULE SendUdp -------------------------------
(***************************************************************************)
(* SendUDP.cpp: main starts a thread that binds a socket and receives      *)
(* datagrams, sends it three of them, each from a socket of its own, and   *)
(* joins the thread.  The thread ends after the third datagram.            *)
(*                                                                         *)
(* main sleeps 200 ms before each send, so that the thread has bound its   *)
(* socket by then; nothing in the program makes that so, and here the two  *)
(* threads run at any speed.                                               *)
(***************************************************************************)
EXTENDS Naturals

CONSTANTS Sends  \* the datagrams that are sent, and awaited: 3

\* What the constant must satisfy.
SendsAssumption == Sends \in Nat \ {0}

VARIABLES tooLong,   \* the text is longer than recv_buffer
          sender,    \* main: "sending", "joining" or "returned"
          receiver,  \* what the thread is doing
          count,     \* Client::count
          sent,      \* datagrams sent
          inbox,     \* datagrams in the socket's buffer
          printed,   \* datagrams received and printed
          missed,    \* history: datagrams lost, or sent before there was a socket
          amiss,     \* history: a receive failed
          aborted    \* an exception has left a thread: std::terminate

vars == <<tooLong, sender, receiver, count, sent, inbox, printed, missed,
          amiss, aborted>>

\* open, in Receiver.
Open ==
  /\ ~aborted /\ receiver = "starting"
  /\ receiver' = "open"
  /\ UNCHANGED <<tooLong, sender, count, sent, inbox, printed, missed, amiss,
                 aborted>>

\* bind: from here on datagrams reach the socket; then wait.
Bind ==
  /\ ~aborted /\ receiver = "open"
  /\ receiver' = "waiting"
  /\ UNCHANGED <<tooLong, sender, count, sent, inbox, printed, missed, amiss,
                 aborted>>

\* open, in either thread, or bind throws, and nothing catches it.
Throw ==
  /\ ~aborted
  /\ receiver \in {"starting", "open"} \/ sender = "sending"
  /\ aborted' = TRUE
  /\ UNCHANGED <<tooLong, sender, receiver, count, sent, inbox, printed,
                 missed, amiss>>

\* Sender: the error of send_to is ignored.  The datagram is lost if no socket
\* is bound, and may be lost otherwise.
Sender ==
  /\ ~aborted /\ sender = "sending" /\ sent < Sends
  /\ sent' = sent + 1
  /\ \/ /\ receiver \notin {"starting", "open"}
        /\ inbox' = inbox + 1
        /\ UNCHANGED missed
     \/ /\ missed' = missed + 1
        /\ UNCHANGED inbox
  /\ UNCHANGED <<tooLong, sender, receiver, count, printed, amiss, aborted>>

\* The loop of main ends.
StartJoin ==
  /\ ~aborted /\ sender = "sending" /\ sent = Sends
  /\ sender' = "joining"
  /\ UNCHANGED <<tooLong, receiver, count, sent, inbox, printed, missed, amiss,
                 aborted>>

\* Mutant: the count is compared before it is decremented.
HandleLater ==
  /\ ~aborted /\ receiver = "waiting" /\ inbox > 0 /\ ~tooLong
  /\ inbox' = inbox - 1
  /\ printed' = printed + 1
  /\ count' = count - 1
  /\ receiver' = IF count > 0 THEN "waiting" ELSE "exited"
  /\ UNCHANGED <<tooLong, sender, sent, missed, amiss, aborted>>

\* Mutant: the thread ends one datagram early.
HandleEarly ==
  /\ ~aborted /\ receiver = "waiting" /\ inbox > 0 /\ ~tooLong
  /\ inbox' = inbox - 1
  /\ printed' = printed + 1
  /\ count' = count - 1
  /\ receiver' = IF count' > 1 THEN "waiting" ELSE "exited"
  /\ UNCHANGED <<tooLong, sender, sent, missed, amiss, aborted>>

\* handle_receive: after the last datagram no receive is started, and run
\* returns.
Handle ==
  /\ ~aborted /\ receiver = "waiting" /\ inbox > 0 /\ ~tooLong
  /\ inbox' = inbox - 1
  /\ printed' = printed + 1
  /\ count' = count - 1
  /\ receiver' = IF count' > 0 THEN "waiting" ELSE "exited"
  /\ UNCHANGED <<tooLong, sender, sent, missed, amiss, aborted>>

\* handle_receive with an error, of a datagram that does not fit or of the
\* socket: no receive is started, whatever the count.
HandleError ==
  /\ ~aborted /\ receiver = "waiting"
  /\ \/ tooLong /\ inbox > 0 /\ inbox' = inbox - 1
     \/ UNCHANGED inbox
  /\ amiss' = TRUE
  /\ receiver' = "exited"
  /\ UNCHANGED <<tooLong, sender, count, sent, printed, missed, aborted>>

\* join returns when the thread has ended.
Join ==
  /\ ~aborted /\ sender = "joining" /\ receiver = "exited"
  /\ sender' = "returned"
  /\ UNCHANGED <<tooLong, receiver, count, sent, inbox, printed, missed, amiss,
                 aborted>>

Init ==
  /\ tooLong \in BOOLEAN
  /\ sender = "sending" /\ receiver = "starting"
  /\ count = Sends
  /\ sent = 0 /\ inbox = 0 /\ printed = 0 /\ missed = 0
  /\ amiss = FALSE /\ aborted = FALSE

Receiver == Open \/ Bind \/ Handle \/ HandleError

Main == Sender \/ StartJoin \/ Join

Next == Receiver \/ Main \/ Throw

Spec == Init /\ [][Next]_vars

\* Both threads go on; a receive whose datagram is there ends.
Fairness ==
  /\ WF_vars(Open) /\ WF_vars(Bind)
  /\ WF_vars(inbox > 0 /\ (Handle \/ HandleError))
  /\ WF_vars(Main)

FairSpec == Spec /\ Fairness

-----------------------------------------------------------------------------
(* Properties.                                                             *)

TypeOK ==
  /\ tooLong \in BOOLEAN
  /\ sender \in {"sending", "joining", "returned"}
  /\ receiver \in {"starting", "open", "waiting", "exited"}
  /\ count \in 0..Sends
  /\ sent \in 0..Sends
  /\ inbox \in 0..Sends
  /\ printed \in 0..Sends
  /\ missed \in 0..Sends
  /\ amiss \in BOOLEAN
  /\ aborted \in BOOLEAN

\* When main returns without an error every datagram has been printed: the
\* thread outlives the sends.
AllPrinted == sender = "returned" /\ ~amiss => printed = Sends /\ inbox = 0

\* The join is in vain only when a datagram was lost, or sent before bind.
WaitsForMissed ==
  sender = "joining" /\ receiver = "waiting" /\ inbox = 0 => missed > 0

\* Otherwise main returns.
JoinReturns ==
  sender = "joining" /\ missed = 0 ~> sender = "returned" \/ aborted
=============================================================================
