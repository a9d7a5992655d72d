--------------------------- MODULE OneShotClients ---------------------------
(***************************************************************************)
(* The clients of the UDP servers on the daytime port                      *)
(* (UDP_boost/.../boost_tutorial_UDP_client.cpp and _client2.cpp): each    *)
(* sends one byte, waits for one datagram, prints it and ends.  Modules of *)
(* the servers extend this one.                                            *)
(*                                                                         *)
(* A request is its sender and an answer its receiver: neither has         *)
(* contents that matter.  Datagrams in flight are counted, not a set, so   *)
(* that a second answer to the same client would be seen.                  *)
(***************************************************************************)
EXTENDS Naturals

CONSTANT Clients  \* one socket of a client each

VARIABLES client,   \* what each client is doing
          asked,    \* requests of each client in flight
          answers,  \* answers to each client in flight
          refused,  \* the server's socket has an ICMP error to report
          faulty    \* history: a datagram was lost, or a program's call failed

clientVars == <<client, asked, answers, refused, faulty>>

ClientInit ==
  /\ client = [c \in Clients |-> "new"]
  /\ asked = [c \in Clients |-> 0]
  /\ answers = [c \in Clients |-> 0]
  /\ refused = FALSE
  /\ faulty = FALSE

\* send_to; an error is thrown, which ends the client.
Ask(c) ==
  /\ client[c] = "new"
  /\ \/ /\ client' = [client EXCEPT ![c] = "waiting"]
        /\ asked' = [asked EXCEPT ![c] = @ + 1]
        /\ UNCHANGED faulty
     \/ /\ client' = [client EXCEPT ![c] = "gone"]
        /\ faulty' = TRUE
        /\ UNCHANGED asked
  /\ UNCHANGED <<answers, refused>>

\* receive_from, and the end of the program.
Hear(c) ==
  /\ client[c] = "waiting"
  /\ answers[c] > 0
  /\ answers' = [answers EXCEPT ![c] = @ - 1]
  /\ client' = [client EXCEPT ![c] = "done"]
  /\ UNCHANGED <<asked, refused, faulty>>

\* The user stops a client that waits, or receive_from throws.
Interrupt(c) ==
  /\ client[c] = "waiting"
  /\ client' = [client EXCEPT ![c] = "gone"]
  /\ faulty' = TRUE
  /\ UNCHANGED <<asked, answers, refused>>

\* A datagram is lost.
Lose(c) ==
  /\ \/ /\ asked[c] > 0
        /\ asked' = [asked EXCEPT ![c] = @ - 1]
        /\ UNCHANGED answers
     \/ /\ answers[c] > 0
        /\ answers' = [answers EXCEPT ![c] = @ - 1]
        /\ UNCHANGED asked
  /\ faulty' = TRUE
  /\ UNCHANGED <<client, refused>>

\* The answer to a client that has ended: its host tells the server's socket.
Bounce(c) ==
  /\ client[c] \in {"done", "gone"}
  /\ answers[c] > 0
  /\ answers' = [answers EXCEPT ![c] = @ - 1]
  /\ refused' = TRUE
  /\ UNCHANGED <<client, asked, faulty>>

ClientNext(c) == Ask(c) \/ Hear(c) \/ Interrupt(c) \/ Lose(c) \/ Bounce(c)

ClientTypeOK ==
  /\ client \in [Clients -> {"new", "waiting", "done", "gone"}]
  /\ asked \in [Clients -> Nat]
  /\ answers \in [Clients -> Nat]
  /\ refused \in BOOLEAN
  /\ faulty \in BOOLEAN
=============================================================================
