----------------------- MODULE DaytimeUdpServerProofs -----------------------
(***************************************************************************)
(* Proof that the asynchronous daytime server answers each request once,   *)
(* to its sender, for any set of clients and any network.                  *)
(***************************************************************************)
EXTENDS DaytimeUdpServer, TLAPS

\* handle_receive sends to remote_endpoint_, not to the sender of the request
\* it was called for.  They are the same because only one receive or handler
\* of a receive exists at a time.
OneReceive ==
  /\ heard \subseteq {endpoint}
  /\ rx = 1 => heard = {} /\ failed = 0
  /\ failed = 1 => heard = {}

Inv == TypeOK /\ OneReceive /\ OneAnswerEach

\* The invariant holds when the constructor has started the first receive.
LEMMA InitInv == Init => Inv
<1> SUFFICES ASSUME Init
             PROVE  Inv
  OBVIOUS
<1> USE DEF Init, ClientInit
<1>1. TypeOK
  <2>1. rx \in 0..1 /\ failed \in 0..1 /\ sent \in Nat
    OBVIOUS
  <2>2. /\ client \in [Clients -> {"new", "waiting", "done", "gone"}]
        /\ asked \in [Clients -> Nat]
        /\ answers \in [Clients -> Nat]
        /\ tx \in [Clients -> Nat]
    OBVIOUS
  <2>3. heard \subseteq Clients /\ endpoint \in Clients \cup {NoEndpoint}
    OBVIOUS
  <2>4. refused \in BOOLEAN /\ faulty \in BOOLEAN /\ running \in BOOLEAN
    OBVIOUS
  <2> QED
    BY <2>1, <2>2, <2>3, <2>4 DEF TypeOK, ClientTypeOK
<1>2. OneReceive
  BY DEF OneReceive
<1>3. OneAnswerEach
  <2> SUFFICES ASSUME NEW c \in Clients
               PROVE  Exchange(c) <= (IF client[c] = "new" THEN 0 ELSE 1)
    BY DEF OneAnswerEach
  <2>1. client[c] = "new" /\ asked[c] = 0 /\ answers[c] = 0 /\ tx[c] = 0
    OBVIOUS
  <2> QED
    BY <2>1 DEF Exchange
<1> QED
  BY <1>1, <1>2, <1>3 DEF Inv

\* The steps of the clients and of the network keep the invariant.
LEMMA PeersInv == Inv /\ Peers => Inv'
<1> SUFFICES ASSUME Inv, NEW c \in Clients, ClientNext(c), UNCHANGED serverVars
             PROVE  Inv'
  BY DEF Peers
<1> USE DEF Inv, TypeOK, ClientTypeOK, OneReceive, OneAnswerEach, Exchange,
            serverVars
<1>1. CASE Ask(c)
  <2>1. CASE client' = [client EXCEPT ![c] = "waiting"]
    <3>1. /\ asked' = [asked EXCEPT ![c] = @ + 1]
          /\ client[c] = "new"
          /\ UNCHANGED <<answers, refused>>
      BY <1>1, <2>1 DEF Ask
    <3>2. faulty' \in BOOLEAN
      BY <1>1 DEF Ask
    <3> QED
      BY <2>1, <3>1, <3>2
  <2>2. CASE /\ client' = [client EXCEPT ![c] = "gone"]
             /\ UNCHANGED asked
    <3>1. client[c] = "new" /\ UNCHANGED <<answers, refused>>
      BY <1>1 DEF Ask
    <3>2. faulty' \in BOOLEAN
      BY <1>1 DEF Ask
    <3> QED
      BY <2>2, <3>1, <3>2
  <2> QED
    BY <1>1, <2>1, <2>2 DEF Ask
<1>2. CASE Hear(c)      BY <1>2 DEF Hear
<1>3. CASE Interrupt(c) BY <1>3 DEF Interrupt
<1>4. CASE Lose(c)
  <2>1. faulty' \in BOOLEAN /\ UNCHANGED <<client, refused>>
    BY <1>4 DEF Lose
  <2>2. CASE /\ asked[c] > 0
             /\ asked' = [asked EXCEPT ![c] = @ - 1]
             /\ UNCHANGED answers
    BY <2>1, <2>2
  <2>3. CASE /\ answers[c] > 0
             /\ answers' = [answers EXCEPT ![c] = @ - 1]
             /\ UNCHANGED asked
    BY <2>1, <2>3
  <2> QED
    BY <1>4, <2>2, <2>3 DEF Lose
<1>5. CASE Bounce(c)    BY <1>5 DEF Bounce
<1> QED
  BY <1>1, <1>2, <1>3, <1>4, <1>5 DEF ClientNext

\* The steps of the server and of its kernel keep the invariant.
LEMMA ServerInv == Inv /\ Server => Inv'
<1> SUFFICES ASSUME Inv, Server
             PROVE  Inv'
  OBVIOUS
<1> USE DEF Inv, TypeOK, ClientTypeOK, OneReceive, OneAnswerEach, Exchange,
            clientVars
<1>1. CASE KernelReceiveError
  <2>1. TypeOK'
    <3>1. rx = 1 /\ rx' = 0 /\ failed = 0 /\ failed' = 1
      BY <1>1 DEF KernelReceiveError
    <3>2. rx' \in 0..1 /\ failed' \in 0..1
      BY <3>1
    <3>3. refused' \in BOOLEAN
      BY <1>1 DEF KernelReceiveError
    <3>4. UNCHANGED <<client, asked, answers, faulty, heard, tx, sent, endpoint,
                   running>>
      BY <1>1 DEF KernelReceiveError
    <3> QED
      BY <3>2, <3>3, <3>4
  <2>2. OneReceive'
    BY <1>1 DEF KernelReceiveError
  <2>3. OneAnswerEach'
    BY <1>1 DEF KernelReceiveError
  <2> QED
    BY <2>1, <2>2, <2>3
<1>2. CASE HandleReceiveError BY <1>2 DEF HandleReceiveError
<1>3. CASE HandleSend         BY <1>3 DEF HandleSend
<1>4. CASE Return             BY <1>4 DEF Return
<1>5. ASSUME NEW c \in Clients, KernelReceive(c) PROVE Inv'
  BY <1>5 DEF KernelReceive
<1>6. ASSUME NEW c \in Clients, SendLeaves(c) PROVE Inv'
  BY <1>6 DEF SendLeaves
<1>7. ASSUME NEW c \in Clients, SendFails(c) PROVE Inv'
  BY <1>7 DEF SendFails
<1>8. ASSUME NEW c \in Clients, HandleRequest(c) PROVE Inv'
  BY <1>8 DEF HandleRequest
<1> QED
  BY <1>1, <1>2, <1>3, <1>4, <1>5, <1>6, <1>7, <1>8 DEF Server

\* Every step keeps the invariant.
LEMMA NextInv == Inv /\ [Next]_vars => Inv'
<1>1. Inv /\ UNCHANGED vars => Inv'
  BY DEF Inv, TypeOK, ClientTypeOK, OneReceive, OneAnswerEach, Exchange,
         vars, clientVars, serverVars
<1> QED
  BY <1>1, PeersInv, ServerInv DEF Next

\* Every reachable state satisfies the invariant.
LEMMA Invariance == Spec => []Inv
  BY InitInv, NextInv, PTL DEF Spec

\* The variables of the daytime server and of its clients keep their types: at
\* most one receive is in progress, however many sends are.
THEOREM TypeCorrect == Spec => []TypeOK
<1>1. Inv => TypeOK
  BY DEF Inv
<1> QED
  BY <1>1, Invariance, PTL

\* Each request is answered at most once and to its sender, though the next
\* receive overwrites remote_endpoint_ while answers are being sent.
THEOREM OneAnswer == Spec => []OneAnswerEach
<1>1. Inv => OneAnswerEach
  BY DEF Inv
<1> QED
  BY <1>1, Invariance, PTL

\* The next receive is started by the handler of the one before, and only by
\* that: the handlers of the sends still in progress, and late completions,
\* leave a deaf server deaf.
THEOREM StaysDeaf == Spec => DeafForGood
<1>1. Deaf /\ Next => Deaf'
  <2> SUFFICES ASSUME Deaf, Next PROVE Deaf'
    OBVIOUS
  <2> USE DEF Deaf
  <2>1. CASE Peers
    BY <2>1 DEF Peers, serverVars
  <2>2. CASE Server
    <3>1. CASE \E c \in Clients : KernelReceive(c) \/ HandleRequest(c)
      BY <3>1 DEF KernelReceive, HandleRequest
    <3>2. CASE \E c \in Clients : SendLeaves(c) \/ SendFails(c)
      BY <3>2 DEF SendLeaves, SendFails
    <3>3. CASE KernelReceiveError \/ HandleReceiveError
      BY <3>3 DEF KernelReceiveError, HandleReceiveError
    <3>4. CASE HandleSend \/ Return
      BY <3>4 DEF HandleSend, Return
    <3> QED
      BY <2>2, <3>1, <3>2, <3>3, <3>4 DEF Server
  <2> QED
    BY <2>1, <2>2 DEF Next
<1> QED
  BY <1>1, PTL DEF Spec, DeafForGood
=============================================================================
