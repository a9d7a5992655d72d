------------------------------ MODULE TcpProofs ------------------------------
(* Proofs about the two systems on TCP, for any set of clients, any message,  *)
(* texts, names and files, and any size of a connection and of a buffer:      *)
(* the daytime servers first, the WinSock servers after them.                 *)
EXTENDS MCTcp, SequenceTheorems, NaturalsInduction, WellFoundedInduction, TLAPS

-----------------------------------------------------------------------------
(* Sequences that are cut.                                                 *)

\* A part that is sent or read, and what remains, are the whole.
LEMMA Cut ==
  ASSUME NEW s \in Seq(Nat), NEW n \in 1..Len(s)
  PROVE  /\ Take(s, n) \in Seq(Nat)
         /\ Drop(s, n) \in Seq(Nat)
         /\ Take(s, n) \o Drop(s, n) = s
         /\ Len(Take(s, n)) = n
<1>1. Len(s) \in Nat /\ \A i \in 1..Len(s) : s[i] \in Nat
  BY LenProperties, ElementOfSeq
<1>2. Take(s, n) \in Seq(Nat) /\ Len(Take(s, n)) = n
  BY <1>1, SubSeqProperties DEF Take
<1>3. Drop(s, n) \in Seq(Nat)
  BY <1>1, SubSeqProperties DEF Drop
<1>4. SubSeq(s, 1, n) \o SubSeq(s, n + 1, Len(s)) = SubSeq(s, 1, Len(s))
  <2>1. 1 \in 1..Len(s) + 1 /\ n \in (1 - 1)..Len(s) /\ Len(s) \in n..Len(s)
    BY <1>1
  <2> QED BY <2>1, ConcatAdjacentSubSeq
<1> QED BY <1>2, <1>3, <1>4, SubSeqFull DEF Take, Drop

\* Where the three are joined first makes no difference.
Regroups(s, t, u) == (s \o t) \o u = s \o (t \o u)

LEMMA Associative ==
  \A s, t, u \in Seq(Nat) : Regroups(s, t, u)
<1> TAKE s, t, u \in Seq(Nat)
<1> QED BY ConcatAssociative, Z3T(30) DEF Regroups

\* What the write sends goes from the front of what is left to the end of what
\* is on the way.
LEMMA CutRight ==
  ASSUME NEW a \in Seq(Nat), NEW b \in Seq(Nat), NEW s \in Seq(Nat),
         NEW n \in 1..Len(s)
  PROVE  a \o ((b \o Take(s, n)) \o Drop(s, n)) = a \o (b \o s)
<1>1. Take(s, n) \in Seq(Nat) /\ Drop(s, n) \in Seq(Nat)
  BY Cut
<1>2. PICK x \in Seq(Nat) : x = Take(s, n) BY <1>1
<1>3. PICK y \in Seq(Nat) : y = Drop(s, n) BY <1>1
<1>4. Regroups(b, x, y) BY Associative, Zenon
<1> QED BY <1>2, <1>3, <1>4, Cut DEF Regroups

\* What the client reads goes from the front of what is on the way to the end
\* of what is printed.
LEMMA CutLeft ==
  ASSUME NEW a \in Seq(Nat), NEW s \in Seq(Nat), NEW b \in Seq(Nat),
         NEW n \in 1..Len(s)
  PROVE  (a \o Take(s, n)) \o (Drop(s, n) \o b) = a \o (s \o b)
<1>1. Take(s, n) \in Seq(Nat) /\ Drop(s, n) \in Seq(Nat)
  BY Cut
<1>2. PICK x \in Seq(Nat) : x = Take(s, n) BY <1>1
<1>3. PICK y \in Seq(Nat) : y = Drop(s, n) BY <1>1
<1>4. PICK z \in Seq(Nat) : z = y \o b
  BY ONLY y \in Seq(Nat), b \in Seq(Nat), ConcatProperties
<1>5. Regroups(a, x, z) /\ Regroups(x, y, b) BY Associative, Zenon
<1> QED BY <1>2, <1>3, <1>4, <1>5, Cut DEF Regroups

-----------------------------------------------------------------------------
(* The invariant.                                                          *)

\* A connection is in one place at most.
Apart ==
  /\ writing \cap closed = {}
  /\ backlog \cap (accepted \cup writing \cup closed) = {}
  /\ accepted \cap (writing \cup closed) = {}

\* The loop of the synchronous server accepts when it writes to nobody, and no
\* handlers are involved.
OneByOne ==
  Sync =>
    /\ accepted = {}
    /\ accepting => writing = {}
    /\ \A c, d \in writing : c = d

\* Whatever a connection was given is printed, on the way or with the write,
\* in that order; a client is done when the last two are empty.
Bytes(c) ==
  /\ c \in writing \cup closed /\ c \notin broken
       => shown[c] \o (wire[c] \o left[c]) = Message
  /\ c \notin writing \cup closed
       => shown[c] = <<>> /\ wire[c] = <<>> /\ left[c] = <<>>
  /\ c \in closed => left[c] = <<>>
  /\ client[c] = "done" => c \in closed /\ wire[c] = <<>>
  /\ client[c] = "new"
       => c \notin backlog \cup accepted \cup writing \cup closed

IInv == TypeOK /\ Apart /\ OneByOne /\ \A c \in Clients : Bytes(c)

LEMMA InitIInv ==
  ASSUME DaytimeAssumption, Init
  PROVE  IInv
<1>1. TypeOK
  <2>1. errors \in 0..MaxErrors BY DEF Init, DaytimeAssumption
  <2>2. <<>> \in Seq(Nat) BY EmptySeq
  <2> QED BY <2>1, <2>2 DEF Init, TypeOK
<1> QED BY <1>1 DEF Init, IInv, Apart, OneByOne, Bytes

\* What the steps of the connections keep.
LEMMA ConnectionsIInv ==
  ASSUME DaytimeAssumption, IInv, NEW c \in Clients,
         \/ Connect(c) \/ ClientFails(c) \/ Reset(c) \/ ReadSome(c)
         \/ WriteSome(c) \/ WriteFails(c)
  PROVE  IInv'
<1> USE DEF writeVars, clientVars, acceptVars, Sync
<1>0. TypeOK /\ Apart /\ OneByOne /\ \A d \in Clients : Bytes(d)
  BY DEF IInv
<1>1. CASE Connect(c)
  <2>1. TypeOK' BY <1>0, <1>1 DEF TypeOK, Connect
  <2>2. Apart' BY <1>0, <1>1 DEF Apart, Bytes, Connect
  <2>3. OneByOne' BY <1>0, <1>1 DEF OneByOne, Connect
  <2>4. \A d \in Clients : Bytes(d)' BY <1>0, <1>1 DEF Bytes, Connect, TypeOK
  <2> QED BY <2>1, <2>2, <2>3, <2>4 DEF IInv
<1>2. CASE ClientFails(c)
  <2>1. TypeOK' BY <1>0, <1>2 DEF TypeOK, ClientFails
  <2>2. Apart' /\ OneByOne' BY <1>0, <1>2 DEF Apart, OneByOne, ClientFails
  <2>4. \A d \in Clients : Bytes(d)'
    BY <1>0, <1>2 DEF Bytes, ClientFails, TypeOK
  <2> QED BY <2>1, <2>2, <2>4 DEF IInv
<1>3. CASE Reset(c)
  <2>1. TypeOK' BY <1>0, <1>3 DEF TypeOK, Reset
  <2>2. Apart' /\ OneByOne' BY <1>0, <1>3 DEF Apart, OneByOne, Reset
  <2>4. \A d \in Clients : Bytes(d)' BY <1>0, <1>3 DEF Bytes, Reset, TypeOK
  <2> QED BY <2>1, <2>2, <2>4 DEF IInv
<1>4. CASE ReadSome(c)
  <2>1. Apart' /\ OneByOne' BY <1>0, <1>4 DEF Apart, OneByOne, ReadSome
  <2>2. ASSUME NEW n \in 1..Len(wire[c]),
               shown' = [shown EXCEPT ![c] = @ \o Take(wire[c], n)],
               wire' = [wire EXCEPT ![c] = Drop(@, n)],
               UNCHANGED client
        PROVE  TypeOK' /\ \A d \in Clients : Bytes(d)'
    <3>1. /\ shown[c] \in Seq(Nat) /\ wire[c] \in Seq(Nat)
          /\ left[c] \in Seq(Nat)
      BY <1>0 DEF TypeOK
    <3>2. /\ Take(wire[c], n) \in Seq(Nat) /\ Drop(wire[c], n) \in Seq(Nat)
      BY <3>1, Cut
    <3>3. shown[c] \o Take(wire[c], n) \in Seq(Nat)
      BY <3>1, <3>2, ConcatProperties
    <3>4. /\ shown'[c] = shown[c] \o Take(wire[c], n)
          /\ wire'[c] = Drop(wire[c], n)
      BY <1>0, <2>2 DEF TypeOK
    <3>5. shown'[c] \o (wire'[c] \o left[c])
            = shown[c] \o (wire[c] \o left[c])
      <4>1. (shown[c] \o Take(wire[c], n)) \o (Drop(wire[c], n) \o left[c])
              = shown[c] \o (wire[c] \o left[c])
        BY ONLY <3>1, n \in 1..Len(wire[c]), CutLeft
      <4> QED BY <3>4, <4>1
    <3>6. TypeOK'
      BY <1>0, <1>4, <2>2, <3>2, <3>3 DEF TypeOK, ReadSome
    <3>0. Len(wire[c]) # 0 /\ wire[c] # <<>>
      BY <3>1, EmptySeq, LenProperties
    <3>7. wire[c] # <<>> /\ c \in writing \cup closed /\ client[c] = "connected"
      BY <1>0, <1>4, <2>2, <3>0 DEF Bytes, ReadSome
    <3>8. ASSUME NEW d \in Clients PROVE Bytes(d)'
      <4>1. CASE d = c
        BY <1>0, <1>4, <2>2, <3>5, <3>7, <4>1 DEF Bytes, ReadSome
      <4>2. CASE d # c
        <5>1. wire'[d] = wire[d] /\ shown'[d] = shown[d]
          BY <1>0, <2>2, <4>2 DEF TypeOK
        <5> QED BY <1>0, <1>4, <2>2, <5>1 DEF Bytes, ReadSome
      <4> QED BY <4>1, <4>2
    <3> QED BY <3>6, <3>8
  <2>3. ASSUME wire[c] = <<>>, c \in closed,
               client' = [client EXCEPT ![c] = "done"],
               UNCHANGED <<wire, shown>>
        PROVE  TypeOK' /\ \A d \in Clients : Bytes(d)'
    <3>1. TypeOK' BY <1>0, <1>4, <2>3 DEF TypeOK, ReadSome
    <3>2. \A d \in Clients : Bytes(d)'
      BY <1>0, <1>4, <2>3 DEF Bytes, ReadSome, TypeOK
    <3> QED BY <3>1, <3>2
  <2> QED BY <1>4, <2>1, <2>2, <2>3 DEF IInv, ReadSome
<1>5. CASE WriteSome(c)
  <2>1. Apart' /\ OneByOne' BY <1>0, <1>5 DEF Apart, OneByOne, WriteSome
  <2>2. PICK n \in 1..Len(left[c]) :
          /\ wire' = [wire EXCEPT ![c] = @ \o Take(left[c], n)]
          /\ left' = [left EXCEPT ![c] = Drop(@, n)]
    BY <1>5 DEF WriteSome
  <2>3. /\ shown[c] \in Seq(Nat) /\ wire[c] \in Seq(Nat)
        /\ left[c] \in Seq(Nat)
    BY <1>0 DEF TypeOK
  <2>4. Take(left[c], n) \in Seq(Nat) /\ Drop(left[c], n) \in Seq(Nat)
    BY <2>3, Cut
  <2>5. wire[c] \o Take(left[c], n) \in Seq(Nat)
    BY <2>3, <2>4, ConcatProperties
  <2>6. /\ wire'[c] = wire[c] \o Take(left[c], n)
        /\ left'[c] = Drop(left[c], n)
    BY <1>0, <2>2 DEF TypeOK
  <2>7. shown[c] \o (wire'[c] \o left'[c]) = shown[c] \o (wire[c] \o left[c])
    <3>1. shown[c] \o ((wire[c] \o Take(left[c], n)) \o Drop(left[c], n))
            = shown[c] \o (wire[c] \o left[c])
      BY ONLY <2>3, n \in 1..Len(left[c]), CutRight
    <3> QED BY <2>6, <3>1
  <2>8. TypeOK' BY <1>0, <1>5, <2>2, <2>4, <2>5 DEF TypeOK, WriteSome
  <2>9. ASSUME NEW d \in Clients PROVE Bytes(d)'
    <3>1. CASE d = c
      <4>1. c \in writing /\ c \notin closed
        BY <1>0, <1>5 DEF Apart, WriteSome
      <4> QED BY <1>0, <1>5, <2>7, <3>1, <4>1 DEF Bytes, WriteSome
    <3>2. CASE d # c
      <4>1. wire'[d] = wire[d] /\ left'[d] = left[d]
        BY <1>0, <2>2, <3>2 DEF TypeOK
      <4> QED BY <1>0, <1>5, <4>1 DEF Bytes, WriteSome
    <3> QED BY <3>1, <3>2
  <2> QED BY <2>1, <2>8, <2>9 DEF IInv
<1>6. CASE WriteFails(c)
  <2>1. TypeOK'
    BY <1>0, <1>6 DEF TypeOK, WriteFails, DaytimeAssumption
  <2>2. Apart' /\ OneByOne' BY <1>0, <1>6 DEF Apart, OneByOne, WriteFails
  <2>3. c \in writing /\ c \notin closed
    BY <1>0, <1>6 DEF Apart, WriteFails
  <2>4. \A d \in Clients : Bytes(d)'
    BY <1>0, <1>6, <2>3 DEF Bytes, WriteFails, TypeOK
  <2> QED BY <2>1, <2>2, <2>4 DEF IInv
<1> QED BY <1>1, <1>2, <1>3, <1>4, <1>5, <1>6

\* What the asynchronous server's steps keep.
LEMMA AsyncIInv ==
  ASSUME DaytimeAssumption, IInv, AsyncServer
  PROVE  IInv'
<1> USE DEF writeVars, clientVars, acceptVars, Sync
<1>0. TypeOK /\ Apart /\ OneByOne /\ \A d \in Clients : Bytes(d)
  BY DEF IInv
<1>1. CASE KernelAcceptError
  <2>1. TypeOK'
    <3>1. errors' \in 0..MaxErrors
      BY <1>0, <1>1 DEF TypeOK, KernelAcceptError, DaytimeAssumption
    <3> QED BY <1>0, <1>1, <3>1 DEF TypeOK, KernelAcceptError
  <2>2. Apart' /\ OneByOne'
    BY <1>0, <1>1 DEF Apart, OneByOne, KernelAcceptError, Async
  <2>3. \A d \in Clients : Bytes(d)'
    BY <1>0, <1>1 DEF Bytes, KernelAcceptError
  <2> QED BY <2>1, <2>2, <2>3 DEF IInv
<1>2. CASE HandleAcceptError
  <2>1. TypeOK' BY <1>0, <1>2 DEF TypeOK, HandleAcceptError
  <2>2. Apart' /\ OneByOne'
    BY <1>0, <1>2 DEF Apart, OneByOne, HandleAcceptError, Async
  <2>3. \A d \in Clients : Bytes(d)'
    BY <1>0, <1>2 DEF Bytes, HandleAcceptError
  <2> QED BY <2>1, <2>2, <2>3 DEF IInv
<1>3. ASSUME NEW c \in Clients, KernelAccept(c) PROVE IInv'
  <2>1. TypeOK' BY <1>0, <1>3 DEF TypeOK, KernelAccept
  <2>2. Apart' /\ OneByOne'
    BY <1>0, <1>3 DEF Apart, OneByOne, KernelAccept, Async
  <2>3. \A d \in Clients : Bytes(d)'
    BY <1>0, <1>3 DEF Bytes, KernelAccept
  <2> QED BY <2>1, <2>2, <2>3 DEF IInv
<1>4. ASSUME NEW c \in Clients, HandleAccept(c) PROVE IInv'
  <2>1. TypeOK'
    BY <1>0, <1>4 DEF TypeOK, HandleAccept, StartWrite, DaytimeAssumption
  <2>2. Apart' /\ OneByOne'
    BY <1>0, <1>4 DEF Apart, OneByOne, HandleAccept, StartWrite
  <2>3. c \notin writing /\ c \notin closed
    BY <1>0, <1>4 DEF Apart, HandleAccept
  <2>4. <<>> \o (<<>> \o Message) = Message
    BY ConcatEmptySeq DEF DaytimeAssumption
  <2>5. \A d \in Clients : Bytes(d)'
    BY <1>0, <1>4, <2>3, <2>4 DEF Bytes, HandleAccept, StartWrite, TypeOK
  <2> QED BY <2>1, <2>2, <2>5 DEF IInv
<1>5. ASSUME NEW c \in Clients, HandleWrite(c) PROVE IInv'
  <2>1. TypeOK' BY <1>0, <1>5 DEF TypeOK, HandleWrite, CloseConnection
  <2>2. Apart' /\ OneByOne'
    BY <1>0, <1>5 DEF Apart, OneByOne, HandleWrite, CloseConnection, Async
  <2>3. \A d \in Clients : Bytes(d)'
    BY <1>0, <1>5 DEF Bytes, HandleWrite, CloseConnection
  <2> QED BY <2>1, <2>2, <2>3 DEF IInv
<1> QED BY <1>1, <1>2, <1>3, <1>4, <1>5 DEF AsyncServer

\* What the synchronous server's steps keep.
LEMMA SyncIInv ==
  ASSUME DaytimeAssumption, IInv, SyncServer
  PROVE  IInv'
<1> USE DEF writeVars, clientVars, acceptVars, Sync
<1>0. TypeOK /\ Apart /\ OneByOne /\ \A d \in Clients : Bytes(d)
  BY DEF IInv
<1>1. CASE AcceptThrows
  <2>1. TypeOK'
    <3>1. errors' \in 0..MaxErrors
      BY <1>0, <1>1 DEF TypeOK, AcceptThrows, DaytimeAssumption
    <3> QED BY <1>0, <1>1, <3>1 DEF TypeOK, AcceptThrows
  <2>2. Apart' /\ OneByOne' BY <1>0, <1>1 DEF Apart, OneByOne, AcceptThrows
  <2>3. \A d \in Clients : Bytes(d)' BY <1>0, <1>1 DEF Bytes, AcceptThrows
  <2> QED BY <2>1, <2>2, <2>3 DEF IInv
<1>2. ASSUME NEW c \in Clients, Accept(c) PROVE IInv'
  <2>1. TypeOK'
    BY <1>0, <1>2 DEF TypeOK, Accept, StartWrite, DaytimeAssumption
  <2>2. Apart' /\ OneByOne'
    BY <1>0, <1>2 DEF Apart, OneByOne, Accept, StartWrite
  <2>3. c \notin writing /\ c \notin closed
    BY <1>0, <1>2 DEF Apart, Accept
  <2>4. <<>> \o (<<>> \o Message) = Message
    BY ConcatEmptySeq DEF DaytimeAssumption
  <2>5. \A d \in Clients : Bytes(d)'
    BY <1>0, <1>2, <2>3, <2>4 DEF Bytes, Accept, StartWrite, TypeOK
  <2> QED BY <2>1, <2>2, <2>5 DEF IInv
<1>3. ASSUME NEW c \in Clients, EndIteration(c) PROVE IInv'
  <2>1. TypeOK' BY <1>0, <1>3 DEF TypeOK, EndIteration, CloseConnection
  <2>2. Apart' /\ OneByOne'
    BY <1>0, <1>3 DEF Apart, OneByOne, EndIteration, CloseConnection
  <2>3. \A d \in Clients : Bytes(d)'
    BY <1>0, <1>3 DEF Bytes, EndIteration, CloseConnection
  <2> QED BY <2>1, <2>2, <2>3 DEF IInv
<1> QED BY <1>1, <1>2, <1>3 DEF SyncServer

LEMMA StutterIInv ==
  ASSUME IInv, UNCHANGED vars
  PROVE  IInv'
BY DEF IInv, TypeOK, Apart, OneByOne, Bytes, Sync, vars, acceptVars, writeVars,
       clientVars

LEMMA Invariance ==
  ASSUME DaytimeAssumption
  PROVE  Spec => []IInv
<1>1. Init => IInv BY InitIInv
<1>2. IInv /\ [Next]_vars => IInv'
  BY ConnectionsIInv, AsyncIInv, SyncIInv, StutterIInv DEF Next, Connections
<1> QED BY <1>1, <1>2, PTL DEF Spec

-----------------------------------------------------------------------------
(* The theorems.                                                           *)

\* The servers keep their types: every connection has at most the bytes of one
\* message, and errors stay within their bound.
THEOREM TypeCorrect ==
  ASSUME DaytimeAssumption
  PROVE  Spec => []TypeOK
<1>1. IInv => TypeOK BY DEF IInv
<1> QED BY <1>1, Invariance, PTL

\* A connection is waiting, accepted, written to or closed, never two of these,
\* and the synchronous server writes to one at a time.
THEOREM InOnePlace ==
  ASSUME DaytimeAssumption
  PROVE  Spec => []OnePlace
<1>1. IInv => OnePlace BY DEF IInv, Apart, OneByOne, OnePlace
<1> QED BY <1>1, Invariance, PTL

\* A client that saw the end of its connection has printed the whole message,
\* in order and once, however it was cut up on the way, unless a write to it
\* failed.
THEOREM WholeMessageRead ==
  ASSUME DaytimeAssumption
  PROVE  Spec => []WholeMessage
<1>1. IInv => WholeMessage
  <2> SUFFICES ASSUME IInv, NEW c \in Clients, client[c] = "done",
                      c \notin broken
               PROVE  shown[c] = Message
    BY DEF WholeMessage
  <2>1. /\ shown[c] \o (wire[c] \o left[c]) = Message
        /\ wire[c] = <<>> /\ left[c] = <<>>
    BY DEF IInv, Bytes
  <2>2. shown[c] \in Seq(Nat) BY DEF IInv, TypeOK
  <2>3. <<>> \o <<>> = <<>> BY ConcatEmptySeq, EmptySeq
  <2> QED BY <2>1, <2>2, <2>3, ConcatEmptySeq
<1> QED BY <1>1, Invariance, PTL

-----------------------------------------------------------------------------
(* Sequences that are joined, and digits: induction over numbers, through the *)
(* least number for which what is to be shown would not hold.                 *)

\* Numbers have a least one.
LEMMA HasLeast ==
  ASSUME NEW S, S \subseteq Nat, S # {}
  PROVE  \E i \in S : \A j \in S : i <= j
<1> DEFINE Less == {ss \in Nat \X Nat : ss[1] < ss[2]}
<1>1. IsWellFoundedOn(Less, Nat)
  BY NatLessThanWellFounded DEF OpToRel, Less
<1>2. \A i, j \in S : <<j, i>> \in Less <=> j < i OBVIOUS
<1> HIDE DEF Less
<1>3. \E x \in S : \A y \in S : ~(<<y, x>> \in Less)
  BY ONLY <1>1, WFMin, S \subseteq Nat, S # {}
<1>4. PICK i \in S : \A j \in S : ~(<<j, i>> \in Less)
  BY <1>3
<1>5. ASSUME NEW j \in S PROVE i <= j
  <2>1. ~(j < i) BY <1>2, <1>4
  <2>2. i \in Nat /\ j \in Nat OBVIOUS
  <2> QED BY <2>1, <2>2
<1> QED BY <1>5

\* f joins the first n of the sequences in s, one after the other.
Joins(f, s, n) ==
  f = [i \in 1..n |-> IF i = 1 THEN s[i] ELSE f[i - 1] \o s[i]]

\* There is such a function for every n.
LEMMA JoinsOneMore ==
  ASSUME NEW s, NEW n \in Nat, NEW f, Joins(f, s, n)
  PROVE  \E g : Joins(g, s, n + 1)
<1> DEFINE next == IF n = 0 THEN s[1] ELSE f[n] \o s[n + 1]
           g == [i \in 1..(n + 1) |-> IF i = n + 1 THEN next ELSE f[i]]
<1>1. ASSUME NEW i \in 1..(n + 1)
      PROVE  g[i] = IF i = 1 THEN s[i] ELSE g[i - 1] \o s[i]
  <2>1. CASE i = n + 1 /\ n = 0
    BY <2>1
  <2>2. CASE i = n + 1 /\ n # 0
    <3>1. n \in 1..(n + 1) /\ n # n + 1 /\ i - 1 = n /\ i # 1 BY <2>2
    <3>2. g[n] = f[n] BY <3>1
    <3>3. g[i] = f[n] \o s[n + 1] BY <2>2
    <3> QED BY <2>2, <3>1, <3>2, <3>3
  <2>3. CASE i # n + 1
    <3>1. i \in 1..n BY <2>3
    <3>2. f[i] = IF i = 1 THEN s[i] ELSE f[i - 1] \o s[i]
      BY <3>1 DEF Joins
    <3>3. g[i] = f[i] BY <2>3
    <3>4. i # 1 => i - 1 \in 1..(n + 1) /\ i - 1 # n + 1 BY <3>1
    <3>5. i # 1 => g[i - 1] = f[i - 1] BY <3>4
    <3> QED BY <3>2, <3>3, <3>5
  <2> QED BY <2>1, <2>2, <2>3
<1>2. g = [i \in 1..(n + 1) |-> g[i]] OBVIOUS
<1> HIDE DEF g
<1>3. Joins(g, s, n + 1) BY <1>1, <1>2 DEF Joins
<1> QED BY <1>3

LEMMA JoinsAll ==
  ASSUME NEW s, NEW n \in Nat
  PROVE  \E f : Joins(f, s, n)
<1> DEFINE No == {m \in Nat : ~\E f : Joins(f, s, m)}
<1>1. 0 \notin No
  <2>1. Joins(<<>>, s, 0) BY DEF Joins
  <2> QED BY <2>1
<1>2. No = {}
  <2> SUFFICES ASSUME No # {} PROVE FALSE OBVIOUS
  <2>0. No \subseteq Nat OBVIOUS
  <2> HIDE DEF No
  <2>1. PICK m \in No : \A j \in No : m <= j BY <2>0, HasLeast
  <2>2. m \in Nat /\ m # 0 BY <1>1, <2>0, <2>1
  <2>3. m - 1 \in Nat /\ m - 1 \notin No BY <2>0, <2>1, <2>2
  <2>4. PICK f : Joins(f, s, m - 1) BY <2>3 DEF No
  <2>5. \E g : Joins(g, s, (m - 1) + 1) BY <2>3, <2>4, JoinsOneMore
  <2>6. (m - 1) + 1 = m BY <2>2
  <2> QED BY <2>5, <2>6, <2>1 DEF No
<1> QED BY <1>2

\* FlattenSeq is the last value of that function.
LEMMA Flattens ==
  ASSUME NEW s, Len(s) \in Nat, Len(s) # 0
  PROVE  \E f : Joins(f, s, Len(s)) /\ WinSock!FlattenSeq(s) = f[Len(s)]
<1> DEFINE f == CHOOSE g : Joins(g, s, Len(s))
<1>1. Joins(f, s, Len(s)) BY JoinsAll
<1>2. WinSock!FlattenSeq(s) = f[Len(s)] BY DEF WinSock!FlattenSeq, Joins
<1> QED BY <1>1, <1>2

\* s and t begin with the same n elements.
Agree(s, t, n) == \A i \in 1..n : s[i] = t[i]

\* The beginning of what is joined does not depend on the rest.
LEMMA JoinsSame ==
  ASSUME NEW s, NEW t, NEW n \in Nat, NEW m \in Nat, n <= m, NEW f, NEW g,
         Joins(f, s, n), Joins(g, t, m), Agree(s, t, n)
  PROVE  Agree(f, g, n)
<1> DEFINE No == {i \in 1..n : f[i] # g[i]}
<1> SUFFICES ASSUME No # {} PROVE FALSE BY DEF Agree
<1>0. No \subseteq Nat /\ No \subseteq 1..n OBVIOUS
<1> HIDE DEF No
<1>1. PICK i \in No : \A j \in No : i <= j BY <1>0, HasLeast
<1>2. i \in 1..n /\ i \in 1..m BY <1>0, <1>1
<1>3. f[i] = IF i = 1 THEN s[i] ELSE f[i - 1] \o s[i] BY <1>2 DEF Joins
<1>4. g[i] = IF i = 1 THEN t[i] ELSE g[i - 1] \o t[i] BY <1>2 DEF Joins
<1>9. s[i] = t[i] BY <1>2 DEF Agree
<1>5. i # 1 => i - 1 \in 1..n /\ i - 1 \notin No BY <1>1, <1>2
<1>6. i # 1 => f[i - 1] = g[i - 1] BY <1>5 DEF No
<1>7. f[i] = g[i] BY <1>2, <1>3, <1>4, <1>6, <1>9
<1> QED BY <1>1, <1>7 DEF No

\* FlattenSeq of one more sequence is longer by it.
LEMMA FlattenEmpty == WinSock!FlattenSeq(<<>>) = <<>>
BY DEF WinSock!FlattenSeq

LEMMA FlattenAppend ==
  ASSUME NEW s \in Seq(Seq(Nat)), NEW x \in Seq(Nat)
  PROVE  WinSock!FlattenSeq(Append(s, x)) = WinSock!FlattenSeq(s) \o x
<1>1. PICK t : t = Append(s, x) OBVIOUS
<1>2. PICK n \in Nat : n = Len(s) OBVIOUS
<1>3. PICK m \in Nat : m = n + 1 OBVIOUS
<1>4. Len(t) = m /\ t[m] = x /\ \A i \in 1..n : s[i] = t[i]
  BY <1>1, <1>2, <1>3
<1>5. m \in Nat /\ m # 0 /\ m \in 1..m /\ n <= m BY <1>3
<1>6. PICK g : Joins(g, t, m) /\ WinSock!FlattenSeq(t) = g[m]
  BY <1>4, <1>5, Flattens
<1>7. g[m] = IF m = 1 THEN t[m] ELSE g[m - 1] \o t[m]
  BY <1>5, <1>6 DEF Joins
<1>8. CASE s = <<>>
  <2>1. n = 0 BY <1>2, <1>8
  <2>2. <<>> \o x = x OBVIOUS
  <2>3. g[m] = x BY <1>3, <1>4, <1>7, <2>1
  <2> QED BY <1>1, <1>6, <1>8, <2>2, <2>3, FlattenEmpty
<1>9. CASE s # <<>>
  <2>0. n # 0 BY <1>2, <1>9
  <2>1. PICK f : Joins(f, s, n) /\ WinSock!FlattenSeq(s) = f[n]
    BY <1>2, <2>0, Flattens
  <2>2. \A i \in 1..n : f[i] = g[i]
    <3>2. Joins(f, s, n) BY <2>1
    <3>3. Joins(g, t, m) BY <1>6
    <3>4. n <= m BY <1>5
    <3>5. Agree(s, t, n) BY <1>4 DEF Agree
    <3>6. Agree(f, g, n)
      BY ONLY n \in Nat, m \in Nat, <3>2, <3>3, <3>4, <3>5, JoinsSame
    <3> QED BY <3>6 DEF Agree
  <2>3. n \in 1..n /\ m - 1 = n /\ m # 1 BY <1>3, <2>0
  <2>4. f[n] = g[n] BY <2>2, <2>3
  <2> QED BY <1>1, <1>4, <1>6, <1>7, <2>1, <2>3, <2>4
<1> QED BY <1>8, <1>9

LEMMA FlattenType ==
  ASSUME NEW s \in Seq(Seq(Nat))
  PROVE  WinSock!FlattenSeq(s) \in Seq(Nat)
<1>1. CASE s = <<>>
  <2>1. WinSock!FlattenSeq(s) = <<>> BY <1>1, FlattenEmpty
  <2> QED BY <2>1
<1>2. CASE s # <<>>
  <2>1. Len(s) \in Nat /\ Len(s) # 0 /\ \A i \in 1..Len(s) : s[i] \in Seq(Nat)
    BY <1>2
  <2>2. PICK f : Joins(f, s, Len(s)) /\ WinSock!FlattenSeq(s) = f[Len(s)]
    BY <2>1, Flattens
  <2> DEFINE No == {i \in 1..Len(s) : f[i] \notin Seq(Nat)}
  <2>3. No = {}
    <3> SUFFICES ASSUME No # {} PROVE FALSE OBVIOUS
    <3>0. No \subseteq Nat /\ No \subseteq 1..Len(s) OBVIOUS
    <3> HIDE DEF No
    <3>1. PICK i \in No : \A j \in No : i <= j BY <3>0, HasLeast
    <3>2. i \in 1..Len(s) BY <3>0, <3>1
    <3>3. f[i] = IF i = 1 THEN s[i] ELSE f[i - 1] \o s[i]
      BY <2>2, <3>2 DEF Joins
    <3>4. i # 1 => i - 1 \in 1..Len(s) /\ i - 1 \notin No BY <3>1, <3>2
    <3>5. i # 1 => f[i - 1] \in Seq(Nat) BY <3>4 DEF No
    <3>6. s[i] \in Seq(Nat) BY <2>1, <3>2
    <3>7. f[i] \in Seq(Nat) BY <3>3, <3>5, <3>6
    <3> QED BY <3>1, <3>7 DEF No
  <2>4. Len(s) \in 1..Len(s) BY <2>1
  <2>5. f[Len(s)] \in Seq(Nat) BY <2>3, <2>4
  <2> QED BY <2>2, <2>5
<1> QED BY <1>1, <1>2

-----------------------------------------------------------------------------
(* What std::to_string writes.                                             *)

\* g writes the numbers up to n.
Writes(g, n) ==
  g = [i \in 0..n |-> IF i < 10 THEN <<i>> ELSE Append(g[i \div 10], i % 10)]

\* There is such a function for every n, and they agree.
LEMMA WritesOneMore ==
  ASSUME NEW n \in Nat, NEW f, Writes(f, n)
  PROVE  \E g : Writes(g, n + 1)
<1> DEFINE m == n + 1
           next == IF m < 10 THEN <<m>> ELSE Append(f[m \div 10], m % 10)
           g == [i \in 0..m |-> IF i = m THEN next ELSE f[i]]
<1>0. \A i \in Nat : i >= 10 => i \div 10 \in Nat /\ i \div 10 < i OBVIOUS
<1>1. ASSUME NEW i \in 0..m
      PROVE  g[i] = IF i < 10 THEN <<i>> ELSE Append(g[i \div 10], i % 10)
  <2>1. i >= 10 => i \div 10 \in 0..n /\ i \div 10 # m /\ i \div 10 \in 0..m
    BY <1>0
  <2>2. i >= 10 => g[i \div 10] = f[i \div 10] BY <2>1
  <2>3. CASE i = m BY <2>2, <2>3
  <2>4. CASE i # m
    <3>1. i \in 0..n /\ g[i] = f[i] BY <2>4
    <3>2. f[i] = IF i < 10 THEN <<i>> ELSE Append(f[i \div 10], i % 10)
      BY <3>1 DEF Writes
    <3> QED BY <2>2, <3>1, <3>2
  <2> QED BY <2>3, <2>4
<1>2. g = [i \in 0..m |-> g[i]] OBVIOUS
<1> HIDE DEF g
<1>3. Writes(g, m) BY <1>1, <1>2 DEF Writes
<1> QED BY <1>3

LEMMA WritesAll ==
  ASSUME NEW n \in Nat
  PROVE  \E f : Writes(f, n)
<1> DEFINE No == {m \in Nat : ~\E f : Writes(f, m)}
<1>1. 0 \notin No
  <2>1. Writes([i \in 0..0 |-> <<i>>], 0) BY DEF Writes
  <2> QED BY <2>1
<1>2. No = {}
  <2> SUFFICES ASSUME No # {} PROVE FALSE OBVIOUS
  <2>0. No \subseteq Nat OBVIOUS
  <2> HIDE DEF No
  <2>1. PICK m \in No : \A j \in No : m <= j BY <2>0, HasLeast
  <2>2. m \in Nat /\ m # 0 BY <1>1, <2>0, <2>1
  <2>3. m - 1 \in Nat /\ m - 1 \notin No BY <2>0, <2>1, <2>2
  <2>4. PICK f : Writes(f, m - 1) BY <2>3 DEF No
  <2>5. \E g : Writes(g, (m - 1) + 1) BY <2>3, <2>4, WritesOneMore
  <2>6. (m - 1) + 1 = m BY <2>2
  <2> QED BY <2>5, <2>6, <2>1 DEF No
<1> QED BY <1>2

LEMMA WritesSame ==
  ASSUME NEW n \in Nat, NEW m \in Nat, n <= m, NEW f, NEW g,
         Writes(f, n), Writes(g, m)
  PROVE  \A i \in 0..n : f[i] = g[i]
<1> DEFINE No == {i \in 0..n : f[i] # g[i]}
<1> SUFFICES ASSUME No # {} PROVE FALSE OBVIOUS
<1>0. No \subseteq Nat /\ No \subseteq 0..n OBVIOUS
<1> HIDE DEF No
<1>1. PICK i \in No : \A j \in No : i <= j BY <1>0, HasLeast
<1>2. i \in 0..n /\ i \in 0..m BY <1>0, <1>1
<1>3. f[i] = IF i < 10 THEN <<i>> ELSE Append(f[i \div 10], i % 10)
  BY <1>2 DEF Writes
<1>4. g[i] = IF i < 10 THEN <<i>> ELSE Append(g[i \div 10], i % 10)
  BY <1>2 DEF Writes
<1>5. i >= 10 => i \div 10 \in 0..n /\ i \div 10 < i
  <2>1. i \in Nat /\ i <= n BY <1>2
  <2>2. i >= 10 => i \div 10 \in Nat /\ i \div 10 < i BY <2>1
  <2> QED BY <2>1, <2>2
<1>6. i >= 10 => i \div 10 \notin No
  <2> SUFFICES ASSUME i >= 10, i \div 10 \in No PROVE FALSE OBVIOUS
  <2> DEFINE k == i \div 10
  <2>1. k \in Nat /\ i \in Nat /\ k < i BY <1>2, <1>5
  <2> HIDE DEF k
  <2>2. i <= k BY <1>1 DEF k
  <2> QED BY <2>1, <2>2
<1>7. i >= 10 => f[i \div 10] = g[i \div 10] BY <1>5, <1>6 DEF No
<1>8. f[i] = g[i] BY <1>2, <1>3, <1>4, <1>7
<1> QED BY <1>1, <1>8 DEF No

\* The function of all numbers that Digits is defined as exists.
LEMMA DigitsWrite ==
  WinSock!Digits =
    [i \in Nat |-> IF i < 10 THEN <<i>>
                   ELSE Append(WinSock!Digits[i \div 10], i % 10)]
<1> DEFINE part[n \in Nat] == CHOOSE f : Writes(f, n)
           all == [n \in Nat |-> part[n][n]]
<1>1. ASSUME NEW n \in Nat PROVE Writes(part[n], n) BY WritesAll
<1>2. ASSUME NEW i \in Nat
      PROVE  all[i] = IF i < 10 THEN <<i>> ELSE Append(all[i \div 10], i % 10)
  <2>1. part[i][i]
          = IF i < 10 THEN <<i>> ELSE Append(part[i][i \div 10], i % 10)
    <3>1. Writes(part[i], i) /\ i \in 0..i BY <1>1
    <3> HIDE DEF part
    <3> QED BY <3>1 DEF Writes
  <2>2. i >= 10 => i \div 10 \in Nat /\ i \div 10 <= i OBVIOUS
  <2>3. i >= 10 => part[i][i \div 10] = part[i \div 10][i \div 10]
    <3> SUFFICES ASSUME i >= 10
                 PROVE  part[i][i \div 10] = part[i \div 10][i \div 10]
      OBVIOUS
    <3> DEFINE k == i \div 10
    <3>1. k \in Nat /\ k <= i /\ k \in 0..k BY <2>2
    <3> HIDE DEF k
    <3>2. Writes(part[i], i) /\ Writes(part[k], k) BY <1>1, <3>1
    <3> HIDE DEF part
    <3>3. part[k][k] = part[i][k] BY <3>1, <3>2, WritesSame
    <3> QED BY <3>3 DEF k
  <2>4. all[i] = part[i][i] OBVIOUS
  <2>5. i >= 10 => all[i \div 10] = part[i \div 10][i \div 10] BY <2>2
  <2> HIDE DEF part, all
  <2> QED BY <2>1, <2>3, <2>4, <2>5
<1>3. all = [i \in Nat |-> all[i]] OBVIOUS
<1> HIDE DEF all
<1>4. all = [i \in Nat |-> IF i < 10 THEN <<i>>
                                     ELSE Append(all[i \div 10], i % 10)]
  BY <1>2, <1>3
<1> QED BY <1>4 DEF WinSock!Digits

LEMMA DigitOfOne == WinSock!Digits[1] = <<1>>
BY DigitsWrite

-----------------------------------------------------------------------------
(* The WinSock servers.                                                    *)

\* As Cut and CutLeft above, for the operators of WinSockTcp.
LEMMA Parts ==
  ASSUME NEW s \in Seq(Nat), NEW n \in 1..Len(s)
  PROVE  /\ WinSock!Take(s, n) \in Seq(Nat)
         /\ WinSock!Drop(s, n) \in Seq(Nat)
         /\ WinSock!Take(s, n) \o WinSock!Drop(s, n) = s
         /\ Len(WinSock!Take(s, n)) = n
BY Cut DEF Take, Drop, WinSock!Take, WinSock!Drop

LEMMA PartsLeft ==
  ASSUME NEW a \in Seq(Nat), NEW s \in Seq(Nat), NEW b \in Seq(Nat),
         NEW n \in 1..Len(s)
  PROVE  (a \o WinSock!Take(s, n)) \o (WinSock!Drop(s, n) \o b)
           = a \o (s \o b)
BY CutLeft DEF Take, Drop, WinSock!Take, WinSock!Drop

LEMMA MoveOn ==
  ASSUME NEW a \in Seq(Nat), NEW s \in Seq(Nat), NEW n \in 1..Len(s)
  PROVE  (a \o WinSock!Take(s, n)) \o WinSock!Drop(s, n) = a \o s
<1>1. WinSock!Take(s, n) \in Seq(Nat) /\ WinSock!Drop(s, n) \in Seq(Nat)
  BY Parts
<1>2. (a \o WinSock!Take(s, n)) \o WinSock!Drop(s, n)
        = a \o (WinSock!Take(s, n) \o WinSock!Drop(s, n))
  <2>1. Regroups(a, WinSock!Take(s, n), WinSock!Drop(s, n))
    BY <1>1, Associative, Zenon
  <2> QED BY ONLY <2>1, Zenon DEF Regroups
<1> QED BY <1>2, Parts

\* The digits of a number are numbers.
LEMMA DigitsType == ASSUME NEW n \in Nat PROVE WinSock!Digits[n] \in Seq(Nat)
<1> DEFINE No == {m \in Nat : WinSock!Digits[m] \notin Seq(Nat)}
<1>1. No = {}
  <2> SUFFICES ASSUME No # {} PROVE FALSE OBVIOUS
  <2>0. No \subseteq Nat OBVIOUS
  <2> HIDE DEF No
  <2>1. PICK m \in No : \A j \in No : m <= j BY <2>0, HasLeast
  <2>2. m \in Nat BY <2>0, <2>1
  <2> DEFINE k == m \div 10
             r == m % 10
  <2>3. m >= 10 => k \in Nat /\ k < m BY <2>2
  <2>4. r \in Nat BY <2>2
  <2>5. WinSock!Digits[m]
          = IF m < 10 THEN <<m>> ELSE Append(WinSock!Digits[k], r)
    BY <2>2, DigitsWrite
  <2> HIDE DEF k, r
  <2>6. m >= 10 => WinSock!Digits[k] \in Seq(Nat)
    <3>1. m >= 10 => ~(m <= k) BY <2>2, <2>3
    <3>2. m >= 10 => k \notin No BY <2>1, <3>1
    <3> QED BY <2>3, <3>2 DEF No
  <2>7. CASE m < 10
    <3>1. WinSock!Digits[m] = <<m>> BY <2>5, <2>7
    <3>2. <<m>> \in Seq(Nat) BY <2>2
    <3> QED BY <2>1, <3>1, <3>2 DEF No
  <2>8. CASE m >= 10
    <3>1. WinSock!Digits[m] = Append(WinSock!Digits[k], r) BY <2>2, <2>5, <2>8
    <3>2. Append(WinSock!Digits[k], r) \in Seq(Nat) BY <2>4, <2>6, <2>8
    <3> QED BY <2>1, <3>1, <3>2 DEF No
  <2> QED BY <2>2, <2>7, <2>8
<1> QED BY <1>1

LEMMA DecimalType ==
  ASSUME WinSock!FileSizesAssumption, NEW s
  PROVE  WinSock!Decimal(WinSock!FileSize(s)) \in Seq(Nat)
<1>1. WinSock!FileSize(s) \in Int
  <2>1. (IF s \in DOMAIN Size THEN Size[s] ELSE -1) \in Int
    BY DEF WinSock!FileSizesAssumption
  <2>2. \A n \in Int : WinSock!AsInt(n) \in Int
    BY DEF WinSock!AsInt, WinSock!FileSizesAssumption
  <2> QED BY <2>1, <2>2 DEF WinSock!FileSize
<1>2. ASSUME NEW n \in Int PROVE WinSock!Decimal(n) \in Seq(Nat)
  <2>1. CASE n < 0
    <3>1. -n \in Nat BY <2>1
    <3>2. WinSock!Digits[-n] \in Seq(Nat) BY <3>1, DigitsType
    <3>3. <<WinSock!Minus>> \in Seq(Nat) BY DEF WinSock!Minus
    <3>4. <<WinSock!Minus>> \o WinSock!Digits[-n] \in Seq(Nat) BY <3>2, <3>3
    <3> QED BY <2>1, <3>4 DEF WinSock!Decimal
  <2>2. CASE ~(n < 0)
    <3>1. n \in Nat BY <2>2
    <3> QED BY <2>2, <3>1, DigitsType DEF WinSock!Decimal
  <2> QED BY <2>1, <2>2
<1> QED BY <1>1, <1>2

-----------------------------------------------------------------------------
\* What c has been shown.
Read(c) == WinSock!FlattenSeq(told[c])

\* The server has a peer from accept on; it has nothing left to send unless it
\* sends, or has failed.
ServerPlace ==
  /\ server \in {"new", "listening"} => peer = NoPeer
  /\ peer = NoPeer => server \in {"new", "listening", "ended"} /\ reply = <<>>
  /\ server \notin {"sending", "ended"} => reply = <<>>

\* A client has sent nothing before it sends, and all of it when it receives;
\* the end of a connection comes when the server has nothing left to send.
ClientPlace(c) ==
  /\ party[c] \in {"new", "refused", "connected"}
       => text[c] = <<>> /\ unsent[c] = <<>> /\ up[c] = <<>>
  /\ party[c] \in {"receiving", "closed"} => unsent[c] = <<>>
  /\ upEnd[c] = "fin" =>
       unsent[c] = <<>> /\ party[c] \in {"receiving", "closed", "failed"}
  /\ upEnd[c] = "fin" /\ system = "file" => downEnd[c] # "open"
  /\ downEnd[c] = "fin" => peer = c /\ server = "ended" /\ reply = <<>>
  /\ peer \in {NoPeer, c} /\ server # "ended" => downEnd[c] = "open"
  /\ party[c] = "closed" =>
       peer = c /\ server = "ended" /\ reply = <<>> /\ down[c] = <<>>

\* A connection whose server has taken nothing from it.
Untaken(c) ==
  told[c] = <<>> /\ down[c] = <<>> /\ text[c] = up[c] \o unsent[c]

\* The connection has ended well, as the network or the client knows.
Over(c) == downEnd[c] = "fin" \/ party[c] = "closed"

\* In the echo system no byte is lost, made or moved.
Echoed(c) ==
  /\ peer = c =>
       text[c] = Read(c) \o (down[c] \o (reply \o (up[c] \o unsent[c])))
  /\ (peer = c /\ server = "closing") \/ Over(c)
       => up[c] = <<>> /\ unsent[c] = <<>>
          /\ party[c] \in {"receiving", "closed", "failed"}

\* In the file system what c reads, has on its way and is still
\* sent is one answer.
Answered(c) ==
  \E n \in 1..Len(text[c]) :
    WinSock!Decimal(WinSock!FileSize(WinSock!Take(text[c], n)))
      = Read(c) \o (down[c] \o reply)

FileTold(c) ==
  /\ peer = c /\ server = "receiving" => Untaken(c)
  /\ (peer = c /\ server \in {"sending", "closing"}) \/ Over(c) => Answered(c)

PartyBytes(c) ==
  /\ peer # c => Untaken(c)
  /\ system = "echo" => Echoed(c)
  /\ system = "file" => FileTold(c)

TcpInv ==
  /\ WinSock!TypeOK /\ ServerPlace
  /\ \A c \in Clients : ClientPlace(c) /\ PartyBytes(c)

LEMMA InitTcpInv ==
  ASSUME WinSock!WinSockAssumption, WinSock!Init
  PROVE  TcpInv
<1>0. <<>> \in Seq(Nat) /\ <<>> \in Seq(Seq(Nat)) /\ Len(<<>>) = 0
      /\ Buffer \in Nat /\ <<>> \o <<>> = <<>>
  BY DEF WinSock!WinSockAssumption
<1>1. WinSock!TypeOK BY <1>0 DEF WinSock!Init, WinSock!TypeOK
<1>2. ServerPlace /\ \A c \in Clients : ClientPlace(c)
  BY DEF WinSock!Init, ServerPlace, ClientPlace
<1>3. ASSUME NEW c \in Clients PROVE PartyBytes(c)
  <2>1. Untaken(c) /\ peer # c
    BY <1>0 DEF WinSock!Init, Untaken, WinSock!WinSockAssumption
  <2>2. Echoed(c) BY <2>1 DEF WinSock!Init, Echoed, Over
  <2>3. FileTold(c) BY <2>1 DEF WinSock!Init, FileTold, Over
  <2> QED BY <2>1, <2>2, <2>3 DEF PartyBytes
<1> QED BY <1>1, <1>2, <1>3 DEF TcpInv

\* Nothing has happened to d.
Same(d) ==
  /\ party'[d] = party[d] /\ text'[d] = text[d] /\ unsent'[d] = unsent[d]
  /\ up'[d] = up[d] /\ down'[d] = down[d] /\ told'[d] = told[d]
  /\ upEnd'[d] = upEnd[d] /\ downEnd'[d] = downEnd[d]

LEMMA SameBytes ==
  ASSUME NEW d \in Clients, PartyBytes(d), Same(d),
         UNCHANGED <<system, server, peer, reply>>
  PROVE  PartyBytes(d)'
<1>1. Read(d)' = Read(d) BY DEF Same, Read
<1>2. Untaken(d)' = Untaken(d) BY DEF Same, Untaken
<1>3. Answered(d)' = Answered(d) BY <1>1 DEF Same, Answered
<1>4. Echoed(d) => Echoed(d)' BY <1>1 DEF Same, Echoed, Over
<1>5. FileTold(d) => FileTold(d)' BY <1>2, <1>3 DEF Same, FileTold, Over
<1> QED BY <1>2, <1>4, <1>5 DEF PartyBytes

\* A step of one client, or of the network for it.
LEMMA OneClientTcpInv ==
  ASSUME TcpInv, NEW c \in Clients, UNCHANGED <<system, server, peer, reply>>,
         \A d \in Clients : d # c => Same(d),
         WinSock!TypeOK', ClientPlace(c)', PartyBytes(c)'
  PROVE  TcpInv'
<1>1. ServerPlace' BY DEF TcpInv, ServerPlace
<1>2. ASSUME NEW d \in Clients, d # c PROVE ClientPlace(d)' /\ PartyBytes(d)'
  <2>1. ClientPlace(d) /\ PartyBytes(d) /\ Same(d) BY <1>2 DEF TcpInv
  <2>2. ClientPlace(d)' BY <2>1 DEF ClientPlace, Same
  <2> QED BY <2>1, <2>2, SameBytes
<1> QED BY <1>1, <1>2 DEF TcpInv

\* A step that leaves the bytes of c where they are.
LEMMA SameBytesOf ==
  ASSUME NEW c \in Clients, PartyBytes(c), ClientPlace(c)',
         UNCHANGED <<system, server, peer, reply>>,
         text'[c] = text[c], unsent'[c] = unsent[c], up'[c] = up[c],
         down'[c] = down[c], told'[c] = told[c],
         downEnd'[c] = "fin" => downEnd[c] = "fin",
         party'[c] = "closed" => party[c] = "closed" \/ downEnd[c] = "fin",
         party[c] \in {"receiving", "closed", "failed"} =>
           party'[c] \in {"receiving", "closed", "failed"}
  PROVE  PartyBytes(c)'
<1>1. Read(c)' = Read(c) BY DEF Read
<1>2. Untaken(c)' = Untaken(c) BY DEF Untaken
<1>3. Answered(c)' = Answered(c) BY <1>1 DEF Answered
<1>4. Echoed(c) => Echoed(c)' BY <1>1 DEF Echoed, Over
<1>5. FileTold(c) => FileTold(c)' BY <1>2, <1>3 DEF FileTold, Over
<1> QED BY <1>2, <1>4, <1>5 DEF PartyBytes

\* The steps of a client, or of the network for it, that move no bytes.
LEMMA QuietTcpInv ==
  ASSUME TcpInv, NEW c \in Clients,
         \/ WinSock!Connect(c) \/ WinSock!Refused(c) \/ WinSock!Fail(c)
         \/ WinSock!EndSend(c) \/ WinSock!Leave(c) \/ WinSock!SendFails(c)
         \/ WinSock!ResetLate(c)
  PROVE  TcpInv'
<1> USE DEF WinSock!serverVars, WinSock!clientVars, WinSock!upVars,
            WinSock!downVars
<1>0. WinSock!TypeOK /\ ServerPlace /\ ClientPlace(c) /\ PartyBytes(c)
  BY DEF TcpInv
<1>1. UNCHANGED <<system, server, peer, reply, text, unsent, up, down, told>>
  BY
    DEF WinSock!Connect, WinSock!Refused, WinSock!Fail, WinSock!EndSend,
        WinSock!Leave, WinSock!SendFails, WinSock!ResetLate
<1>2. \A d \in Clients : d # c => Same(d)
  <2>1. /\ party' = party \/ \E s : party' = [party EXCEPT ![c] = s]
        /\ upEnd' = upEnd \/ \E s : upEnd' = [upEnd EXCEPT ![c] = s]
        /\ downEnd' = downEnd \/ \E s : downEnd' = [downEnd EXCEPT ![c] = s]
    BY
      DEF WinSock!Connect, WinSock!Refused, WinSock!Fail, WinSock!EndSend,
          WinSock!Leave, WinSock!SendFails, WinSock!ResetLate
  <2> QED BY <1>0, <1>1, <2>1 DEF WinSock!TypeOK, Same
<1>3. WinSock!TypeOK'
  <2>1. party' \in [Clients -> {"new", "connected", "sending", "receiving",
                                 "closed", "failed", "refused"}]
    <3>1. \/ party' = party
          \/ \E s \in {"connected", "receiving", "closed", "failed",
                       "refused"} :
               party' = [party EXCEPT ![c] = s]
      BY
        DEF WinSock!Connect, WinSock!Refused, WinSock!Fail, WinSock!EndSend,
            WinSock!Leave, WinSock!SendFails, WinSock!ResetLate
    <3> QED BY <1>0, <3>1 DEF WinSock!TypeOK
  <2>2. upEnd' \in [Clients -> {"open", "fin", "reset"}]
    <3>1. upEnd[c] \in {"open", "fin", "reset"} BY <1>0 DEF WinSock!TypeOK
    <3>2. \/ upEnd' = upEnd
          \/ \E s \in {"open", "fin", "reset"} :
               upEnd' = [upEnd EXCEPT ![c] = s]
      BY <3>1
        DEF WinSock!Connect, WinSock!Refused, WinSock!Fail, WinSock!EndSend,
            WinSock!Leave, WinSock!SendFails, WinSock!ResetLate
    <3> QED BY <1>0, <3>2 DEF WinSock!TypeOK
  <2>3. downEnd' \in [Clients -> {"open", "fin", "reset"}]
    <3>1. downEnd' = downEnd \/ downEnd' = [downEnd EXCEPT ![c] = "reset"]
      BY
        DEF WinSock!Connect, WinSock!Refused, WinSock!Fail, WinSock!EndSend,
            WinSock!Leave, WinSock!SendFails, WinSock!ResetLate
    <3> QED BY <1>0, <3>1 DEF WinSock!TypeOK
  <2> QED BY <1>0, <1>1, <2>1, <2>2, <2>3 DEF WinSock!TypeOK
<1>4. ClientPlace(c)' /\ (downEnd'[c] = "fin" => downEnd[c] = "fin")
      /\ (party'[c] = "closed" => party[c] = "closed" \/ downEnd[c] = "fin")
      /\ (party[c] \in {"receiving", "closed", "failed"} =>
            party'[c] \in {"receiving", "closed", "failed"})
  <2> USE <1>0, <1>1 DEF WinSock!TypeOK, ClientPlace
  <2>1. CASE WinSock!Connect(c) BY <2>1 DEF WinSock!Connect
  <2>2. CASE WinSock!Refused(c) BY <2>2 DEF WinSock!Refused
  <2>3. CASE WinSock!Fail(c) BY <2>3 DEF WinSock!Fail
  <2>4. CASE WinSock!EndSend(c) BY <2>4 DEF WinSock!EndSend
  <2>5. CASE WinSock!Leave(c) BY <2>5 DEF WinSock!Leave
  <2>6. CASE WinSock!SendFails(c) BY <2>6 DEF WinSock!SendFails
  <2>7. CASE WinSock!ResetLate(c) BY <2>7 DEF WinSock!ResetLate
  <2> QED BY <2>1, <2>2, <2>3, <2>4, <2>5, <2>6, <2>7
<1>5. PartyBytes(c)' BY <1>0, <1>1, <1>4, SameBytesOf
<1> QED BY <1>1, <1>2, <1>3, <1>4, <1>5, OneClientTcpInv

LEMMA BeginSendTcpInv ==
  ASSUME WinSock!WinSockAssumption, TcpInv, NEW c \in Clients,
         WinSock!BeginSend(c)
  PROVE  TcpInv'
<1> USE DEF WinSock!serverVars, WinSock!clientVars, WinSock!upVars,
            WinSock!downVars
<1>0. WinSock!TypeOK /\ ServerPlace /\ ClientPlace(c) /\ PartyBytes(c)
  BY DEF TcpInv
<1>1. /\ party[c] = "connected" /\ party' = [party EXCEPT ![c] = "sending"]
      /\ UNCHANGED <<system, server, peer, reply, up, upEnd, down, downEnd,
                     told>>
  BY DEF WinSock!BeginSend
<1>2. PICK t \in Seq(Nat) : /\ text' = [text EXCEPT ![c] = t]
                            /\ unsent' = [unsent EXCEPT ![c] = t]
  BY DEF WinSock!BeginSend, WinSock!WinSockAssumption
<1>3. \A d \in Clients : d # c => Same(d)
  BY <1>0, <1>1, <1>2 DEF WinSock!TypeOK, Same
<1>4. WinSock!TypeOK' BY <1>0, <1>1, <1>2 DEF WinSock!TypeOK
<1>5. /\ party'[c] = "sending" /\ text'[c] = t /\ unsent'[c] = t
      /\ text[c] = <<>> /\ up[c] = <<>> /\ unsent[c] = <<>>
  BY <1>0, <1>1, <1>2 DEF WinSock!TypeOK, ClientPlace
<1>6. ClientPlace(c)' BY <1>0, <1>1, <1>5 DEF ClientPlace
<1>7. PartyBytes(c)'
  <2>1. <<>> \o t = t /\ <<>> \o <<>> = <<>> BY <1>2
  <2>2. Read(c)' = Read(c) BY <1>1 DEF Read
  <2>3. Untaken(c) => Untaken(c)' BY <1>1, <1>5, <2>1 DEF Untaken
  <2>4. ~Answered(c) BY <1>5 DEF Answered
  <2>5. FileTold(c) => FileTold(c)' BY <1>1, <1>5, <2>3, <2>4 DEF FileTold, Over
  <2>6. Echoed(c) => Echoed(c)'
    <3> SUFFICES ASSUME Echoed(c) PROVE Echoed(c)' OBVIOUS
    <3>1. ~(peer = c /\ server = "closing") /\ downEnd[c] # "fin"
      <4>1. party[c] \notin {"receiving", "closed", "failed"} BY <1>1
      <4> QED BY <4>1, Zenon DEF Echoed, Over
    <3>2. ASSUME peer = c
          PROVE  t = Read(c) \o (down[c] \o (reply \o (<<>> \o t)))
      <4>1. reply = <<>> /\ Read(c) = <<>> /\ down[c] = <<>>
        <5>1. Read(c) \in Seq(Nat) /\ down[c] \in Seq(Nat) /\ reply \in Seq(Nat)
          BY <1>0, FlattenType DEF WinSock!TypeOK, Read
        <5>2. <<>> = Read(c) \o (down[c] \o (reply \o <<>>))
          BY <1>5, <2>1, <3>2 DEF Echoed, Over
        <5>3. reply \o <<>> = reply BY <5>1
        <5>4. down[c] \o reply \in Seq(Nat)
              /\ Len(down[c] \o reply) = Len(down[c]) + Len(reply)
          BY <5>1, ConcatProperties
        <5>5. Len(Read(c)) + Len(down[c] \o reply) = 0
          BY <5>1, <5>2, <5>3, <5>4, ConcatProperties
        <5>6. Len(Read(c)) = 0 /\ Len(down[c]) = 0 /\ Len(reply) = 0
          <6>1. /\ Len(Read(c)) \in Nat /\ Len(down[c]) \in Nat
                /\ Len(reply) \in Nat
            BY <5>1, LenProperties
          <6> QED BY <5>4, <5>5, <6>1
        <5> QED BY <5>1, <5>6, EmptySeq
      <4> QED BY <2>1, <4>1
    <3> QED BY <1>1, <1>5, <2>2, <3>1, <3>2 DEF Echoed, Over
  <2> QED BY <1>0, <1>1, <2>3, <2>5, <2>6 DEF PartyBytes
<1> QED BY <1>1, <1>3, <1>4, <1>6, <1>7, OneClientTcpInv

LEMMA SendSomeTcpInv ==
  ASSUME WinSock!WinSockAssumption, TcpInv, NEW c \in Clients,
         WinSock!SendSome(c)
  PROVE  TcpInv'
<1> USE DEF WinSock!serverVars, WinSock!clientVars, WinSock!upVars,
            WinSock!downVars
<1>0. WinSock!TypeOK /\ ServerPlace /\ ClientPlace(c) /\ PartyBytes(c)
  BY DEF TcpInv
<1>1. /\ party[c] = "sending"
      /\ UNCHANGED <<system, server, peer, reply, party, text, upEnd, down,
                     downEnd, told>>
  BY DEF WinSock!SendSome
<1>2. PICK n \in 1..Len(unsent[c]) :
        /\ up' = [up EXCEPT ![c] = up[c] \o WinSock!Take(unsent[c], n)]
        /\ unsent' = [unsent EXCEPT ![c] = WinSock!Drop(unsent[c], n)]
  BY DEF WinSock!SendSome
<1>3. up[c] \in Seq(Nat) /\ unsent[c] \in Seq(Nat) BY <1>0 DEF WinSock!TypeOK
<1>4. /\ WinSock!Take(unsent[c], n) \in Seq(Nat)
      /\ WinSock!Drop(unsent[c], n) \in Seq(Nat)
      /\ (up[c] \o WinSock!Take(unsent[c], n)) \o WinSock!Drop(unsent[c], n)
           = up[c] \o unsent[c]
  BY <1>3, Parts, MoveOn
<1>5. /\ up'[c] = up[c] \o WinSock!Take(unsent[c], n)
      /\ unsent'[c] = WinSock!Drop(unsent[c], n)
  BY <1>0, <1>2 DEF WinSock!TypeOK
<1>6. up'[c] \o unsent'[c] = up[c] \o unsent[c] BY <1>4, <1>5
<1>7. \A d \in Clients : d # c => Same(d)
  BY <1>0, <1>1, <1>2 DEF WinSock!TypeOK, Same
<1>8. WinSock!TypeOK'
  <2>1. up[c] \o WinSock!Take(unsent[c], n) \in Seq(Nat)
    BY <1>3, <1>4, ConcatProperties
  <2> QED BY <1>0, <1>1, <1>2, <1>4, <2>1 DEF WinSock!TypeOK
<1>9. unsent[c] # <<>>
  <2>1. Len(unsent[c]) # 0 BY <1>2, <1>3
  <2> QED BY <2>1
<1>10. ClientPlace(c)' BY <1>0, <1>1, <1>9 DEF ClientPlace
<1>11. PartyBytes(c)'
  <2>1. Read(c)' = Read(c) BY <1>1 DEF Read
  <2>2. Untaken(c) => Untaken(c)' BY <1>1, <1>6 DEF Untaken
  <2>3. Answered(c)' = Answered(c) BY <1>1, <2>1 DEF Answered
  <2>4. FileTold(c) => FileTold(c)' BY <1>1, <2>2, <2>3 DEF FileTold, Over
  <2>5. Echoed(c) => Echoed(c)' BY <1>1, <1>6, <1>9, <2>1 DEF Echoed, Over
  <2> QED BY <1>0, <1>1, <2>2, <2>4, <2>5 DEF PartyBytes
<1> QED BY <1>1, <1>7, <1>8, <1>10, <1>11, OneClientTcpInv

LEMMA ReceiveTcpInv ==
  ASSUME WinSock!WinSockAssumption, TcpInv, NEW c \in Clients,
         WinSock!Receive(c)
  PROVE  TcpInv'
<1> USE DEF WinSock!serverVars, WinSock!clientVars, WinSock!upVars,
            WinSock!downVars
<1>0. WinSock!TypeOK /\ ServerPlace /\ ClientPlace(c) /\ PartyBytes(c)
  BY DEF TcpInv
<1>1. /\ party[c] = "receiving"
      /\ UNCHANGED <<system, server, peer, reply, party, text, unsent, up,
                     upEnd, downEnd>>
  BY DEF WinSock!Receive
<1>2. /\ down[c] \in Seq(Nat) /\ told[c] \in Seq(Seq(Nat))
      /\ Read(c) \in Seq(Nat) /\ up[c] \in Seq(Nat) /\ unsent[c] \in Seq(Nat)
      /\ reply \in Seq(Nat)
  BY <1>0, FlattenType DEF WinSock!TypeOK, Read
<1>3. PICK n \in 1..Len(down[c]) :
        /\ told' = [told EXCEPT ![c] =
                              Append(told[c], WinSock!Take(down[c], n))]
        /\ down' = [down EXCEPT ![c] = WinSock!Drop(down[c], n)]
  <2>1. 1..WinSock!AtMost(Buffer, Len(down[c])) \subseteq 1..Len(down[c])
    BY <1>2 DEF WinSock!AtMost, WinSock!WinSockAssumption
  <2> QED BY <2>1 DEF WinSock!Receive
<1>4. /\ WinSock!Take(down[c], n) \in Seq(Nat)
      /\ WinSock!Drop(down[c], n) \in Seq(Nat)
  BY <1>2, Parts
<1>5. told'[c] = Append(told[c], WinSock!Take(down[c], n))
      /\ down'[c] = WinSock!Drop(down[c], n)
  BY <1>0, <1>3 DEF WinSock!TypeOK
<1>6. Read(c)' = Read(c) \o WinSock!Take(down[c], n)
  BY <1>2, <1>4, <1>5, FlattenAppend DEF Read
<1>7. \A d \in Clients : d # c => Same(d)
  BY <1>0, <1>1, <1>3 DEF WinSock!TypeOK, Same
<1>8. WinSock!TypeOK'
  <2>1. Append(told[c], WinSock!Take(down[c], n)) \in Seq(Seq(Nat))
    BY <1>2, <1>4
  <2> QED BY <1>0, <1>1, <1>3, <1>4, <2>1 DEF WinSock!TypeOK
<1>9. down[c] # <<>>
  <2>1. Len(down[c]) # 0 BY <1>2, <1>3
  <2> QED BY <2>1
<1>10. ClientPlace(c)' BY <1>0, <1>1 DEF ClientPlace
<1>11. PartyBytes(c)'
  <2>1. ~Untaken(c) BY <1>9 DEF Untaken
  <2>2. ASSUME NEW rest \in Seq(Nat)
        PROVE  Read(c)' \o (down'[c] \o rest) = Read(c) \o (down[c] \o rest)
    <3>1. (Read(c) \o WinSock!Take(down[c], n))
            \o (WinSock!Drop(down[c], n) \o rest)
            = Read(c) \o (down[c] \o rest)
      <4>1. Read(c) \in Seq(Nat) /\ down[c] \in Seq(Nat) BY <1>2
      <4> QED BY ONLY <4>1, rest \in Seq(Nat), n \in 1..Len(down[c]), PartsLeft
    <3> QED BY <1>5, <1>6, <3>1, Zenon
  <2>3. Answered(c) => Answered(c)' BY <1>1, <1>2, <2>2 DEF Answered
  <2>4. FileTold(c) => FileTold(c)' BY <1>1, <2>1, <2>3 DEF FileTold, Over
  <2>5. Echoed(c) => Echoed(c)'
    <3>1. reply \o (up[c] \o unsent[c]) \in Seq(Nat)
      BY <1>2, ConcatProperties
    <3> QED BY <1>1, <2>2, <3>1 DEF Echoed, Over
  <2> QED BY <1>0, <1>1, <2>1, <2>4, <2>5 DEF PartyBytes
<1> QED BY <1>1, <1>7, <1>8, <1>10, <1>11, OneClientTcpInv

-----------------------------------------------------------------------------
(* What the server's steps keep.                                           *)

\* Whoever the server does not serve has not been taken anything from.
LEMMA OtherBytes ==
  ASSUME NEW d \in Clients, peer # d, ClientPlace(d), Untaken(d)
  PROVE  PartyBytes(d)
BY DEF ClientPlace, PartyBytes, Echoed, FileTold, Over

\* A step of the server for the client it serves.
LEMMA PeerTcpInv ==
  ASSUME WinSock!WinSockAssumption, TcpInv, NEW c \in Clients, peer = c,
         UNCHANGED <<system, peer>>,
         \A d \in Clients : d # c => Same(d),
         WinSock!TypeOK', ServerPlace', ClientPlace(c)', PartyBytes(c)'
  PROVE  TcpInv'
<1>1. ASSUME NEW d \in Clients, d # c PROVE ClientPlace(d)' /\ PartyBytes(d)'
  <2>1. ClientPlace(d) /\ PartyBytes(d) /\ Same(d) BY <1>1 DEF TcpInv
  <2>0. peer \notin {NoPeer, d} /\ peer' \notin {NoPeer, d}
    BY <1>1 DEF WinSock!WinSockAssumption
  <2>2. ClientPlace(d)' BY <2>0, <2>1 DEF ClientPlace, Same
  <2>3. Untaken(d)' BY <1>1, <2>1 DEF PartyBytes, Untaken, Same
  <2>4. peer' # d BY <1>1
  <2> QED BY <2>2, <2>3, <2>4
            DEF ClientPlace, PartyBytes, Echoed, FileTold, Over
<1> QED BY <1>1 DEF TcpInv

LEMMA ListenTcpInv ==
  ASSUME WinSock!WinSockAssumption, TcpInv, WinSock!Listen
  PROVE  TcpInv'
<1> USE DEF WinSock!serverVars, WinSock!clientVars, WinSock!upVars,
            WinSock!downVars
<1>0. /\ WinSock!TypeOK /\ ServerPlace
      /\ \A d \in Clients : ClientPlace(d) /\ PartyBytes(d)
  BY DEF TcpInv
<1>1. /\ server = "new" /\ server' \in {"listening", "ended"}
      /\ UNCHANGED <<system, peer, reply, party, text, unsent, up, upEnd,
                     down, downEnd, told>>
  BY DEF WinSock!Listen
<1>2. peer = NoPeer /\ NoPeer \notin Clients
  BY <1>0, <1>1 DEF ServerPlace, WinSock!WinSockAssumption
<1>3. WinSock!TypeOK' BY <1>0, <1>1 DEF WinSock!TypeOK
<1>4. ServerPlace' BY <1>0, <1>1, <1>2 DEF ServerPlace
<1>5. ASSUME NEW d \in Clients PROVE ClientPlace(d)' /\ PartyBytes(d)'
  <2>1. ClientPlace(d) /\ PartyBytes(d) /\ peer # d BY <1>0, <1>2
  <2>2. ClientPlace(d)' BY <1>1, <2>1 DEF ClientPlace
  <2>3. Untaken(d)' BY <1>1, <2>1 DEF PartyBytes, Untaken
  <2>4. peer' # d BY <1>1, <2>1
  <2> QED BY <2>2, <2>3, <2>4
            DEF ClientPlace, PartyBytes, Echoed, FileTold, Over
<1> QED BY <1>3, <1>4, <1>5 DEF TcpInv

LEMMA AcceptTcpInv ==
  ASSUME WinSock!WinSockAssumption, TcpInv, NEW c \in Clients, WinSock!Accept(c)
  PROVE  TcpInv'
<1> USE DEF WinSock!serverVars, WinSock!clientVars, WinSock!upVars,
            WinSock!downVars
<1>0. /\ WinSock!TypeOK /\ ServerPlace
      /\ \A d \in Clients : ClientPlace(d) /\ PartyBytes(d)
  BY DEF TcpInv
<1>1. /\ server = "listening" /\ server' = "receiving" /\ peer' = c
      /\ downEnd' = [d \in Clients |-> IF d # c /\ WinSock!Connected(d)
                                      THEN "reset" ELSE "open"]
      /\ UNCHANGED <<system, reply, party, text, unsent, up, upEnd, down,
                     told>>
  BY DEF WinSock!Accept
<1>2. peer = NoPeer /\ NoPeer \notin Clients /\ reply = <<>>
  BY <1>0, <1>1 DEF ServerPlace, WinSock!WinSockAssumption
<1>3. WinSock!TypeOK' BY <1>0, <1>1 DEF WinSock!TypeOK
<1>4. ServerPlace' BY <1>1, <1>2 DEF ServerPlace, WinSock!WinSockAssumption
<1>5. ASSUME NEW d \in Clients PROVE ClientPlace(d)' /\ PartyBytes(d)'
  <2>1. ClientPlace(d) /\ PartyBytes(d) /\ peer # d BY <1>0, <1>2
  <2>2. downEnd'[d] # "fin" BY <1>1
  <2>3. party[d] # "closed" BY <2>1 DEF ClientPlace
  <2>4. ClientPlace(d)'
    <3>1. downEnd[d] = "open" BY <1>1, <1>2, <2>1 DEF ClientPlace
    <3>2. upEnd[d] = "fin" => system # "file" BY <2>1, <3>1 DEF ClientPlace
    <3>3. peer' \in {NoPeer, d} => downEnd'[d] = "open" BY <1>1, <1>2
    <3> QED BY <1>1, <2>1, <2>2, <2>3, <3>2, <3>3 DEF ClientPlace
  <2>5. Untaken(d) /\ Untaken(d)' BY <1>1, <2>1 DEF PartyBytes, Untaken
  <2>6. ~Over(d)' BY <1>1, <2>2, <2>3 DEF Over
  <2>7. FileTold(d)' BY <1>1, <2>5, <2>6 DEF FileTold
  <2>8. Echoed(d)'
    <3>1. text[d] = Read(d)' \o (down[d] \o (reply \o (up[d] \o unsent[d])))
      <4>1. up[d] \in Seq(Nat) /\ unsent[d] \in Seq(Nat)
        BY <1>0 DEF WinSock!TypeOK
      <4>2. up[d] \o unsent[d] \in Seq(Nat) BY <4>1, ConcatProperties
      <4>3. \A s \in Seq(Nat) : <<>> \o s = s OBVIOUS
      <4>4. Read(d)' = <<>> BY <2>5, FlattenEmpty DEF Read, Untaken
      <4>5. down[d] = <<>> /\ text[d] = up[d] \o unsent[d]
        BY <2>5 DEF Untaken
      <4> QED BY <1>2, <4>2, <4>3, <4>4, <4>5
    <3>2. text'[d]
            = Read(d)' \o (down'[d] \o (reply' \o (up'[d] \o unsent'[d])))
      BY <1>1, <3>1
    <3>3. server' # "closing" BY <1>1
    <3> QED BY <2>6, <3>2, <3>3, Zenon DEF Echoed
  <2> QED BY <2>4, <2>5, <2>7, <2>8 DEF PartyBytes
<1> QED BY <1>3, <1>4, <1>5 DEF TcpInv

LEMMA ServerFailsTcpInv ==
  ASSUME WinSock!WinSockAssumption, TcpInv, WinSock!ServerFails
  PROVE  TcpInv'
<1> USE DEF WinSock!serverVars, WinSock!clientVars, WinSock!upVars,
            WinSock!downVars
<1>0. /\ WinSock!TypeOK /\ ServerPlace
      /\ \A d \in Clients : ClientPlace(d) /\ PartyBytes(d)
  BY DEF TcpInv
<1>1. /\ server # "ended" /\ server' = "ended"
      /\ \A d \in Clients : downEnd'[d] \in {"reset", downEnd[d]}
      /\ UNCHANGED <<system, peer, reply, party, text, unsent, up, upEnd,
                     down, told>>
  BY DEF WinSock!ServerFails
<1>2. WinSock!TypeOK'
  <2>1. downEnd' = [d \in Clients |-> downEnd'[d]] BY DEF WinSock!ServerFails
  <2>2. \A d \in Clients : downEnd'[d] \in {"open", "fin", "reset"}
    BY <1>0, <1>1 DEF WinSock!TypeOK
  <2>3. downEnd' \in [Clients -> {"open", "fin", "reset"}] BY <2>1, <2>2
  <2> QED BY <1>0, <1>1, <2>3 DEF WinSock!TypeOK
<1>3. ServerPlace' BY <1>0, <1>1 DEF ServerPlace
<1>4. ASSUME NEW d \in Clients PROVE ClientPlace(d)' /\ PartyBytes(d)'
  <2>1. ClientPlace(d) /\ PartyBytes(d) BY <1>0
  <2>2. downEnd[d] # "fin" /\ party[d] # "closed"
    BY <1>1, <2>1 DEF ClientPlace
  <2>3. downEnd'[d] # "fin" BY <1>1, <2>2
  <2>4. ClientPlace(d)' BY <1>1, <2>1, <2>2, <2>3 DEF ClientPlace
  <2>5. Read(d)' = Read(d) /\ Untaken(d)' = Untaken(d)
    BY <1>1 DEF Read, Untaken
  <2>6. ~Over(d)' BY <1>1, <2>2, <2>3 DEF Over
  <2>7. FileTold(d)' BY <1>1, <2>6 DEF FileTold
  <2>8. Echoed(d) => Echoed(d)' BY <1>1, <2>5, <2>6 DEF Echoed
  <2> QED BY <1>1, <2>1, <2>4, <2>5, <2>7, <2>8 DEF PartyBytes
<1> QED BY <1>2, <1>3, <1>4 DEF TcpInv

\* The first bytes of what is sent, however it goes on.
LEMMA TakeFirst ==
  ASSUME NEW s \in Seq(Nat), NEW u \in Seq(Nat), NEW n \in 1..Len(s)
  PROVE  n \in 1..Len(s \o u) /\ WinSock!Take(s \o u, n) = WinSock!Take(s, n)
<1> DEFINE t == s \o u
<1>1. /\ Len(s) \in Nat /\ Len(u) \in Nat
      /\ t \in Seq(Nat) /\ Len(t) = Len(s) + Len(u)
      /\ \A i \in 1..Len(s) : t[i] = s[i]
  BY ConcatProperties, LenProperties
<1> HIDE DEF t
<1>2. n \in 1..Len(t) BY <1>1
<1>3. WinSock!Take(t, n) = [i \in 1..n |-> t[i]] BY <1>1, <1>2 DEF WinSock!Take
<1>4. WinSock!Take(s, n) = [i \in 1..n |-> s[i]] BY <1>1 DEF WinSock!Take
<1>5. \A i \in 1..n : t[i] = s[i] BY <1>1
<1>6. WinSock!Take(t, n) = WinSock!Take(s, n) BY <1>3, <1>4, <1>5
<1> QED BY <1>2, <1>6 DEF t

LEMMA RecvTcpInv ==
  ASSUME WinSock!WinSockAssumption, TcpInv, NEW c \in Clients, WinSock!Recv(c)
  PROVE  TcpInv'
<1> USE DEF WinSock!serverVars, WinSock!clientVars, WinSock!upVars,
            WinSock!downVars
<1>0. WinSock!TypeOK /\ ServerPlace /\ ClientPlace(c) /\ PartyBytes(c)
  BY DEF TcpInv
<1>1. /\ server = "receiving" /\ peer = c /\ server' = "sending"
      /\ UNCHANGED <<system, peer, party, text, unsent, upEnd, down, downEnd,
                     told>>
  BY DEF WinSock!Recv
<1>2. /\ up[c] \in Seq(Nat) /\ unsent[c] \in Seq(Nat) /\ down[c] \in Seq(Nat)
      /\ Read(c) \in Seq(Nat) /\ reply = <<>>
  BY <1>0, <1>1, FlattenType DEF WinSock!TypeOK, Read, ServerPlace
<1>3. PICK n \in 1..Len(up[c]) :
        /\ n <= Buffer
        /\ up' = [up EXCEPT ![c] = WinSock!Drop(up[c], n)]
        /\ reply' = IF system = "echo" THEN WinSock!Take(up[c], n)
                                       ELSE WinSock!Decimal(
                         WinSock!FileSize(WinSock!Take(up[c], n)))
  <2>1. \A n \in 1..WinSock!AtMost(Buffer, Len(up[c])) : n \in 1..Len(up[c])
                                                  /\ n <= Buffer
    BY <1>2 DEF WinSock!AtMost, WinSock!WinSockAssumption
  <2> QED BY <2>1 DEF WinSock!Recv
<1>4. /\ WinSock!Take(up[c], n) \in Seq(Nat)
      /\ WinSock!Drop(up[c], n) \in Seq(Nat)
      /\ Len(WinSock!Take(up[c], n)) = n
  BY <1>2, Parts
<1>5. up'[c] = WinSock!Drop(up[c], n) BY <1>0, <1>3 DEF WinSock!TypeOK
<1>6. \A d \in Clients : d # c => Same(d)
  BY <1>0, <1>1, <1>3 DEF WinSock!TypeOK, Same
<1>7. reply' \in Seq(Nat) /\ (system = "echo" => Len(reply') <= Buffer)
  <2>1. WinSock!Decimal(WinSock!FileSize(WinSock!Take(up[c], n))) \in Seq(Nat)
    BY DecimalType DEF WinSock!WinSockAssumption
  <2> QED BY <1>3, <1>4, <2>1
<1>8. WinSock!TypeOK' BY <1>0, <1>1, <1>3, <1>4, <1>7 DEF WinSock!TypeOK
<1>9. ServerPlace' BY <1>0, <1>1 DEF ServerPlace
<1>10. ClientPlace(c)'
  <2>1. up[c] # <<>>
    <3>1. Len(up[c]) # 0 BY <1>2, <1>3
    <3> QED BY <3>1
  <2> QED BY <1>0, <1>1, <2>1 DEF ClientPlace
<1>11. PartyBytes(c)'
  <2>1. ~Over(c)' BY <1>0, <1>1 DEF ClientPlace, Over
  <2>2. Read(c)' = Read(c) BY <1>1 DEF Read
  <2>3. ASSUME system = "echo" PROVE Echoed(c)'
    <3>1. reply' = WinSock!Take(up[c], n) BY <1>3, <2>3
    <3>2. WinSock!Take(up[c], n) \o (WinSock!Drop(up[c], n) \o unsent[c])
            = up[c] \o unsent[c]
      <4>1. <<>> \in Seq(Nat) /\ \A s \in Seq(Nat) : <<>> \o s = s OBVIOUS
      <4>2. up[c] \in Seq(Nat) /\ unsent[c] \in Seq(Nat) BY <1>2
      <4>3. (<<>> \o WinSock!Take(up[c], n))
              \o (WinSock!Drop(up[c], n) \o unsent[c])
              = <<>> \o (up[c] \o unsent[c])
        BY ONLY <4>1, <4>2, n \in 1..Len(up[c]), PartsLeft
      <4>4. <<>> \o WinSock!Take(up[c], n) = WinSock!Take(up[c], n)
        BY <1>4, <4>1
      <4>5. <<>> \o (up[c] \o unsent[c]) = up[c] \o unsent[c]
        BY <4>1, <4>2, ConcatProperties
      <4> QED BY <4>3, <4>4, <4>5
    <3>3. text[c] = Read(c) \o (down[c] \o (reply \o (up[c] \o unsent[c])))
      BY <1>0, <1>1, <2>3 DEF PartyBytes, Echoed
    <3>4. reply \o (up[c] \o unsent[c]) = up[c] \o unsent[c]
      BY <1>2, ConcatProperties
    <3>5. text'[c]
            = Read(c)' \o (down'[c] \o (reply' \o (up'[c] \o unsent'[c])))
      BY <1>1, <1>5, <2>2, <3>1, <3>2, <3>3, <3>4, Zenon
    <3>6. server' # "closing" BY <1>1
    <3> QED BY <2>1, <3>5, <3>6, Zenon DEF Echoed
  <2>4. ASSUME system = "file" PROVE FileTold(c)'
    <3>1. Untaken(c) BY <1>0, <1>1, <2>4 DEF PartyBytes, FileTold
    <3>2. Read(c) = <<>> /\ down[c] = <<>> /\ text[c] = up[c] \o unsent[c]
      BY <3>1, FlattenEmpty DEF Untaken, Read
    <3>3. reply' = WinSock!Decimal(WinSock!FileSize(WinSock!Take(up[c], n)))
      BY <1>3, <2>4
    <3>4. /\ n \in 1..Len(text[c])
          /\ WinSock!Take(text[c], n) = WinSock!Take(up[c], n)
      <4>1. up[c] \in Seq(Nat) /\ unsent[c] \in Seq(Nat) BY <1>2
      <4>2. /\ n \in 1..Len(up[c] \o unsent[c])
            /\ WinSock!Take(up[c] \o unsent[c], n) = WinSock!Take(up[c], n)
        BY ONLY <4>1, n \in 1..Len(up[c]), TakeFirst
      <4> QED BY <3>2, <4>2, Zenon
    <3>5. reply' = Read(c)' \o (down'[c] \o reply')
      <4>1. <<>> \o reply' = reply' BY <1>7
      <4> QED BY <1>1, <2>2, <3>2, <4>1
    <3>6. Answered(c)' BY <1>1, <3>3, <3>4, <3>5 DEF Answered
    <3> QED BY <1>1, <3>6 DEF FileTold
  <2> QED BY <1>1, <2>3, <2>4 DEF PartyBytes
<1> QED BY <1>1, <1>6, <1>8, <1>9, <1>10, <1>11, PeerTcpInv

LEMMA SendReplyTcpInv ==
  ASSUME WinSock!WinSockAssumption, TcpInv, NEW c \in Clients,
         WinSock!SendReply(c)
  PROVE  TcpInv'
<1> USE DEF WinSock!serverVars, WinSock!clientVars, WinSock!upVars,
            WinSock!downVars
<1>0. WinSock!TypeOK /\ ServerPlace /\ ClientPlace(c) /\ PartyBytes(c)
  BY DEF TcpInv
<1>1. /\ server = "sending" /\ peer = c
      /\ UNCHANGED <<system, server, peer, party, text, unsent, up, upEnd,
                     downEnd, told>>
  BY DEF WinSock!SendReply
<1>2. /\ up[c] \in Seq(Nat) /\ unsent[c] \in Seq(Nat) /\ down[c] \in Seq(Nat)
      /\ Read(c) \in Seq(Nat) /\ reply \in Seq(Nat)
  BY <1>0, FlattenType DEF WinSock!TypeOK, Read
<1>3. PICK n \in 1..Len(reply) :
        /\ down' = [down EXCEPT ![c] = down[c] \o WinSock!Take(reply, n)]
        /\ reply' = WinSock!Drop(reply, n)
  BY DEF WinSock!SendReply
<1>4. WinSock!Take(reply, n) \in Seq(Nat) /\ WinSock!Drop(reply, n) \in Seq(Nat)
  BY <1>2, Parts
<1>5. down'[c] = down[c] \o WinSock!Take(reply, n)
  BY <1>0, <1>3 DEF WinSock!TypeOK
<1>6. \A d \in Clients : d # c => Same(d)
  BY <1>0, <1>1, <1>3 DEF WinSock!TypeOK, Same
<1>7. WinSock!TypeOK'
  <2>1. down[c] \o WinSock!Take(reply, n) \in Seq(Nat)
    BY <1>2, <1>4, ConcatProperties
  <2>2. /\ Len(WinSock!Drop(reply, n)) <= Len(reply)
        /\ Len(WinSock!Drop(reply, n)) \in Nat
    <3>1. Len(reply) \in Nat /\ n + 1 \in Nat BY <1>2
    <3>2. Len(WinSock!Drop(reply, n))
            = IF n + 1 <= Len(reply) THEN Len(reply) - n ELSE 0
      BY <1>2, <3>1 DEF WinSock!Drop
    <3> QED BY <3>1, <3>2
  <2>3. system = "echo" => Len(reply') <= Buffer
    <3>1. Len(reply) \in Nat /\ Buffer \in Nat
      BY <1>2 DEF WinSock!WinSockAssumption
    <3> QED BY <1>0, <1>3, <2>2, <3>1 DEF WinSock!TypeOK
  <2> QED BY <1>0, <1>1, <1>3, <1>4, <2>1, <2>3 DEF WinSock!TypeOK
<1>8. ServerPlace'
  <2>1. peer # NoPeer BY <1>1 DEF WinSock!WinSockAssumption
  <2> QED BY <1>0, <1>1, <2>1 DEF ServerPlace
<1>9. ClientPlace(c)' BY <1>0, <1>1 DEF ClientPlace
<1>10. PartyBytes(c)'
  <2>1. ~Over(c)' BY <1>0, <1>1 DEF ClientPlace, Over
  <2>2. Read(c)' = Read(c) BY <1>1 DEF Read
  <2>3. ASSUME system = "echo" PROVE Echoed(c)'
    <3>1. text[c] = Read(c) \o (down[c] \o (reply \o (up[c] \o unsent[c])))
      BY <1>0, <1>1, <2>3 DEF PartyBytes, Echoed
    <3>2. (down[c] \o WinSock!Take(reply, n))
            \o (WinSock!Drop(reply, n) \o (up[c] \o unsent[c]))
            = down[c] \o (reply \o (up[c] \o unsent[c]))
      <4>1. up[c] \o unsent[c] \in Seq(Nat) BY <1>2, ConcatProperties
      <4>2. down[c] \in Seq(Nat) /\ reply \in Seq(Nat) BY <1>2
      <4> QED BY ONLY <4>1, <4>2, n \in 1..Len(reply), PartsLeft
    <3>3. text'[c]
            = Read(c)' \o (down'[c] \o (reply' \o (up'[c] \o unsent'[c])))
      BY <1>1, <1>3, <1>5, <2>2, <3>1, <3>2, Zenon
    <3>4. server' # "closing" BY <1>1
    <3> QED BY <2>1, <3>3, <3>4, Zenon DEF Echoed
  <2>4. ASSUME system = "file" PROVE FileTold(c)'
    <3>1. Answered(c) BY <1>0, <1>1, <2>4 DEF PartyBytes, FileTold
    <3>2. (down[c] \o WinSock!Take(reply, n)) \o WinSock!Drop(reply, n)
            = down[c] \o reply
      <4>1. down[c] \in Seq(Nat) /\ reply \in Seq(Nat) BY <1>2
      <4> QED BY ONLY <4>1, n \in 1..Len(reply), MoveOn
    <3>3. down'[c] \o reply' = down[c] \o reply
      BY <1>3, <1>5, <3>2, Zenon
    <3>4. Answered(c)' BY <1>1, <2>2, <3>1, <3>3 DEF Answered
    <3> QED BY <1>1, <3>4 DEF FileTold
  <2> QED BY <1>1, <2>3, <2>4 DEF PartyBytes
<1> QED BY <1>1, <1>6, <1>7, <1>8, <1>9, <1>10, PeerTcpInv

\* The steps of the server that move no bytes.
LEMMA RestTcpInv ==
  ASSUME WinSock!WinSockAssumption, TcpInv, NEW c \in Clients, peer = c,
         \/ WinSock!EndReply \/ WinSock!RecvEnd(c)
         \/ WinSock!PeerIsGone(c) \/ WinSock!Close(c)
  PROVE  TcpInv'
<1> USE DEF WinSock!serverVars, WinSock!clientVars, WinSock!upVars,
            WinSock!downVars
<1>0. WinSock!TypeOK /\ ServerPlace /\ ClientPlace(c) /\ PartyBytes(c)
  BY DEF TcpInv
<1>1. /\ server \in {"receiving", "sending", "closing"}
      /\ server' \in {"receiving", "closing", "ended"}
      /\ downEnd' = downEnd \/ \E s \in {"fin", "reset"} :
                                 downEnd' = [downEnd EXCEPT ![c] = s]
      /\ UNCHANGED <<system, peer, reply, party, text, unsent, up, upEnd, down,
                     told>>
  BY DEF WinSock!EndReply, WinSock!RecvEnd, WinSock!PeerIsGone, WinSock!Close
<1>2. \A d \in Clients : d # c => Same(d)
  BY <1>0, <1>1 DEF WinSock!TypeOK, Same
<1>3. WinSock!TypeOK'
  <2>1. downEnd' \in [Clients -> {"open", "fin", "reset"}]
    BY <1>0, <1>1 DEF WinSock!TypeOK
  <2> QED BY <1>0, <1>1, <2>1 DEF WinSock!TypeOK
<1>4. ServerPlace'
  <2>1. peer # NoPeer BY DEF WinSock!WinSockAssumption
  <2>2. server' # "ended" => reply = <<>>
    BY <1>0, <1>1
      DEF ServerPlace, WinSock!EndReply, WinSock!RecvEnd, WinSock!PeerIsGone,
          WinSock!Close
  <2> QED BY <1>1, <2>1, <2>2 DEF ServerPlace
<1>5. party[c] # "closed" /\ downEnd[c] = "open"
  BY <1>0, <1>1 DEF ClientPlace
<1>6. server' # "ended" => downEnd'[c] = "open"
  BY <1>5
    DEF WinSock!EndReply, WinSock!RecvEnd, WinSock!PeerIsGone, WinSock!Close
<1>7. downEnd'[c] = "fin" =>
        /\ WinSock!Close(c) /\ server = "closing" /\ up[c] = <<>>
        /\ server' = "ended"
  BY <1>0, <1>5
    DEF WinSock!EndReply, WinSock!RecvEnd, WinSock!PeerIsGone, WinSock!Close,
        WinSock!TypeOK
<1>8. ClientPlace(c)'
  <2>1. downEnd'[c] = "fin" => peer' = c /\ server' = "ended" /\ reply' = <<>>
    BY <1>0, <1>1, <1>7 DEF ServerPlace
  <2>2. downEnd'[c] = "open" => downEnd[c] = "open" BY <1>5
  <2>3. upEnd[c] = "fin" => system # "file" BY <1>0, <1>5 DEF ClientPlace
  <2> QED BY <1>0, <1>1, <1>5, <1>6, <2>1, <2>3 DEF ClientPlace
<1>9. PartyBytes(c)'
  <2>1. Read(c)' = Read(c) /\ Untaken(c)' = Untaken(c)
        /\ Answered(c)' = Answered(c)
    BY <1>1 DEF Read, Untaken, Answered
  <2>2. Over(c)' => downEnd'[c] = "fin" BY <1>1, <1>5 DEF Over
  <2>3. ASSUME system = "echo" PROVE Echoed(c)'
    <3>1. Echoed(c) BY <1>0, <2>3 DEF PartyBytes
    <3>2. text'[c]
            = Read(c)' \o (down'[c] \o (reply' \o (up'[c] \o unsent'[c])))
      BY <1>1, <2>1, <3>1 DEF Echoed
    <3>3. server' = "closing" =>
            up[c] = <<>> /\ upEnd[c] = "fin"
      BY <2>3
        DEF WinSock!EndReply, WinSock!RecvEnd, WinSock!PeerIsGone, WinSock!Close
    <3>4. server' = "closing" =>
            /\ up[c] = <<>> /\ unsent[c] = <<>>
            /\ party[c] \in {"receiving", "closed", "failed"}
      BY <1>0, <3>3 DEF ClientPlace
    <3>5. downEnd'[c] = "fin" =>
            /\ up[c] = <<>> /\ unsent[c] = <<>>
            /\ party[c] \in {"receiving", "closed", "failed"}
      BY <1>7, <3>1 DEF Echoed
    <3> QED BY <1>1, <2>2, <3>2, <3>4, <3>5 DEF Echoed
  <2>4. ASSUME system = "file" PROVE FileTold(c)'
    <3>1. FileTold(c) BY <1>0, <2>4 DEF PartyBytes
    <3>2. server' # "receiving"
      BY <2>4
        DEF WinSock!EndReply, WinSock!RecvEnd, WinSock!PeerIsGone, WinSock!Close
    <3>3. ~WinSock!RecvEnd(c)
      BY <1>0, <1>5, <2>4 DEF WinSock!RecvEnd, ClientPlace
    <3>4. server' = "closing" => server = "sending"
      BY <3>3 DEF WinSock!EndReply, WinSock!PeerIsGone, WinSock!Close
    <3>5. server' = "closing" \/ Over(c)' => Answered(c)
      BY <1>7, <2>2, <3>1, <3>4 DEF FileTold
    <3>6. server' # "sending" BY <1>1
    <3> QED BY <2>1, <3>2, <3>5, <3>6 DEF FileTold
  <2> QED BY <1>1, <2>3, <2>4 DEF PartyBytes
<1> QED BY <1>1, <1>2, <1>3, <1>4, <1>8, <1>9, PeerTcpInv

LEMMA NextTcpInv ==
  ASSUME WinSock!WinSockAssumption, TcpInv, [WinSock!Next]_(WinSock!vars)
  PROVE  TcpInv'
<1>1. CASE WinSock!Listen BY <1>1, ListenTcpInv
<1>2. CASE WinSock!ServerFails BY <1>2, ServerFailsTcpInv
<1>3. CASE WinSock!EndReply
  <2>1. peer \in Clients
    BY <1>3 DEF WinSock!EndReply, TcpInv, WinSock!TypeOK, ServerPlace
  <2> QED BY <1>3, <2>1, RestTcpInv
<1>4. ASSUME NEW c \in Clients,
             \/ WinSock!Accept(c) \/ WinSock!Recv(c) \/ WinSock!SendReply(c)
             \/ WinSock!RecvEnd(c) \/ WinSock!PeerIsGone(c) \/ WinSock!Close(c)
      PROVE  TcpInv'
  <2>1. WinSock!RecvEnd(c) \/ WinSock!PeerIsGone(c) \/ WinSock!Close(c)
          => peer = c
    BY DEF WinSock!RecvEnd, WinSock!PeerIsGone, WinSock!Close
  <2> QED BY <1>4, <2>1, AcceptTcpInv, RecvTcpInv, SendReplyTcpInv, RestTcpInv
<1>5. ASSUME NEW c \in Clients,
             \/ WinSock!Connect(c) \/ WinSock!Refused(c) \/ WinSock!Fail(c)
             \/ WinSock!ClientStep(c) \/ WinSock!ResetLate(c)
      PROVE  TcpInv'
  BY <1>5, QuietTcpInv, BeginSendTcpInv, SendSomeTcpInv, ReceiveTcpInv
    DEF WinSock!ClientStep
<1>6. CASE UNCHANGED WinSock!vars
  <2> USE DEF WinSock!vars, WinSock!serverVars, WinSock!clientVars,
              WinSock!upVars, WinSock!downVars
  <2>1. WinSock!TypeOK' /\ ServerPlace'
    BY <1>6 DEF TcpInv, WinSock!TypeOK, ServerPlace
  <2>2. ASSUME NEW c \in Clients PROVE ClientPlace(c)' /\ PartyBytes(c)'
    <3>1. ClientPlace(c) /\ PartyBytes(c) BY DEF TcpInv
    <3>2. Same(c) BY <1>6 DEF Same
    <3> QED BY <1>6, <3>1, <3>2, SameBytes DEF ClientPlace
  <2> QED BY <2>1, <2>2 DEF TcpInv
<1> QED BY <1>1, <1>2, <1>3, <1>4, <1>5, <1>6
          DEF WinSock!Next, WinSock!ServerStep

LEMMA TcpInvariance ==
  ASSUME WinSock!WinSockAssumption
  PROVE  WinSock!Spec => []TcpInv
BY InitTcpInv, NextTcpInv, PTL DEF WinSock!Spec

\* The WinSock servers and clients keep their types; what an echo server sends
\* back is never more than its buffer holds.
THEOREM WinSockTypeCorrect ==
  ASSUME WinSock!WinSockAssumption
  PROVE  WinSock!Spec => []WinSock!TypeOK
<1>1. TcpInv => WinSock!TypeOK BY DEF TcpInv
<1> QED BY <1>1, TcpInvariance, PTL

\* However the sends and receives of TCP cut up the text, an echo client that
\* saw the connection closed has read exactly what it sent: no byte of it was
\* with the server, on either way or unsent.
THEOREM EchoedWhole ==
  ASSUME WinSock!WinSockAssumption
  PROVE  WinSock!Spec => []EchoComplete
<1>1. TcpInv => EchoComplete
  <2> SUFFICES ASSUME TcpInv, NEW c \in Clients, system = "echo",
                      party[c] = "closed"
               PROVE  WinSock!FlattenSeq(told[c]) = text[c]
    BY DEF EchoComplete, WinSock!EchoComplete
  <2>1. WinSock!TypeOK /\ ClientPlace(c) /\ PartyBytes(c) BY DEF TcpInv
  <2>2. peer = c /\ reply = <<>> /\ down[c] = <<>> BY <2>1 DEF ClientPlace
  <2>3. Echoed(c) BY <2>1 DEF PartyBytes
  <2>4. up[c] = <<>> /\ unsent[c] = <<>> BY <2>3 DEF Echoed, Over
  <2>5. text[c] = Read(c) \o (<<>> \o (<<>> \o (<<>> \o <<>>)))
    BY <2>2, <2>3, <2>4 DEF Echoed
  <2>6. Read(c) \in Seq(Nat) BY <2>1, FlattenType DEF WinSock!TypeOK, Read
  <2>7. <<>> \o (<<>> \o (<<>> \o <<>>)) = <<>> OBVIOUS
  <2>8. Read(c) \o <<>> = Read(c) BY <2>6
  <2> QED BY <2>5, <2>7, <2>8 DEF Read
<1> QED BY <1>1, TcpInvariance, PTL

LEMMA Remainder ==
  ASSUME NEW R \in Nat, R >= 2, NEW m \in Int
  PROVE  m \div R \in Int /\ m % R \in 0..(R - 1) /\ m = R * (m \div R) + (m % R)
BY SMTT(30)

\* A multiple leaves no remainder.
LEMMA NoRemainder ==
  ASSUME NEW R \in Nat, R >= 2, NEW q \in Int
  PROVE  (R * q) % R = 0
<1> DEFINE a == R * q
           d == a \div R
           r == a % R
           x == q - d
<1>1. a \in Int OBVIOUS
<1>2. d \in Int /\ r \in 0..(R - 1) /\ a = R * d + r
  BY <1>1, Remainder
<1>3. x \in Int BY <1>2
<1>4. R * x = r
  <2>1. R * x = R * q - R * d
    <3> HIDE DEF d
    <3> QED BY <1>2, SMTT(30)
  <2> DEFINE b == R * d
  <2>2. b \in Int BY <1>2
  <2> HIDE DEF a, d, r, x, b
  <2>3. R * x = a - b BY <2>1 DEF a, b
  <2>4. a = b + r BY <1>2 DEF b
  <2> QED BY <1>1, <1>2, <2>2, <2>3, <2>4
<1> HIDE DEF a, d, r, x
<1>5. x >= 1 => R * x >= R BY <1>3, SMTT(30)
<1>6. x <= -1 => R * x <= 0 - R BY <1>3, SMTT(30)
<1>7. x = 0 => R * x = 0 BY <1>3, SMTT(30)
<1>8. r = 0
  <2>1. CASE x >= 1 BY <1>2, <1>4, <1>5, <2>1
  <2>2. CASE x <= -1 BY <1>2, <1>4, <1>6, <2>2
  <2>3. CASE x = 0 BY <1>4, <1>7, <2>3
  <2> QED BY <1>3, <2>1, <2>2, <2>3
<1> QED BY <1>8 DEF r, a

\* What the file server writes is what a client should be told.
LEMMA TellsSize ==
  ASSUME WinSock!FileSizesAssumption, NEW s
  PROVE  WinSock!Told(s, WinSock!Decimal(WinSock!FileSize(s)))
<1> DEFINE half == IntRange \div 2
<1>0. /\ IntRange \in Nat /\ IntRange >= 2
      /\ \A name \in DOMAIN Size : Size[name] \in Nat
  BY DEF WinSock!FileSizesAssumption
<1>1. half \in Nat /\ half >= 1 /\ half + half <= IntRange BY <1>0
<1>2. CASE s \notin DOMAIN Size
  <2>1. WinSock!FileSize(s) = -1
    <3>1. half - 1 \in 0..(IntRange - 1) BY <1>0, <1>1
    <3>2. (half - 1) % IntRange = half - 1
      <4> DEFINE m == half - 1
      <4>1. m \in 0..(IntRange - 1) BY <3>1
      <4> HIDE DEF m
      <4>2. m % IntRange = m BY <1>0, <4>1
      <4> QED BY <4>2 DEF m
    <3>3. WinSock!AsInt(-1) = ((-1 + half) % IntRange) - half BY DEF WinSock!AsInt
    <3> HIDE DEF half
    <3>4. -1 + half = half - 1 /\ (half - 1) - half = -1 BY <1>1
    <3>5. WinSock!AsInt(-1) = -1 BY <3>2, <3>3, <3>4
    <3> QED BY <1>2, <3>5 DEF WinSock!FileSize
  <2>2. WinSock!Decimal(-1) = <<WinSock!Minus>> \o <<1>>
    <3>1. \A k \in Int : -k = 0 - k OBVIOUS
    <3>2. -1 \in Int /\ -1 < 0 OBVIOUS
    <3>3. 0 - (-1) = 1 OBVIOUS
    <3>4. -(-1) = 1 BY <3>1, <3>2, <3>3
    <3> QED BY <3>2, <3>4, DigitOfOne DEF WinSock!Decimal
  <2>3. WinSock!Decimal(WinSock!FileSize(s)) = <<WinSock!Minus, 1>>
    BY <2>1, <2>2
  <2> QED BY <1>2, <2>3 DEF WinSock!Told
<1>3. CASE s \in DOMAIN Size
  <2>1. PICK S \in Nat : S = Size[s] BY <1>0, <1>3
  <2> DEFINE q == (S + half) \div IntRange
             r == (S + half) % IntRange
             n == r - half
  <2>2. q \in Int /\ r \in 0..(IntRange - 1) /\ S + half = IntRange * q + r
    <3>1. S + half \in Nat BY <1>1
    <3> QED BY <1>0, <3>1, Remainder
  <2>3. WinSock!FileSize(s) = n BY <1>3, <2>1 DEF WinSock!FileSize, WinSock!AsInt
  <2> HIDE DEF q, r, half
  <2>4. n \in WinSock!Ints
    <3>1. WinSock!Ints = -half .. (IntRange - half - 1) BY DEF WinSock!Ints, half
    <3>2. \A k \in Int : -k = 0 - k OBVIOUS
    <3> QED BY <1>0, <1>1, <2>2, <3>1, <3>2
  <2>5. (S - n) % IntRange = 0
    <3> DEFINE p == IntRange * q
    <3>1. p \in Int BY <1>0, <2>2
    <3>2. S + half = p + r BY <2>2
    <3>3. p % IntRange = 0 BY <1>0, <2>2, NoRemainder
    <3> HIDE DEF p
    <3>4. S - n = p BY <1>0, <1>1, <2>2, <3>1, <3>2
    <3> QED BY <3>3, <3>4
  <2> HIDE DEF n
  <2>6. WinSock!Told(s, WinSock!Decimal(n)) BY <1>3, <2>1, <2>4, <2>5 DEF WinSock!Told
  <2> QED BY <2>3, <2>6
<1> QED BY <1>2, <1>3

\* A file client that saw the connection closed has read one whole answer, right
\* for the part of the name that the only recv of the server returned.
THEOREM FilesTold ==
  ASSUME WinSock!WinSockAssumption
  PROVE  WinSock!Spec => []ToldOfItsFile
<1>1. TcpInv => ToldOfItsFile
  <2> SUFFICES ASSUME TcpInv, NEW c \in Clients, system = "file",
                      party[c] = "closed"
               PROVE  \E n \in 1..Len(text[c]) :
                        WinSock!Told(WinSock!Take(text[c], n),
                                     WinSock!FlattenSeq(told[c]))
    BY DEF ToldOfItsFile, WinSock!ToldOfItsFile
  <2>1. WinSock!TypeOK /\ ClientPlace(c) /\ PartyBytes(c) BY DEF TcpInv
  <2>2. reply = <<>> /\ down[c] = <<>> BY <2>1 DEF ClientPlace
  <2>3. Answered(c) BY <2>1 DEF PartyBytes, FileTold, Over
  <2>4. PICK n \in 1..Len(text[c]) :
          WinSock!Decimal(WinSock!FileSize(WinSock!Take(text[c], n)))
            = Read(c) \o (<<>> \o <<>>)
    BY <2>2, <2>3 DEF Answered
  <2>5. Read(c) \in Seq(Nat) BY <2>1, FlattenType DEF WinSock!TypeOK, Read
  <2>6. Read(c) \o (<<>> \o <<>>) = Read(c) BY <2>5
  <2>7. WinSock!Told(WinSock!Take(text[c], n),
                     WinSock!Decimal(
                       WinSock!FileSize(WinSock!Take(text[c], n))))
    BY TellsSize DEF WinSock!WinSockAssumption
  <2> QED BY <2>4, <2>6, <2>7 DEF Read
<1> QED BY <1>1, TcpInvariance, PTL
=============================================================================
