------------------------------ MODULE UdpProofs ------------------------------
(***************************************************************************)
(* Proofs about the other programs on UDP: the two threads of SendUDP.cpp, *)
(* for any number of datagrams, and the servers that receive and answer in *)
(* one thread, for any number of clients, any texts and any buffer.        *)
(***************************************************************************)
EXTENDS MCUdp, WireProofs, NaturalsInduction

-----------------------------------------------------------------------------
(* Arrays as C strings.                                                    *)

\* A text without a 0 is all there is, one with a 0 ends before its first.
LEMMA WithoutZero ==
  ASSUME NEW s \in Seq(Nat), \A i \in 1..Len(s) : s[i] # 0
  PROVE  CString(s) = s
BY DEF CString, SelectInSeq

LEMMA UpToZero ==
  ASSUME NEW s \in Seq(Nat), NEW i \in 1..Len(s), s[i] = 0,
         \A j \in 1..(i - 1) : s[j] # 0
  PROVE  CString(s) = SubSeq(s, 1, i - 1)
<1> DEFINE Z == {j \in 1..Len(s) : s[j] = 0}
<1>1. i \in Z /\ Z \subseteq Nat OBVIOUS
<1>2. ASSUME NEW j \in Z PROVE i <= j
  <2>1. j \in Nat /\ j >= 1 /\ (j < i => j \in 1..(i - 1)) OBVIOUS
  <2> QED BY <2>1
<1>3. Min(Z) = i
  <2> HIDE DEF Z
  <2> QED BY <1>1, <1>2, LeastIsMin
<1>4. SelectInSeq(s, LAMBDA ch : ch = 0) = i
  BY <1>1, <1>3 DEF SelectInSeq
<1> QED BY <1>4 DEF CString

LEMMA ZeroOrNone ==
  ASSUME NEW s \in Seq(Nat)
  PROVE  \/ \A i \in 1..Len(s) : s[i] # 0
         \/ \E i \in 1..Len(s) : s[i] = 0 /\ \A j \in 1..(i - 1) : s[j] # 0
<1> DEFINE Z == {j \in 1..Len(s) : s[j] = 0}
<1>1. CASE Z = {} BY <1>1
<1>2. CASE Z # {}
  <2>1. PICK i \in Z : \A j \in Z : i <= j
    <3>1. Z \subseteq Nat OBVIOUS
    <3> HIDE DEF Z
    <3> QED BY <1>2, <3>1, HasLeast
  <2>2. ASSUME NEW j \in 1..(i - 1) PROVE s[j] # 0
    <3>1. j \in 1..Len(s) /\ ~(i <= j) BY <2>1
    <3> QED BY <2>1, <3>1
  <2> QED BY <2>1, <2>2
<1> QED BY <1>1, <1>2

\* An array that begins as the text does and has a 0 after it is read as the
\* text, whatever follows.
LEMMA ReadsText ==
  ASSUME NEW s \in Seq(Nat), NEW t \in Seq(Nat), Len(s) < Len(t),
         \A i \in 1..Len(s) : t[i] = s[i], t[Len(s) + 1] = 0
  PROVE  CString(t) = CString(s)
<1>0. Len(s) \in Nat /\ Len(t) \in Nat OBVIOUS
<1>1. CASE \A i \in 1..Len(s) : s[i] # 0
  <2>1. CString(s) = s BY <1>1, WithoutZero
  <2>2. Len(s) + 1 \in 1..Len(t) /\ Len(s) + 1 - 1 = Len(s) BY <1>0
  <2>3. CString(t) = SubSeq(t, 1, Len(s))
    <3> DEFINE n == Len(s) + 1
    <3>1. n \in 1..Len(t) /\ t[n] = 0 /\ n - 1 = Len(s)
      BY <2>2
    <3>2. \A j \in 1..(n - 1) : t[j] # 0 BY <1>1, <3>1
    <3> HIDE DEF n
    <3>3. CString(t) = SubSeq(t, 1, n - 1) BY <3>1, <3>2, UpToZero
    <3> QED BY <3>1, <3>3
  <2>4. SubSeq(t, 1, Len(s)) = s
    <3>1. SubSeq(t, 1, Len(s)) \in Seq(Nat) /\ Len(SubSeq(t, 1, Len(s))) = Len(s)
          /\ \A i \in 1..Len(s) : SubSeq(t, 1, Len(s))[i] = t[i]
      BY <1>0
    <3> QED BY <3>1, SeqEqual
  <2> QED BY <2>1, <2>3, <2>4
<1>2. ASSUME NEW i \in 1..Len(s), s[i] = 0, \A j \in 1..(i - 1) : s[j] # 0
      PROVE  CString(t) = CString(s)
  <2>1. CString(s) = SubSeq(s, 1, i - 1) BY <1>2, UpToZero
  <2>2. i \in 1..Len(t) /\ t[i] = 0 /\ \A j \in 1..(i - 1) : t[j] # 0
    <3>1. \A j \in 1..(i - 1) : j \in 1..Len(s) BY <1>0
    <3>2. i \in 1..Len(t) BY <1>0
    <3>3. \A j \in 1..(i - 1) : t[j] = s[j] BY <3>1
    <3> QED BY <1>2, <3>2, <3>3
  <2>3. CString(t) = SubSeq(t, 1, i - 1) BY <2>2, UpToZero
  <2>4. SubSeq(t, 1, i - 1) = SubSeq(s, 1, i - 1)
    <3> DEFINE a == SubSeq(t, 1, i - 1)
               b == SubSeq(s, 1, i - 1)
    <3>0. i - 1 \in 0..Len(s) /\ i - 1 \in 0..Len(t) BY <1>0
    <3>1. /\ a \in Seq(Nat) /\ b \in Seq(Nat)
          /\ Len(a) = i - 1 /\ Len(b) = i - 1
          /\ \A j \in 1..(i - 1) : a[j] = t[j] /\ b[j] = s[j]
      <4>1. /\ a \in Seq(Nat) /\ Len(a) = i - 1
            /\ \A j \in 1..(i - 1) : a[j] = t[j]
        BY ONLY <1>0, <3>0, i \in 1..Len(s), s \in Seq(Nat), t \in Seq(Nat)
           DEF a
      <4>2. /\ b \in Seq(Nat) /\ Len(b) = i - 1
            /\ \A j \in 1..(i - 1) : b[j] = s[j]
        BY ONLY <1>0, <3>0, i \in 1..Len(s), s \in Seq(Nat) DEF b
      <4> QED BY <4>1, <4>2
    <3>2. \A j \in 1..(i - 1) : j \in 1..Len(s) BY <1>0
    <3>3. \A j \in 1..Len(a) : a[j] = b[j] BY <3>1, <3>2
    <3> HIDE DEF a, b
    <3> QED BY <3>1, <3>3, SeqEqual
  <2> QED BY <2>1, <2>3, <2>4
<1> QED BY <1>1, <1>2, ZeroOrNone

\* What an array has after a text was put into it.
LEMMA Overlaid ==
  ASSUME NEW old \in Seq(Nat), NEW s \in Seq(Nat), Len(s) <= Len(old)
  PROVE  /\ Overlay(old, s) \in Seq(Nat) /\ Len(Overlay(old, s)) = Len(old)
         /\ \A i \in 1..Len(old) :
              Overlay(old, s)[i] = IF i <= Len(s) THEN s[i] ELSE old[i]
<1> DEFINE r == SubSeq(old, Len(s) + 1, Len(old))
<1>0. Len(s) \in Nat /\ Len(old) \in Nat OBVIOUS
<1>1. /\ r \in Seq(Nat) /\ Len(r) = Len(old) - Len(s)
      /\ \A i \in 1..(Len(old) - Len(s)) : r[i] = old[Len(s) + i]
  BY <1>0
<1> HIDE DEF r
<1>2. /\ s \o r \in Seq(Nat) /\ Len(s \o r) = Len(s) + Len(r)
      /\ \A i \in 1..(Len(s) + Len(r)) :
           (s \o r)[i] = IF i <= Len(s) THEN s[i] ELSE r[i - Len(s)]
  BY <1>1, ConcatProperties
<1>3. Len(s) + Len(r) = Len(old) BY <1>0, <1>1
<1>4. ASSUME NEW i \in 1..Len(old)
      PROVE  (s \o r)[i] = IF i <= Len(s) THEN s[i] ELSE old[i]
  <2>1. CASE i <= Len(s) BY <1>2, <1>3, <2>1
  <2>2. CASE ~(i <= Len(s))
    <3>1. i - Len(s) \in 1..(Len(old) - Len(s)) /\ Len(s) + (i - Len(s)) = i
      BY <1>0, <2>2
    <3>2. r[i - Len(s)] = old[i] BY <1>1, <3>1
    <3> QED BY <1>2, <1>3, <2>2, <3>2
  <2> QED BY <2>1, <2>2
<1> QED BY <1>2, <1>3, <1>4 DEF Overlay, r

\* The end that the reverse server marks is where the text ends.
LEMMA MarksEnd ==
  ASSUME SyncUdpAssumption, NEW old \in Seq(Nat), Len(old) = Buffer,
         NEW s \in Seq(Nat), Len(s) <= Buffer
  PROVE  /\ Terminated(old, s) \in Seq(Nat) /\ Len(Terminated(old, s)) = Buffer
         /\ CString(Terminated(old, s)) = CString(s)
<1>0. Len(s) \in Nat /\ Buffer \in Nat BY DEF SyncUdpAssumption
<1>1. CASE Len(s) = Buffer
  BY <1>0, <1>1 DEF Terminated
<1>2. CASE Len(s) < Buffer
  <2> DEFINE e == Append(s, 0)
             t == Overlay(old, e)
  <2>1. /\ e \in Seq(Nat) /\ Len(e) = Len(s) + 1 /\ e[Len(s) + 1] = 0
        /\ \A i \in 1..Len(s) : e[i] = s[i]
    BY <1>0
  <2>2. Len(e) <= Len(old) BY <1>0, <1>2, <2>1
  <2> HIDE DEF e
  <2>3. /\ t \in Seq(Nat) /\ Len(t) = Buffer
        /\ \A i \in 1..Buffer : i <= Len(s) + 1 => t[i] = e[i]
    BY <2>1, <2>2, Overlaid
  <2> HIDE DEF t
  <2>4. \A i \in 1..Len(s) : i \in 1..Buffer /\ i <= Len(s) + 1
    BY <1>0, <1>2
  <2>5. Len(s) + 1 \in 1..Buffer /\ Len(s) + 1 <= Len(s) + 1 BY <1>0, <1>2
  <2>6. t[Len(s) + 1] = 0 BY ONLY <2>1, <2>3, <2>5
  <2>7. \A i \in 1..Len(s) : t[i] = s[i] BY ONLY <2>1, <2>3, <2>4
  <2>8. CString(t) = CString(s) BY <1>2, <2>3, <2>6, <2>7, ReadsText
  <2>9. Terminated(old, s) = t BY <1>2 DEF Terminated, t, e
  <2> QED BY <2>3, <2>8, <2>9
<1> QED BY <1>0, <1>1, <1>2

\* What the sink prints of a datagram whose text leaves room for a 0.
Swallowed(s) == Overlay([i \in 1..Buffer |-> 0], s)

LEMMA SinkReads ==
  ASSUME SyncUdpAssumption, NEW s \in Seq(Nat), Len(s) <= Buffer
  PROVE  /\ Swallowed(s) \in Seq(Nat) /\ Len(Swallowed(s)) = Buffer
         /\ Len(CString(s)) < Buffer =>
              AsPrinted(Swallowed(s)) = {CString(s)}
<1>0. Len(s) \in Nat /\ Buffer \in Nat BY DEF SyncUdpAssumption
<1> DEFINE old == [i \in 1..Buffer |-> 0]
           t == Swallowed(s)
<1>1. old \in Seq(Nat) /\ Len(old) = Buffer BY <1>0
<1>2. /\ t \in Seq(Nat) /\ Len(t) = Buffer
      /\ \A i \in 1..Buffer : t[i] = IF i <= Len(s) THEN s[i] ELSE old[i]
  <2>1. t = Overlay(old, s) BY DEF Swallowed
  <2> HIDE DEF old, t
  <2> QED BY <1>1, <2>1, Overlaid
<1> HIDE DEF t
<1>3. CString(t) = CString(s)
  <2>1. CASE Len(s) = Buffer
    <3>1. \A i \in 1..Len(s) : t[i] = s[i]
      <4> TAKE i \in 1..Len(s)
      <4>1. i \in 1..Buffer /\ i <= Len(s) BY <1>0, <2>1
      <4> QED BY <1>2, <4>1
    <3>2. t = s
      <4>1. t \in Seq(Nat) /\ Len(t) = Len(s) BY <1>2, <2>1
      <4> QED BY <3>1, <4>1, SeqEqual
    <3> QED BY <3>2
  <2>2. CASE Len(s) < Buffer
    <3>1. \A i \in 1..Len(s) : t[i] = s[i] BY <1>0, <1>2, <2>2
    <3>2. Len(s) + 1 \in 1..Buffer /\ ~(Len(s) + 1 <= Len(s))
      BY <1>0, <2>2
    <3>3. t[Len(s) + 1] = 0
      <4> DEFINE n == Len(s) + 1
      <4>1. n \in 1..Buffer /\ ~(n <= Len(s)) BY <3>2
      <4> HIDE DEF n
      <4>2. t[n] = old[n] BY <1>2, <4>1
      <4>3. old[n] = 0 BY <4>1
      <4> QED BY <4>2, <4>3 DEF n
    <3> QED BY <1>2, <2>2, <3>1, <3>3, ReadsText
  <2> QED BY <1>0, <2>1, <2>2
<1>4. ASSUME Len(CString(s)) < Buffer PROVE AsPrinted(t) = {CString(s)}
  <2>1. CString(t) # t BY <1>0, <1>2, <1>3, <1>4
  <2> QED BY <1>3, <2>1 DEF AsPrinted
<1> QED BY <1>2, <1>4 DEF t
-----------------------------------------------------------------------------
(* What std::to_string writes.                                             *)

\* g writes the numbers up to n.
Writes(g, n) ==
  g = [i \in 0..n |-> IF i < 10 THEN <<i>> ELSE Append(g[i \div 10], i % 10)]

\* There is such a function for every n, and they agree.
LEMMA WritesOneMore ==
  ASSUME NEW n \in Nat, NEW f, Writes(f, n)
  PROVE  \E g : Writes(g, n + 1)
<1> DEFINE m == n + 1
           next == IF m < 10 THEN <<m>> ELSE Append(f[m \div 10], m % 10)
           g == [i \in 0..m |-> IF i = m THEN next ELSE f[i]]
<1>0. \A i \in Nat : i >= 10 => i \div 10 \in Nat /\ i \div 10 < i OBVIOUS
<1>1. ASSUME NEW i \in 0..m
      PROVE  g[i] = IF i < 10 THEN <<i>> ELSE Append(g[i \div 10], i % 10)
  <2>1. i >= 10 => i \div 10 \in 0..n /\ i \div 10 # m /\ i \div 10 \in 0..m
    BY <1>0
  <2>2. i >= 10 => g[i \div 10] = f[i \div 10] BY <2>1
  <2>3. CASE i = m BY <2>2, <2>3
  <2>4. CASE i # m
    <3>1. i \in 0..n /\ g[i] = f[i] BY <2>4
    <3>2. f[i] = IF i < 10 THEN <<i>> ELSE Append(f[i \div 10], i % 10)
      BY <3>1 DEF Writes
    <3> QED BY <2>2, <3>1, <3>2
  <2> QED BY <2>3, <2>4
<1>2. g = [i \in 0..m |-> g[i]] OBVIOUS
<1> HIDE DEF g
<1>3. Writes(g, m) BY <1>1, <1>2 DEF Writes
<1> QED BY <1>3

LEMMA WritesAll ==
  ASSUME NEW n \in Nat
  PROVE  \E f : Writes(f, n)
<1> DEFINE No == {m \in Nat : ~\E f : Writes(f, m)}
<1>1. 0 \notin No
  <2>1. Writes([i \in 0..0 |-> <<i>>], 0) BY DEF Writes
  <2> QED BY <2>1
<1>2. No = {}
  <2> SUFFICES ASSUME No # {} PROVE FALSE OBVIOUS
  <2>0. No \subseteq Nat OBVIOUS
  <2> HIDE DEF No
  <2>1. PICK m \in No : \A j \in No : m <= j BY <2>0, HasLeast
  <2>2. m \in Nat /\ m # 0 BY <1>1, <2>0, <2>1
  <2>3. m - 1 \in Nat /\ m - 1 \notin No BY <2>0, <2>1, <2>2
  <2>4. PICK f : Writes(f, m - 1) BY <2>3 DEF No
  <2>5. \E g : Writes(g, (m - 1) + 1) BY <2>3, <2>4, WritesOneMore
  <2>6. (m - 1) + 1 = m BY <2>2
  <2> QED BY <2>5, <2>6, <2>1 DEF No
<1> QED BY <1>2

LEMMA WritesSame ==
  ASSUME NEW n \in Nat, NEW m \in Nat, n <= m, NEW f, NEW g,
         Writes(f, n), Writes(g, m)
  PROVE  \A i \in 0..n : f[i] = g[i]
<1> DEFINE No == {i \in 0..n : f[i] # g[i]}
<1> SUFFICES ASSUME No # {} PROVE FALSE OBVIOUS
<1>0. No \subseteq Nat /\ No \subseteq 0..n OBVIOUS
<1> HIDE DEF No
<1>1. PICK i \in No : \A j \in No : i <= j BY <1>0, HasLeast
<1>2. i \in 0..n /\ i \in 0..m BY <1>0, <1>1
<1>3. f[i] = IF i < 10 THEN <<i>> ELSE Append(f[i \div 10], i % 10)
  BY <1>2 DEF Writes
<1>4. g[i] = IF i < 10 THEN <<i>> ELSE Append(g[i \div 10], i % 10)
  BY <1>2 DEF Writes
<1>5. i >= 10 => i \div 10 \in 0..n /\ i \div 10 < i
  <2>1. i \in Nat /\ i <= n BY <1>2
  <2>2. i >= 10 => i \div 10 \in Nat /\ i \div 10 < i BY <2>1
  <2> QED BY <2>1, <2>2
<1>6. i >= 10 => i \div 10 \notin No
  <2> SUFFICES ASSUME i >= 10, i \div 10 \in No PROVE FALSE OBVIOUS
  <2> DEFINE k == i \div 10
  <2>1. k \in Nat /\ i \in Nat /\ k < i BY <1>2, <1>5
  <2> HIDE DEF k
  <2>2. i <= k BY <1>1 DEF k
  <2> QED BY <2>1, <2>2
<1>7. i >= 10 => f[i \div 10] = g[i \div 10] BY <1>5, <1>6 DEF No
<1>8. f[i] = g[i] BY <1>2, <1>3, <1>4, <1>7
<1> QED BY <1>1, <1>8 DEF No

\* The function of all numbers that Digits is defined as exists.
LEMMA DigitsWrite ==
  Digits = [i \in Nat |-> IF i < 10 THEN <<i>>
                                    ELSE Append(Digits[i \div 10], i % 10)]
<1> DEFINE part[n \in Nat] == CHOOSE f : Writes(f, n)
           all == [n \in Nat |-> part[n][n]]
<1>1. ASSUME NEW n \in Nat PROVE Writes(part[n], n) BY WritesAll
<1>2. ASSUME NEW i \in Nat
      PROVE  all[i] = IF i < 10 THEN <<i>> ELSE Append(all[i \div 10], i % 10)
  <2>1. part[i][i]
          = IF i < 10 THEN <<i>> ELSE Append(part[i][i \div 10], i % 10)
    <3>1. Writes(part[i], i) /\ i \in 0..i BY <1>1
    <3> HIDE DEF part
    <3> QED BY <3>1 DEF Writes
  <2>2. i >= 10 => i \div 10 \in Nat /\ i \div 10 <= i OBVIOUS
  <2>3. i >= 10 => part[i][i \div 10] = part[i \div 10][i \div 10]
    <3> SUFFICES ASSUME i >= 10
                 PROVE  part[i][i \div 10] = part[i \div 10][i \div 10]
      OBVIOUS
    <3> DEFINE k == i \div 10
    <3>1. k \in Nat /\ k <= i /\ k \in 0..k BY <2>2
    <3> HIDE DEF k
    <3>2. Writes(part[i], i) /\ Writes(part[k], k) BY <1>1, <3>1
    <3> HIDE DEF part
    <3>3. part[k][k] = part[i][k] BY <3>1, <3>2, WritesSame
    <3> QED BY <3>3 DEF k
  <2>4. all[i] = part[i][i] OBVIOUS
  <2>5. i >= 10 => all[i \div 10] = part[i \div 10][i \div 10] BY <2>2
  <2> HIDE DEF part, all
  <2> QED BY <2>1, <2>3, <2>4, <2>5
<1>3. all = [i \in Nat |-> all[i]] OBVIOUS
<1> HIDE DEF all
<1>4. all = [i \in Nat |-> IF i < 10 THEN <<i>>
                                     ELSE Append(all[i \div 10], i % 10)]
  BY <1>2, <1>3
<1> QED BY <1>4 DEF Digits

LEMMA DigitOfOne == Digits[1] = <<1>>
BY DigitsWrite

-----------------------------------------------------------------------------
(* The servers that answer in one thread, and their clients.               *)

Types ==
  /\ ClientTypeOK
  /\ system \in Systems
  /\ server \in {"receiving", "ended"}
  /\ buffer \in Seq(Nat) /\ Len(buffer) = Buffer
  /\ text \in [Clients -> Texts \cup {Zero, <<>>}]
  /\ answer = [c \in Clients |-> answer[c]]
  /\ heard = [c \in Clients |-> heard[c]]
  /\ overrun \in BOOLEAN

\* Something went wrong, or the server has ended: what makes a client give up,
\* and an answer find nobody.
Over == faulty \/ server = "ended"

\* Of each client one datagram at most is on the way, its own or the answer to it.
\* There is none before it has sent, and none when it is done, unless something
\* has failed; of the sink's client there may be its own.
OneEach ==
  \A c \in Clients :
    /\ asked[c] + answers[c] <= 1
    /\ client[c] = "new" => /\ asked[c] = 0 /\ answers[c] = 0
                            /\ text[c] = <<>> /\ heard[c] = <<>>
    /\ client[c] = "waiting" => system # "sink"
    /\ client[c] = "done" /\ system # "sink" /\ asked[c] + answers[c] > 0
         => faulty
    /\ client[c] = "gone" => Over
    /\ system = "sink" => answers[c] = 0

Refusal == refused => Over

\* What c should be answered.
Right(c, a) ==
  CASE system = "hello" -> a = Hello
    [] system = "phones" -> a \in PhoneLists
    [] system = "reverse" -> a = Reverse(CString(text[c]))
    [] system = "size" -> Told(text[c], a)
    [] OTHER -> TRUE

\* What is on the way to a client is the right answer.
Answers == \A c \in Clients : answers[c] > 0 => Right(c, answer[c])

IInv == Types /\ OneEach /\ Refusal /\ EndsForCause /\ SinkPrintsOwn

LEMMA Text ==
  ASSUME SyncUdpAssumption, Types, NEW c \in Clients
  PROVE  text[c] \in Seq(Nat) /\ Len(text[c]) \in Nat /\ Buffer \in Nat
<1>1. text[c] \in Texts \cup {Zero, <<>>} BY DEF Types
<1>2. Zero \in Seq(Nat) /\ <<>> \in Seq(Nat) BY DEF Zero
<1>3. text[c] \in Seq(Nat) BY <1>1, <1>2 DEF SyncUdpAssumption
<1> QED BY <1>3 DEF SyncUdpAssumption

LEMMA InitIInv ==
  ASSUME SyncUdpAssumption, Init
  PROVE  IInv /\ Answers
<1>0. Buffer \in Nat BY DEF SyncUdpAssumption
<1>1. Types
  <2>1. buffer \in Seq(Nat) /\ Len(buffer) = Buffer BY <1>0 DEF Init
  <2>2. ClientTypeOK BY DEF Init, ClientInit, ClientTypeOK
  <2> QED BY <2>1, <2>2 DEF Init, Types
<1>2. OneEach /\ Refusal /\ Answers
  BY DEF Init, ClientInit, OneEach, Refusal, Answers
<1>3. EndsForCause /\ SinkPrintsOwn
  BY DEF Init, ClientInit, EndsForCause, SinkPrintsOwn
<1> QED BY <1>1, <1>2, <1>3 DEF IInv
\* A step that changes no text that was sent, takes nothing back that went wrong,
\* and ends the server for a cause, if it does.
LEMMA CauseStays ==
  ASSUME SyncUdpAssumption, IInv, UNCHANGED system,
         \A c \in Clients : client[c] # "new" => text'[c] = text[c],
         overrun => overrun', faulty => faulty',
         \/ server' = server
         \/ system = "size" \/ overrun
         \/ system # "sink" /\ (faulty' \/ \E c \in Clients :
                                             client[c] # "new"
                                             /\ Len(text[c]) > Buffer)
  PROVE  EndsForCause'
<1>0. Types /\ OneEach BY DEF IInv
<1>1. ASSUME NEW c \in Clients, Len(text[c]) > Buffer
      PROVE  client[c] # "new"
  <2>1. Len(text[c]) # 0 BY <1>1 DEF SyncUdpAssumption
  <2> QED BY <1>0, <2>1 DEF OneEach
<1>2. ASSUME NEW c \in Clients, client[c] # "new", Len(text[c]) > Buffer
      PROVE  \E d \in Clients : Len(text'[d]) > Buffer
  BY <1>2
<1>3. ASSUME server' = "ended"
      PROVE  \/ system = "size" \/ overrun'
             \/ system # "sink"
                /\ (faulty' \/ \E c \in Clients : Len(text'[c]) > Buffer)
  <2>1. CASE server' = server
    BY <1>1, <1>2, <1>3, <2>1 DEF IInv, EndsForCause
  <2>2. CASE server' # server
    BY <1>2, <2>2
  <2> QED BY <2>1, <2>2
<1> QED BY <1>3 DEF EndsForCause

\* A step that prints nothing of a client and changes no text that was sent.
LEMMA PrintedStays ==
  ASSUME IInv, UNCHANGED <<system, heard>>,
         \A c \in Clients : client[c] # "new" => text'[c] = text[c]
  PROVE  SinkPrintsOwn'
<1>1. ASSUME NEW c \in Clients, heard[c] # <<>> PROVE text'[c] = text[c]
  <2>1. client[c] # "new" BY <1>1 DEF IInv, OneEach
  <2> QED BY <2>1
<1> QED BY <1>1 DEF IInv, SinkPrintsOwn

LEMMA MaySendTexts ==
  ASSUME Types
  PROVE  MaySend \subseteq Texts \cup {Zero}
BY DEF Types, Systems, MaySend

LEMMA SentText ==
  ASSUME Types, NEW c \in Clients, NEW t \in MaySend
  PROVE  [text EXCEPT ![c] = t] \in [Clients -> Texts \cup {Zero, <<>>}]
<1>1. t \in Texts \cup {Zero, <<>>} BY MaySendTexts
<1>2. text \in [Clients -> Texts \cup {Zero, <<>>}] BY DEF Types
<1> QED BY <1>1, <1>2

LEMMA SendIInv ==
  ASSUME SyncUdpAssumption, IInv, NEW c \in Clients, Send(c)
  PROVE  IInv'
<1>0. Types /\ OneEach /\ Refusal BY DEF IInv
<1>1. /\ client[c] = "new" /\ system # "sink"
      /\ \/ /\ client' = [client EXCEPT ![c] = "waiting"]
            /\ asked' = [asked EXCEPT ![c] = asked[c] + 1]
            /\ UNCHANGED faulty
         \/ /\ \E s \in {"waiting", "gone"} : client' = [client EXCEPT ![c] = s]
            /\ faulty' = TRUE
            /\ UNCHANGED asked
      /\ UNCHANGED <<answers, refused, answer, heard, system, server, buffer,
                     overrun>>
  BY DEF Send, Ask, AskUnchecked
<1>2. PICK t \in MaySend : text' = [text EXCEPT ![c] = t] BY DEF Send
<1>3. \A d \in Clients : d # c => text'[d] = text[d] BY <1>0, <1>2 DEF Types
<1>4. \A d \in Clients : client[d] # "new" => text'[d] = text[d]
  BY <1>1, <1>3
<1>5. Types'
  <2>1. text' \in [Clients -> Texts \cup {Zero, <<>>}]
    BY <1>0, <1>2, SentText
  <2>2. ClientTypeOK'
    <3>1. client' \in [Clients -> {"new", "waiting", "done", "gone"}]
      BY <1>0, <1>1 DEF Types, ClientTypeOK
    <3>2. asked \in [Clients -> Nat] /\ faulty \in BOOLEAN
      BY <1>0 DEF Types, ClientTypeOK
    <3>3. asked' = [asked EXCEPT ![c] = asked[c] + 1] \/ asked' = asked
      BY <1>1
    <3>4. asked' \in [Clients -> Nat] BY <3>2, <3>3
    <3>5. faulty' = faulty \/ faulty' = TRUE BY <1>1
    <3>6. faulty' \in BOOLEAN BY <3>2, <3>5
    <3> QED BY <1>0, <1>1, <3>1, <3>4, <3>6 DEF Types, ClientTypeOK
  <2> QED BY <1>0, <1>1, <2>1, <2>2 DEF Types
<1>6. OneEach'
  <2> SUFFICES ASSUME NEW d \in Clients
               PROVE  /\ asked'[d] + answers[d] <= 1
                      /\ client'[d] = "new" =>
                           /\ asked'[d] = 0 /\ answers[d] = 0
                           /\ text'[d] = <<>> /\ heard[d] = <<>>
                      /\ client'[d] = "waiting" => system # "sink"
                      /\ client'[d] = "done" /\ system # "sink"
                         /\ asked'[d] + answers[d] > 0 => faulty'
                      /\ client'[d] = "gone" => Over'
                      /\ system = "sink" => answers[d] = 0
    BY <1>1 DEF OneEach
  <2>1. (Over => Over') /\ (faulty => faulty') BY <1>1 DEF Over
  <2>2. CASE d = c
    <3>1. asked[c] = 0 /\ answers[c] = 0 BY <1>0, <1>1 DEF OneEach
    <3>2. \/ client'[c] = "waiting" /\ asked'[c] \in {0, 1}
          \/ client'[c] = "gone" /\ asked'[c] = 0 /\ faulty'
      BY <1>0, <1>1, <3>1 DEF Types, ClientTypeOK
    <3> QED BY <1>1, <2>2, <3>1, <3>2 DEF Over
  <2>3. CASE d # c
    <3>1. client'[d] = client[d] /\ asked'[d] = asked[d]
      BY <1>0, <1>1, <2>3 DEF Types, ClientTypeOK
    <3> QED BY <1>0, <1>3, <2>1, <2>3, <3>1 DEF OneEach
  <2> QED BY <2>2, <2>3
<1>7. Refusal' BY <1>0, <1>1 DEF Refusal, Over
<1>8. EndsForCause' BY <1>1, <1>4, CauseStays
<1>9. SinkPrintsOwn' BY <1>1, <1>4, PrintedStays
<1> QED BY <1>5, <1>6, <1>7, <1>8, <1>9 DEF IInv

LEMMA SendAwayIInv ==
  ASSUME SyncUdpAssumption, IInv, NEW c \in Clients, SendAway(c)
  PROVE  IInv'
<1>0. Types /\ OneEach /\ Refusal BY DEF IInv
<1>1. /\ client[c] = "new" /\ system = "sink"
      /\ client' = [client EXCEPT ![c] = "done"]
      /\ asked' = [asked EXCEPT ![c] = asked[c] + 1]
      /\ UNCHANGED <<answers, refused, faulty, answer, heard, system, server,
                     buffer, overrun>>
  BY DEF SendAway
<1>2. PICK t \in MaySend : text' = [text EXCEPT ![c] = t] BY DEF SendAway
<1>3. \A d \in Clients : d # c => text'[d] = text[d] BY <1>0, <1>2 DEF Types
<1>4. \A d \in Clients : client[d] # "new" => text'[d] = text[d]
  BY <1>1, <1>3
<1>5. Types'
  <2>1. text' \in [Clients -> Texts \cup {Zero, <<>>}]
    BY <1>0, <1>2, SentText
  <2>2. ClientTypeOK' BY <1>0, <1>1 DEF Types, ClientTypeOK
  <2> QED BY <1>0, <1>1, <2>1, <2>2 DEF Types
<1>6. OneEach'
  <2>1. /\ client'[c] = "done" /\ answers[c] = 0 /\ asked'[c] = 1
        /\ \A d \in Clients : d # c => client'[d] = client[d]
                                       /\ asked'[d] = asked[d]
    BY <1>0, <1>1 DEF Types, ClientTypeOK, OneEach
  <2> QED BY <1>0, <1>1, <1>3, <2>1 DEF OneEach, Over
<1>7. Refusal' BY <1>0, <1>1 DEF Refusal, Over
<1>8. EndsForCause' BY <1>1, <1>4, CauseStays
<1>9. SinkPrintsOwn' BY <1>1, <1>4, PrintedStays
<1> QED BY <1>5, <1>6, <1>7, <1>8, <1>9 DEF IInv

\* The other steps of a client take a datagram away, or the client.
LEMMA ClientIInv ==
  ASSUME SyncUdpAssumption, IInv, NEW c \in Clients,
         HearAnswer(c) \/ Unreachable(c) \/ HearsNothing(c) \/ OtherClient(c)
  PROVE  IInv'
<1>0. Types /\ OneEach /\ Refusal BY DEF IInv
<1>1. /\ UNCHANGED <<text, answer, system, server, buffer, overrun>>
      /\ faulty => faulty'
      /\ faulty' \in BOOLEAN /\ refused' \in BOOLEAN
      /\ Over => Over'
  BY <1>0 DEF HearAnswer, Hear, Unreachable, HearsNothing, OtherClient,
     Interrupt, Lose, Bounce, Types, ClientTypeOK, dataVars, Over
<1>2. /\ asked' = asked \/ (asked[c] > 0
                            /\ asked' = [asked EXCEPT ![c] = asked[c] - 1])
      /\ answers' = answers \/ (answers[c] > 0 /\
                                answers' = [answers EXCEPT ![c] = answers[c] - 1])
  BY DEF HearAnswer, Hear, Unreachable, HearsNothing, OtherClient, Interrupt,
     Lose, Bounce
<1>3. \/ client' = client
      \/ /\ client[c] = "waiting" /\ client' = [client EXCEPT ![c] = "gone"]
         /\ Over'
      \/ /\ client[c] = "waiting" /\ client' = [client EXCEPT ![c] = "done"]
         /\ \/ faulty'
            \/ asked[c] > 0 /\ asked' = [asked EXCEPT ![c] = asked[c] - 1]
               /\ answers' = answers
      \/ /\ client[c] = "waiting" /\ client' = [client EXCEPT ![c] = "done"]
         /\ answers[c] > 0 /\ answers' = [answers EXCEPT ![c] = answers[c] - 1]
         /\ asked' = asked
  <2>1. CASE HearAnswer(c) BY <2>1 DEF HearAnswer, Hear
  <2>2. CASE Unreachable(c)
    <3>1. Over' BY <1>1, <2>2 DEF Unreachable, Over
    <3>2. /\ asked[c] > 0 /\ asked' = [asked EXCEPT ![c] = asked[c] - 1]
          /\ answers' = answers
      BY <2>2 DEF Unreachable
    <3>3. \/ client' = client
          \/ /\ client[c] = "waiting"
             /\ \E s \in {"done", "gone"} : client' = [client EXCEPT ![c] = s]
      BY <2>2 DEF Unreachable, Unheard
    <3> QED BY <3>1, <3>2, <3>3
  <2>3. CASE OtherClient(c)
    BY <2>3 DEF OtherClient, Interrupt, Lose, Bounce, Over
  <2>4. CASE HearsNothing(c)
    BY <2>4 DEF HearsNothing, Unheard
  <2> QED BY <2>1, <2>2, <2>3, <2>4
<1>4. /\ asked[c] \in Nat /\ answers[c] \in Nat
      /\ asked'[c] \in 0..asked[c] /\ answers'[c] \in 0..answers[c]
      /\ asked' \in [Clients -> Nat] /\ answers' \in [Clients -> Nat]
      /\ \A d \in Clients : d # c => asked'[d] = asked[d]
                                     /\ answers'[d] = answers[d]
  <2>1. asked \in [Clients -> Nat] /\ answers \in [Clients -> Nat]
    BY <1>0 DEF Types, ClientTypeOK
  <2>2. /\ asked'[c] \in 0..asked[c] /\ asked' \in [Clients -> Nat]
        /\ \A d \in Clients : d # c => asked'[d] = asked[d]
    BY <1>2, <2>1
  <2>3. /\ answers'[c] \in 0..answers[c] /\ answers' \in [Clients -> Nat]
        /\ \A d \in Clients : d # c => answers'[d] = answers[d]
    BY <1>2, <2>1
  <2> QED BY <2>1, <2>2, <2>3
<1>5. /\ client' \in [Clients -> {"new", "waiting", "done", "gone"}]
      /\ \A d \in Clients : d # c => client'[d] = client[d]
      /\ \/ client'[c] = client[c]
         \/ client'[c] = "gone" /\ Over'
         \/ /\ client'[c] = "done" /\ client[c] = "waiting"
            /\ \/ answers'[c] = answers[c] - 1 /\ answers[c] > 0
                  /\ asked' = asked
               \/ asked'[c] = asked[c] - 1 /\ asked[c] > 0
                  /\ answers' = answers
               \/ faulty'
  <2>0. /\ client \in [Clients -> {"new", "waiting", "done", "gone"}]
        /\ asked \in [Clients -> Nat] /\ answers \in [Clients -> Nat]
    BY <1>0 DEF Types, ClientTypeOK
  <2>1. CASE client' = client BY <2>0, <2>1
  <2>2. CASE client' = [client EXCEPT ![c] = "gone"] /\ Over' BY <2>0, <2>2
  <2>3. CASE client[c] = "waiting" /\ client' = [client EXCEPT ![c] = "done"]
    <3>1. /\ client' \in [Clients -> {"new", "waiting", "done", "gone"}]
          /\ client'[c] = "done"
          /\ \A d \in Clients : d # c => client'[d] = client[d]
      BY <2>0, <2>3
    <3>2. \/ answers'[c] = answers[c] - 1 /\ answers[c] > 0 /\ asked' = asked
          \/ asked'[c] = asked[c] - 1 /\ asked[c] > 0 /\ answers' = answers
          \/ faulty'
      <4>1. client' # client BY <2>0, <2>3, <3>1
      <4>2. client' # [client EXCEPT ![c] = "gone"] BY <2>0, <3>1
      <4> QED BY <1>3, <2>0, <4>1, <4>2
    <3> QED BY <2>3, <3>1, <3>2
  <2> QED BY <1>3, <2>1, <2>2, <2>3
<1>6. Types' /\ SinkPrintsOwn' /\ (heard' = heard \/ system # "sink")
  <2>1. /\ heard' = [d \in Clients |-> heard'[d]]
        /\ \/ heard' = heard
           \/ /\ system # "sink"
              /\ client[c] = "waiting"
              /\ client' = [client EXCEPT ![c] = "done"]
    <3>1. CASE HearAnswer(c)
      <4>1. client[c] = "waiting" /\ client' = [client EXCEPT ![c] = "done"]
        BY <3>1 DEF HearAnswer, Hear
      <4>2. system # "sink" BY <1>0, <4>1 DEF OneEach
      <4>3. heard' = [d \in Clients |-> heard'[d]]
        <5>1. \E a : heard' = [heard EXCEPT ![c] = a]
          BY <3>1 DEF HearAnswer
        <5> QED BY <1>0, <5>1 DEF Types
      <4> QED BY <4>1, <4>2, <4>3
    <3>2. CASE Unreachable(c) \/ HearsNothing(c) \/ OtherClient(c)
      BY <1>0, <3>2 DEF Unreachable, HearsNothing, OtherClient, dataVars, Types
    <3> QED BY <3>1, <3>2
  <2>2. Types' BY <1>0, <1>1, <1>4, <1>5, <2>1 DEF Types, ClientTypeOK
  <2>3. SinkPrintsOwn'
    BY <1>1, <2>1 DEF IInv, SinkPrintsOwn
  <2> QED BY <2>1, <2>2, <2>3
<1>7. OneEach'
  <2> SUFFICES ASSUME NEW d \in Clients
               PROVE  /\ asked'[d] + answers'[d] <= 1
                      /\ client'[d] = "new" =>
                           /\ asked'[d] = 0 /\ answers'[d] = 0
                           /\ text[d] = <<>> /\ heard'[d] = <<>>
                      /\ client'[d] = "waiting" => system # "sink"
                      /\ client'[d] = "done" /\ system # "sink"
                         /\ asked'[d] + answers'[d] > 0 => faulty'
                      /\ client'[d] = "gone" => Over'
                      /\ system = "sink" => answers'[d] = 0
    BY <1>1 DEF OneEach
  <2>1. client'[d] = "new" => heard'[d] = heard[d] /\ client[d] = "new"
    <3>1. heard' = heard \/ (HearAnswer(c) /\ client[c] = "waiting")
      BY DEF HearAnswer, Hear, Unreachable, HearsNothing, OtherClient, dataVars
    <3>2. CASE HearAnswer(c)
      <4>1. client'[c] = "done"
        BY <1>0, <3>2 DEF HearAnswer, Hear, Types, ClientTypeOK
      <4>2. \A e \in Clients : e # c => heard'[e] = heard[e]
        <5>1. \E a : heard' = [heard EXCEPT ![c] = a]
          BY <3>2 DEF HearAnswer
        <5> QED BY <1>0, <5>1 DEF Types
      <4> QED BY <1>5, <4>1, <4>2
    <3> QED BY <1>5, <3>1, <3>2
  <2>2. CASE d = c
    <3>1. /\ asked[c] + answers[c] <= 1
          /\ client[c] = "new" => asked[c] = 0 /\ answers[c] = 0
          /\ client[c] = "waiting" => system # "sink"
          /\ client[c] = "done" /\ system # "sink" /\ asked[c] + answers[c] > 0
               => faulty
          /\ system = "sink" => answers[c] = 0
          /\ client[c] = "gone" => Over
          /\ client[c] = "new" => text[c] = <<>> /\ heard[c] = <<>>
      BY <1>0 DEF OneEach
    <3>2. /\ asked'[c] <= asked[c] /\ answers'[c] <= answers[c]
          /\ asked'[c] + answers'[c] <= asked[c] + answers[c]
          /\ asked'[c] \in Nat /\ answers'[c] \in Nat
      BY <1>4
    <3>3. CASE client'[c] = client[c]
      BY <1>1, <1>4, <2>1, <2>2, <3>1, <3>2, <3>3
    <3>4. CASE client'[c] = "gone" /\ Over'
      BY <1>4, <2>2, <3>1, <3>2, <3>4
    <3>5. CASE /\ client'[c] = "done" /\ client[c] = "waiting"
               /\ \/ answers'[c] = answers[c] - 1 /\ answers[c] > 0
                     /\ asked' = asked
                  \/ asked'[c] = asked[c] - 1 /\ asked[c] > 0
                     /\ answers' = answers
                  \/ faulty'
      <4>1. asked'[c] + answers'[c] > 0 => faulty'
        BY <1>4, <3>1, <3>2, <3>5
      <4> QED BY <1>4, <2>2, <3>1, <3>2, <3>5, <4>1
    <3> QED BY <1>5, <3>3, <3>4, <3>5
  <2>3. CASE d # c
    BY <1>0, <1>1, <1>4, <1>5, <2>1, <2>3 DEF OneEach
  <2> QED BY <2>2, <2>3
<1>8. Refusal'
  <2>1. ASSUME refused' PROVE Over'
    <3>1. CASE refused BY <1>0, <1>1, <3>1 DEF Refusal
    <3>2. CASE ~refused
      <4>1. client[c] \in {"done", "gone"} /\ answers[c] > 0
        BY <2>1, <3>2 DEF HearAnswer, Hear, Unreachable, HearsNothing,
           OtherClient, Interrupt, Lose, Bounce
      <4>2. system # "sink" BY <1>0, <1>4, <4>1 DEF OneEach
      <4>3. CASE client[c] = "gone" BY <1>0, <1>1, <4>3 DEF OneEach
      <4>4. CASE client[c] = "done"
        <5>1. asked[c] + answers[c] > 0 BY <1>4, <4>1
        <5> QED BY <1>0, <1>1, <4>2, <4>4, <5>1 DEF OneEach, Over
      <4> QED BY <4>1, <4>3, <4>4
    <3> QED BY <3>1, <3>2
  <2> QED BY <2>1 DEF Refusal
<1>9. EndsForCause' BY <1>1, CauseStays
<1> QED BY <1>6, <1>7, <1>8, <1>9 DEF IInv

\* The steps of the server that leave what it received aside.
LEMMA FailsIInv ==
  ASSUME SyncUdpAssumption, IInv, ReceiveFails \/ Crash
  PROVE  IInv'
<1>0. Types /\ OneEach /\ Refusal BY DEF IInv
<1>1. /\ server = "receiving" /\ server' \in {"receiving", "ended"}
      /\ faulty' \in BOOLEAN /\ refused' \in BOOLEAN
      /\ (faulty => faulty') /\ (refused' => refused)
      /\ UNCHANGED <<client, asked, answers, dataVars, system, buffer, overrun>>
  <2>0. server \in {"receiving", "ended"} /\ refused \in BOOLEAN
        /\ faulty \in BOOLEAN
    BY <1>0 DEF Types, ClientTypeOK
  <2>1. CASE ReceiveFails
    <3>1. \/ refused' = FALSE /\ faulty' = faulty
          \/ faulty' = TRUE /\ refused' = refused
      BY <2>1 DEF ReceiveFails
    <3>2. /\ server = "receiving" /\ server' \in {"receiving", "ended"}
          /\ UNCHANGED <<client, asked, answers, dataVars, system, buffer,
                         overrun>>
      BY <2>0, <2>1 DEF ReceiveFails, Fail
    <3>3. faulty' \in BOOLEAN /\ refused' \in BOOLEAN
      <4>1. /\ faulty' = faulty \/ faulty' = TRUE
            /\ refused' = refused \/ refused' = FALSE
        BY <3>1, Zenon
      <4>2. TRUE \in BOOLEAN /\ FALSE \in BOOLEAN OBVIOUS
      <4>3. faulty' \in BOOLEAN BY <2>0, <4>1, <4>2, Zenon
      <4>4. refused' \in BOOLEAN BY <2>0, <4>1, <4>2, Zenon
      <4> QED BY <4>3, <4>4
    <3>4. (faulty => faulty') /\ (refused' => refused)
      <4>1. CASE refused' = FALSE /\ faulty' = faulty BY <4>1
      <4>2. CASE faulty' = TRUE /\ refused' = refused BY <4>2
      <4> QED BY <3>1, <4>1, <4>2
    <3> QED BY <3>2, <3>3, <3>4
  <2>2. CASE Crash BY <2>0, <2>2 DEF Crash, clientVars
  <2> QED BY <2>1, <2>2
<1>2. Types'
  BY <1>0, <1>1 DEF Types, ClientTypeOK, dataVars
<1>3. Over => Over' BY <1>1 DEF Over
<1>4. OneEach' /\ Refusal'
  BY <1>0, <1>1, <1>3 DEF OneEach, Refusal, dataVars
<1>5. SinkPrintsOwn' BY <1>1, PrintedStays DEF dataVars
<1>6. EndsForCause'
  <2>1. CASE ReceiveFails
    <3>1. refused \/ faulty' BY <2>1 DEF ReceiveFails
    <3>2. faulty' BY <1>0, <1>1, <3>1 DEF Refusal, Over
    <3>3. server' = server \/ system # "sink" BY <2>1 DEF ReceiveFails, Fail
    <3> QED BY <1>1, <3>2, <3>3, CauseStays DEF dataVars
  <2>2. CASE Crash
    BY <1>1, <2>2, CauseStays DEF dataVars, Crash
  <2> QED BY <2>1, <2>2
<1> QED BY <1>2, <1>4, <1>5, <1>6 DEF IInv

\* A datagram is taken, and answered or not.
LEMMA TakesOne ==
  ASSUME Types, OneEach, NEW c \in Clients, asked[c] > 0,
         asked' = [asked EXCEPT ![c] = asked[c] - 1],
         \/ answers' = answers
         \/ system # "sink" /\ answers' = [answers EXCEPT ![c] = answers[c] + 1],
         UNCHANGED <<client, text, system>>, Over => Over', faulty => faulty',
         \A d \in Clients : d # c => heard'[d] = heard[d]
  PROVE  OneEach' /\ client[c] # "new"
         /\ asked' \in [Clients -> Nat] /\ answers' \in [Clients -> Nat]
<1>1. asked \in [Clients -> Nat] /\ answers \in [Clients -> Nat]
  BY DEF Types, ClientTypeOK
<1>2. /\ asked'[c] = asked[c] - 1 /\ asked'[c] \in Nat
      /\ asked' \in [Clients -> Nat]
      /\ \A d \in Clients : d # c => asked'[d] = asked[d]
  BY <1>1
<1>3. /\ answers' \in [Clients -> Nat]
      /\ \A d \in Clients : d # c => answers'[d] = answers[d]
      /\ \/ answers'[c] = answers[c]
         \/ system # "sink" /\ answers'[c] = answers[c] + 1
  BY <1>1
<1>4. client[c] # "new" BY DEF OneEach
<1>5. client[c] = "done" => system = "sink" \/ faulty
  <2>1. asked[c] + answers[c] > 0 BY <1>1
  <2> QED BY <2>1 DEF OneEach
<1>6. ASSUME NEW d \in Clients
      PROVE  /\ asked'[d] + answers'[d] <= 1
             /\ client[d] = "new" =>
                  /\ asked'[d] = 0 /\ answers'[d] = 0
                  /\ text[d] = <<>> /\ heard'[d] = <<>>
             /\ client[d] = "waiting" => system # "sink"
             /\ client[d] = "done" /\ system # "sink"
                /\ asked'[d] + answers'[d] > 0 => faulty'
             /\ client[d] = "gone" => Over'
             /\ system = "sink" => answers'[d] = 0
  <2>1. CASE d = c
    <3>1. /\ client[c] = "waiting" => system # "sink"
          /\ asked[c] + answers[c] <= 1
          /\ client[c] = "gone" => Over
          /\ system = "sink" => answers[c] = 0
      BY DEF OneEach
    <3>2. asked'[c] + answers'[c] <= 1
      BY <1>1, <1>2, <1>3, <3>1
    <3> QED BY <1>3, <1>4, <1>5, <2>1, <3>1, <3>2
  <2>2. CASE d # c BY <1>2, <1>3, <2>2 DEF OneEach
  <2> QED BY <2>1, <2>2
<1> QED BY <1>2, <1>3, <1>4, <1>6 DEF OneEach

LEMMA TooLongIInv ==
  ASSUME SyncUdpAssumption, IInv, NEW c \in Clients, TooLong(c)
  PROVE  IInv'
<1>0. Types /\ OneEach /\ Refusal BY DEF IInv
<1>1. /\ server = "receiving" /\ server' \in {"receiving", "ended"}
      /\ asked[c] > 0 /\ Len(text[c]) > Buffer
      /\ asked' = [asked EXCEPT ![c] = asked[c] - 1]
      /\ UNCHANGED <<client, answers, refused, faulty, text, answer, heard,
                     system, buffer, overrun>>
      /\ server' = server \/ system # "sink"
  BY DEF TooLong, Fail, dataVars
<1>2. Over => Over' BY <1>1 DEF Over
<1>3. OneEach' /\ client[c] # "new"
      /\ asked' \in [Clients -> Nat] /\ answers' \in [Clients -> Nat]
  BY <1>0, <1>1, <1>2, TakesOne
<1>4. Types' BY <1>0, <1>1, <1>3 DEF Types, ClientTypeOK
<1>5. Refusal' BY <1>0, <1>1, <1>2 DEF Refusal
<1>6. EndsForCause' BY <1>1, <1>3, CauseStays
<1>7. SinkPrintsOwn' BY <1>1, PrintedStays
<1> QED BY <1>3, <1>4, <1>5, <1>6, <1>7 DEF IInv

\* The buffer after a datagram was received into it.
LEMMA Filled ==
  ASSUME SyncUdpAssumption, Types, NEW c \in Clients, Len(text[c]) <= Buffer,
         Fill(c)
  PROVE  /\ buffer' \in Seq(Nat) /\ Len(buffer') = Buffer
         /\ system = "reverse" => CString(buffer') = CString(text[c])
         /\ overrun' \in BOOLEAN /\ (overrun => overrun')
<1>1. text[c] \in Seq(Nat) BY Text
<1>2. buffer \in Seq(Nat) /\ Len(buffer) = Buffer BY DEF Types
<1>3. overrun' \in BOOLEAN /\ (overrun => overrun') BY DEF Fill, Types
<1>4. CASE system = "reverse"
  <2>1. buffer' = Terminated(buffer, text[c]) BY <1>4 DEF Fill
  <2> QED BY <1>1, <1>2, <1>3, <2>1, MarksEnd
<1>5. CASE system # "reverse"
  <2>1. buffer' = Overlay(buffer, text[c]) BY <1>5 DEF Fill
  <2> QED BY <1>1, <1>2, <1>3, <1>5, <2>1, Overlaid
<1> QED BY <1>4, <1>5

LEMMA ServeIInv ==
  ASSUME SyncUdpAssumption, IInv, NEW c \in Clients, Serve(c) \/ ServeUnsent(c)
  PROVE  IInv'
<1>0. Types /\ OneEach /\ Refusal BY DEF IInv
<1>1. /\ server = "receiving" /\ server' \in {"receiving", "ended"}
      /\ asked[c] > 0 /\ Len(text[c]) <= Buffer /\ Fill(c) /\ system # "sink"
      /\ asked' = [asked EXCEPT ![c] = asked[c] - 1]
      /\ (faulty => faulty') /\ faulty' \in BOOLEAN
      /\ answers' = answers \/ answers' = [answers EXCEPT ![c] = answers[c] + 1]
      /\ UNCHANGED <<client, refused, text, heard, system>>
      /\ server' = server \/ system = "size" \/ faulty'
  BY <1>0 DEF Serve, ServeUnsent, Receive, dataVars, Types, ClientTypeOK
<1>2. answer' = [d \in Clients |-> answer'[d]]
  <2>1. answer' = answer \/ \E r : answer' = [answer EXCEPT ![c] = r]
    BY DEF Serve, ServeUnsent, dataVars
  <2> QED BY <1>0, <2>1 DEF Types
<1>3. Over => Over' BY <1>1 DEF Over
<1>4. OneEach' /\ client[c] # "new"
      /\ asked' \in [Clients -> Nat] /\ answers' \in [Clients -> Nat]
  <2>1. /\ \A d \in Clients : d # c => heard'[d] = heard[d]
        /\ \/ answers' = answers
           \/ system # "sink"
              /\ answers' = [answers EXCEPT ![c] = answers[c] + 1]
    BY <1>1
  <2> QED BY <1>0, <1>1, <1>3, <2>1, TakesOne
<1>5. Types' BY <1>0, <1>1, <1>2, <1>4, Filled DEF Types, ClientTypeOK
<1>6. Refusal' BY <1>0, <1>1, <1>3 DEF Refusal
<1>7. EndsForCause' BY <1>0, <1>1, Filled, CauseStays
<1>8. SinkPrintsOwn' BY <1>1, PrintedStays
<1> QED BY <1>4, <1>5, <1>6, <1>7, <1>8 DEF IInv

LEMMA SwallowIInv ==
  ASSUME SyncUdpAssumption, IInv, NEW c \in Clients, Swallow(c)
  PROVE  IInv'
<1>0. Types /\ OneEach /\ Refusal BY DEF IInv
<1>1. /\ asked[c] > 0 /\ Len(text[c]) <= Buffer /\ system = "sink"
      /\ asked' = [asked EXCEPT ![c] = asked[c] - 1]
      /\ buffer' = Swallowed(text[c])
      /\ overrun' \in BOOLEAN /\ (overrun => overrun')
      /\ UNCHANGED <<client, answers, refused, faulty, text, answer, system,
                     server>>
  BY <1>0 DEF Swallow, Receive, Swallowed, Types
<1>2. PICK s \in AsPrinted(buffer') : heard' = [heard EXCEPT ![c] = s]
  BY DEF Swallow
<1>3. /\ heard' = [d \in Clients |-> heard'[d]] /\ heard'[c] = s
      /\ \A d \in Clients : d # c => heard'[d] = heard[d]
  BY <1>0, <1>2 DEF Types
<1>4. /\ buffer' \in Seq(Nat) /\ Len(buffer') = Buffer
      /\ Len(CString(text[c])) < Buffer =>
           AsPrinted(buffer') = {CString(text[c])}
  BY <1>0, <1>1, Text, SinkReads
<1>5. Over => Over' BY <1>1 DEF Over
<1>6. OneEach' /\ asked' \in [Clients -> Nat]
  BY <1>0, <1>1, <1>3, <1>5, TakesOne
<1>7. Types' BY <1>0, <1>1, <1>3, <1>4, <1>6 DEF Types, ClientTypeOK
<1>8. Refusal' BY <1>0, <1>1, <1>5 DEF Refusal
<1>9. EndsForCause' BY <1>1, CauseStays
<1>10. SinkPrintsOwn'
  <2> SUFFICES ASSUME NEW d \in Clients, heard'[d] # <<>>,
                      Len(CString(text[d])) < Buffer
               PROVE  heard'[d] = CString(text[d])
    BY <1>1 DEF SinkPrintsOwn
  <2>1. CASE d = c BY <1>2, <1>3, <1>4, <2>1
  <2>2. CASE d # c BY <1>1, <1>3, <2>2 DEF IInv, SinkPrintsOwn
  <2> QED BY <2>1, <2>2
<1> QED BY <1>6, <1>7, <1>8, <1>9, <1>10 DEF IInv

LEMMA NextIInv ==
  ASSUME SyncUdpAssumption, IInv, [Next]_vars
  PROVE  IInv'
<1>1. CASE Server
  BY <1>1, FailsIInv, ServeIInv, SwallowIInv, TooLongIInv DEF Server
<1>2. ASSUME NEW c \in Clients,
             \/ Send(c) \/ SendAway(c) \/ HearAnswer(c)
             \/ Unreachable(c) \/ HearsNothing(c) \/ OtherClient(c)
      PROVE  IInv'
  BY <1>2, SendIInv, SendAwayIInv, ClientIInv
<1>3. CASE UNCHANGED vars
  BY <1>3 DEF vars, clientVars, dataVars, IInv, Types, ClientTypeOK, OneEach,
     Refusal, EndsForCause, SinkPrintsOwn, Over
<1> QED BY <1>1, <1>2, <1>3 DEF Next

-----------------------------------------------------------------------------
(* What clients are answered.                                              *)

\* Another than c was answered.
OtherAnswered(c) == \E d \in Clients \ {c} : answer[d] # <<>>

\* What c should print.
RightHeard(c, h) ==
  CASE system = "hello" -> h = Hello
    [] system = "phones" -> \E l \in PhoneLists : IsPrefix(l, h)
    [] system = "reverse" -> h = Reverse(CString(text[c]))
    [] system = "size" -> IF h = <<>> THEN faulty \/ OtherAnswered(c)
                                      ELSE Told(text[c], h)
    [] OTHER -> TRUE

\* In the size system: as long as nothing has failed, who has not sent or still
\* asks was not answered, and the server ends with an answer to someone.
Unserved ==
  system = "size" =>
    /\ ~overrun
    /\ \A c \in Clients :
         /\ Len(text[c]) <= Buffer
         /\ client[c] = "waiting" => heard[c] = <<>>
         /\ ~faulty /\ (client[c] = "new" \/ asked[c] > 0) => answer[c] = <<>>
    /\ ~faulty /\ server = "ended" => \E d \in Clients : answer[d] # <<>>

\* A number is written with at least one digit, and an answer says something.
LEMMA DigitsSome ==
  ASSUME NEW n \in Nat
  PROVE  Digits[n] \in Seq(Nat) /\ Digits[n] # <<>>
<1> DEFINE No == {m \in Nat : ~(Digits[m] \in Seq(Nat) /\ Digits[m] # <<>>)}
<1>1. No = {}
  <2> SUFFICES ASSUME No # {} PROVE FALSE OBVIOUS
  <2>0. No \subseteq Nat OBVIOUS
  <2> HIDE DEF No
  <2>1. PICK m \in No : \A j \in No : m <= j BY <2>0, HasLeast
  <2>2. m \in Nat BY <2>0, <2>1
  <2> DEFINE k == m \div 10
             r == m % 10
  <2>3. m >= 10 => k \in Nat /\ k < m BY <2>2
  <2>4. r \in Nat BY <2>2
  <2>5. Digits[m] = IF m < 10 THEN <<m>> ELSE Append(Digits[k], r)
    BY <2>2, DigitsWrite
  <2> HIDE DEF k, r
  <2>6. m >= 10 => Digits[k] \in Seq(Nat)
    <3>1. m >= 10 => ~(m <= k) BY <2>2, <2>3
    <3>2. m >= 10 => k \notin No BY <2>1, <3>1
    <3> QED BY <2>3, <3>2 DEF No
  <2>7. CASE m < 10
    <3>1. Digits[m] = <<m>> BY <2>5, <2>7
    <3>2. <<m>> \in Seq(Nat) /\ <<m>> # <<>> BY <2>2
    <3> QED BY <2>1, <3>1, <3>2 DEF No
  <2>8. CASE m >= 10
    <3>1. Digits[m] = Append(Digits[k], r) BY <2>2, <2>5, <2>8
    <3>2. /\ Append(Digits[k], r) \in Seq(Nat)
          /\ Append(Digits[k], r) # <<>>
      BY <2>4, <2>6, <2>8
    <3> QED BY <2>1, <3>1, <3>2 DEF No
  <2> QED BY <2>2, <2>7, <2>8
<1> QED BY <1>1

LEMMA ToldSome ==
  ASSUME SyncUdpAssumption, NEW s, NEW a, Told(s, a)
  PROVE  a # <<>>
<1>1. CASE s \notin DOMAIN Size BY <1>1 DEF Told
<1>2. CASE s \in DOMAIN Size
  <2>1. PICK n \in Ints : a = Decimal(n) BY <1>2 DEF Told
  <2>2. n \in Int BY DEF Ints, SyncUdpAssumption, FileSizesAssumption
  <2>3. CASE n < 0
    <3>1. -n \in Nat BY <2>2, <2>3
    <3> DEFINE g == Digits[-n]
    <3>2. g \in Seq(Nat) BY <3>1, DigitsSome
    <3>3. a = <<Minus>> \o g BY <2>1, <2>3 DEF Decimal
    <3> HIDE DEF g
    <3>4. <<Minus>> \o g # <<>> BY <3>2 DEF Minus
    <3> QED BY <3>3, <3>4
  <2>4. CASE ~(n < 0)
    <3>1. n \in Nat BY <2>2, <2>4
    <3> QED BY <2>1, <2>4, <3>1, DigitsSome DEF Decimal
  <2> QED BY <2>3, <2>4
<1> QED BY <1>1, <1>2

LEMMA Remainder ==
  ASSUME NEW R \in Nat, R >= 2, NEW m \in Int
  PROVE  m \div R \in Int /\ m % R \in 0..(R - 1) /\ m = R * (m \div R) + (m % R)
BY SMTT(30)

\* A multiple leaves no remainder.
LEMMA NoRemainder ==
  ASSUME NEW R \in Nat, R >= 2, NEW q \in Int
  PROVE  (R * q) % R = 0
<1> DEFINE a == R * q
           d == a \div R
           r == a % R
           x == q - d
<1>1. a \in Int OBVIOUS
<1>2. d \in Int /\ r \in 0..(R - 1) /\ a = R * d + r
  BY <1>1, Remainder
<1>3. x \in Int BY <1>2
<1>4. R * x = r
  <2>1. R * x = R * q - R * d
    <3> HIDE DEF d
    <3> QED BY <1>2, SMTT(30)
  <2> DEFINE b == R * d
  <2>2. b \in Int BY <1>2
  <2> HIDE DEF a, d, r, x, b
  <2>3. R * x = a - b BY <2>1 DEF a, b
  <2>4. a = b + r BY <1>2 DEF b
  <2> QED BY <1>1, <1>2, <2>2, <2>3, <2>4
<1> HIDE DEF a, d, r, x
<1>5. x >= 1 => R * x >= R BY <1>3, SMTT(30)
<1>6. x <= -1 => R * x <= 0 - R BY <1>3, SMTT(30)
<1>7. x = 0 => R * x = 0 BY <1>3, SMTT(30)
<1>8. r = 0
  <2>1. CASE x >= 1 BY <1>2, <1>4, <1>5, <2>1
  <2>2. CASE x <= -1 BY <1>2, <1>4, <1>6, <2>2
  <2>3. CASE x = 0 BY <1>4, <1>7, <2>3
  <2> QED BY <1>3, <2>1, <2>2, <2>3
<1> QED BY <1>8 DEF r, a

\* The size that is sent is the size of the file, as far as an int holds it.
LEMMA TellsSize ==
  ASSUME SyncUdpAssumption, NEW s
  PROVE  Told(s, Decimal(FileSize(s)))
<1> DEFINE half == IntRange \div 2
<1>0. /\ IntRange \in Nat /\ IntRange >= 2
      /\ \A name \in DOMAIN Size : Size[name] \in Nat
  BY DEF SyncUdpAssumption, FileSizesAssumption
<1>1. half \in Nat /\ half >= 1 /\ half + half <= IntRange BY <1>0
<1>2. CASE s \notin DOMAIN Size
  <2>1. FileSize(s) = -1
    <3>1. half - 1 \in 0..(IntRange - 1) BY <1>0, <1>1
    <3>2. (half - 1) % IntRange = half - 1
      <4> DEFINE m == half - 1
      <4>1. m \in 0..(IntRange - 1) BY <3>1
      <4> HIDE DEF m
      <4>2. m % IntRange = m BY <1>0, <4>1
      <4> QED BY <4>2 DEF m
    <3>3. AsInt(-1) = ((-1 + half) % IntRange) - half BY DEF AsInt
    <3> HIDE DEF half
    <3>4. -1 + half = half - 1 /\ (half - 1) - half = -1 BY <1>1
    <3>5. AsInt(-1) = -1 BY <3>2, <3>3, <3>4
    <3> QED BY <1>2, <3>5 DEF FileSize
  <2>2. Decimal(-1) = <<Minus>> \o <<1>>
    <3>1. \A k \in Int : -k = 0 - k OBVIOUS
    <3>2. -1 \in Int /\ -1 < 0 OBVIOUS
    <3>3. 0 - (-1) = 1 OBVIOUS
    <3>4. -(-1) = 1 BY <3>1, <3>2, <3>3
    <3> QED BY <3>2, <3>4, DigitOfOne DEF Decimal
  <2>3. Decimal(FileSize(s)) = <<Minus, 1>>
    BY <2>1, <2>2
  <2> QED BY <1>2, <2>3 DEF Told
<1>3. CASE s \in DOMAIN Size
  <2>1. PICK S \in Nat : S = Size[s] BY <1>0, <1>3
  <2> DEFINE q == (S + half) \div IntRange
             r == (S + half) % IntRange
             n == r - half
  <2>2. q \in Int /\ r \in 0..(IntRange - 1) /\ S + half = IntRange * q + r
    <3>1. S + half \in Nat BY <1>1
    <3> QED BY <1>0, <3>1, Remainder
  <2>3. FileSize(s) = n BY <1>3, <2>1 DEF FileSize, AsInt
  <2> HIDE DEF q, r, half
  <2>4. n \in Ints
    <3>1. Ints = -half .. (IntRange - half - 1) BY DEF Ints, half
    <3>2. \A k \in Int : -k = 0 - k OBVIOUS
    <3> QED BY <1>0, <1>1, <2>2, <3>1, <3>2
  <2>5. (S - n) % IntRange = 0
    <3> DEFINE p == IntRange * q
    <3>1. p \in Int BY <1>0, <2>2
    <3>2. S + half = p + r BY <2>2
    <3>3. p % IntRange = 0 BY <1>0, <2>2, NoRemainder
    <3> HIDE DEF p
    <3>4. S - n = p BY <1>0, <1>1, <2>2, <3>1, <3>2
    <3> QED BY <3>3, <3>4
  <2> HIDE DEF n
  <2>6. Told(s, Decimal(n)) BY <1>3, <2>1, <2>4, <2>5 DEF Told
  <2> QED BY <2>3, <2>6
<1> QED BY <1>2, <1>3

\* What the server answers is right, given what it has in its buffer.
LEMMA RepliesRight ==
  ASSUME SyncUdpAssumption, Types, NEW c \in Clients,
         system # "sink", NEW buf,
         system = "reverse" => CString(buf) = CString(text[c]),
         NEW r \in Reply(text[c], buf)
  PROVE  Right(c, r)
<1>1. CASE system = "hello" BY <1>1 DEF Reply, Right
<1>2. CASE system = "phones" BY <1>2 DEF Reply, Right
<1>3. CASE system = "reverse" BY <1>3 DEF Reply, Right
<1>4. CASE system = "size"
  <2>1. r = Decimal(FileSize(text[c])) BY <1>4 DEF Reply
  <2>2. Told(text[c], r) BY <2>1, TellsSize
  <2> QED BY <1>4, <2>2 DEF Right
<1> QED BY <1>1, <1>2, <1>3, <1>4 DEF Types, Systems

\* What the client of the phones server reads begins with the phones that were
\* sent, whatever its buffer had in it.
LEMMA PhonesReadable ==
  ASSUME SyncUdpAssumption, NEW l \in PhoneLists, NEW h \in ReadPhones[l]
  PROVE  IsPrefix(l, h)
<1>1. PICK junk \in Junk : h = Parse(Overlay(junk, Serialize(l))).list
  BY DEF ReadPhones
<1>2. l \in Seq(Phones) /\ junk \in Seq(Nat) BY DEF SyncUdpAssumption
<1>3. Len(Serialize(l)) <= Len(junk) BY <1>1 DEF SyncUdpAssumption
<1>4. PICK s \in Seq(Nat) : s = Serialize(l) BY <1>2, SerializeType
<1>5. PICK r \in Seq(Nat) : r = SubSeq(junk, Len(s) + 1, Len(junk))
  <2>1. SubSeq(junk, Len(s) + 1, Len(junk)) \in Seq(Nat)
    BY ONLY <1>2, <1>4, SubSeqProperties
  <2> QED BY <2>1
<1>6. Overlay(junk, Serialize(l)) = s \o r BY <1>4, <1>5 DEF Overlay
<1>7. s \o r \in Seq(Nat) /\ Has(s \o r, 1, s) BY Joined, HasFirst
<1>8. IsPrefix(l, Parse(s \o r).list)
  BY ONLY <1>2, <1>4, <1>7, ReadFirst
<1> QED BY <1>1, <1>6, <1>8

\* A client that is answered right prints what is right.
LEMMA HearsRight ==
  ASSUME SyncUdpAssumption, Types,
         NEW c \in Clients, NEW a, Right(c, a), NEW h,
         IF system = "phones" THEN h \in ReadPhones[a] ELSE h = a
  PROVE  RightHeard(c, h)
<1>1. CASE system = "phones"
  <2>1. a \in PhoneLists BY <1>1 DEF Right
  <2>2. IsPrefix(a, h) BY <1>1, <2>1, PhonesReadable
  <2> QED BY <1>1, <2>1, <2>2 DEF RightHeard
<1>2. CASE system = "size"
  <2>1. Told(text[c], a) /\ h = a BY <1>2 DEF Right
  <2>2. h # <<>> BY <2>1, ToldSome
  <2> QED BY <1>2, <2>1, <2>2 DEF RightHeard
<1>3. CASE system \notin {"phones", "size"}
  BY <1>3 DEF Right, RightHeard, Types, Systems
<1> QED BY <1>1, <1>2, <1>3

\* RightAnswer in the words of the proofs.
LEMMA RightIs == RightAnswer <=> \A c \in Clients :
                                   client[c] = "done" => RightHeard(c, heard[c])
BY Zenon DEF RightAnswer, RightHeard, OtherAnswered

\* A step that sends and prints nothing but what is right.
LEMMA StaysRight ==
  ASSUME IInv, Answers, RightAnswer, UNCHANGED system, faulty => faulty',
         system = "size" =>
           \A c \in Clients : answer[c] # <<>> => answer'[c] # <<>>,
         \A c \in Clients : client[c] # "new" => text'[c] = text[c],
         \A c \in Clients : answers'[c] > 0 =>
           \/ Right(c, answer[c])'
           \/ answers[c] > 0 /\ answer'[c] = answer[c],
         \A c \in Clients : client'[c] = "done" =>
           \/ RightHeard(c, heard[c])'
           \/ client[c] = "done" /\ heard'[c] = heard[c]
  PROVE  Answers' /\ RightAnswer'
<1>0. Types /\ OneEach BY DEF IInv
<1>1. ASSUME NEW c \in Clients, answers'[c] > 0 PROVE Right(c, answer[c])'
  <2>1. CASE Right(c, answer[c])' BY <2>1
  <2>2. CASE answers[c] > 0 /\ answer'[c] = answer[c]
    <3>1. client[c] # "new" BY <1>0, <2>2 DEF OneEach
    <3>2. Right(c, answer[c]) BY <2>2 DEF Answers
    <3>3. text'[c] = text[c] BY <3>1
    <3> QED BY <2>2, <3>2, <3>3 DEF Right
  <2> QED BY <1>1, <2>1, <2>2
<1>2. ASSUME NEW c \in Clients, client'[c] = "done"
      PROVE  RightHeard(c, heard[c])'
  <2>1. CASE RightHeard(c, heard[c])' BY <2>1
  <2>2. CASE client[c] = "done" /\ heard'[c] = heard[c]
    <3>1. RightHeard(c, heard[c]) BY <2>2, RightIs
    <3>2. text'[c] = text[c] BY <2>2
    <3>3. system = "size" /\ OtherAnswered(c) => OtherAnswered(c)'
      BY DEF OtherAnswered
    <3> QED BY <2>2, <3>1, <3>2, <3>3 DEF RightHeard
  <2> QED BY <1>2, <2>1, <2>2
<1>3. Answers' BY <1>1 DEF Answers
<1>4. RightAnswer'
  <2>1. RightAnswer' <=> \A c \in Clients :
                           client'[c] = "done" => RightHeard(c, heard[c])'
    BY Zenon DEF RightAnswer, RightHeard, OtherAnswered
  <2> QED BY <1>2, <2>1
<1> QED BY <1>3, <1>4

LEMMA NextRight ==
  ASSUME SyncUdpAssumption, IInv, Answers, Unserved, RightAnswer, [Next]_vars
  PROVE  Answers' /\ RightAnswer'
<1>0. Types /\ OneEach BY DEF IInv
<1>1. ASSUME NEW c \in Clients, Send(c) \/ SendAway(c)
      PROVE  Answers' /\ RightAnswer'
  <2>1. /\ client[c] = "new" /\ answers' = answers /\ answer' = answer
        /\ UNCHANGED <<heard, system>> /\ (faulty => faulty')
        /\ \E t : text' = [text EXCEPT ![c] = t]
        /\ \E s : client' = [client EXCEPT ![c] = s]
                  /\ (s = "done" => system = "sink")
    BY <1>1 DEF Send, SendAway, Ask, AskUnchecked
  <2>2. \A d \in Clients : d # c => text'[d] = text[d]
                                    /\ client'[d] = client[d]
    BY <1>0, <2>1 DEF Types, ClientTypeOK
  <2>3. client'[c] = "done" => system = "sink"
    BY <1>0, <2>1 DEF Types, ClientTypeOK
  <2>4. system = "sink" => RightHeard(c, heard[c])'
    BY <2>1 DEF RightHeard
  <2>5. \A d \in Clients : client'[d] = "done" =>
          \/ RightHeard(d, heard[d])'
          \/ client[d] = "done" /\ heard'[d] = heard[d]
    BY <2>1, <2>2, <2>3, <2>4
  <2>6. \A d \in Clients : client[d] # "new" => text'[d] = text[d]
    BY <2>1, <2>2
  <2> QED BY <2>1, <2>5, <2>6, StaysRight
<1>2. ASSUME NEW c \in Clients, HearAnswer(c) PROVE Answers' /\ RightAnswer'
  <2>1. /\ client[c] = "waiting" /\ answers[c] > 0
        /\ answers' = [answers EXCEPT ![c] = answers[c] - 1]
        /\ client' = [client EXCEPT ![c] = "done"]
        /\ UNCHANGED <<text, answer, system, faulty>>
    BY <1>2 DEF HearAnswer, Hear
  <2>2. PICK h : /\ heard' = [heard EXCEPT ![c] = h]
                 /\ IF system = "phones" THEN h \in ReadPhones[answer[c]]
                                         ELSE h = answer[c]
    BY <1>2 DEF HearAnswer
  <2>3. RightHeard(c, h)
    <3>1. Right(c, answer[c]) BY <2>1 DEF Answers
    <3> DEFINE a == answer[c]
    <3>2. IF system = "phones" THEN h \in ReadPhones[a] ELSE h = a BY <2>2
    <3> HIDE DEF a
    <3> QED BY <1>0, <3>1, <3>2, HearsRight DEF a
  <2>4. heard'[c] = h /\ \A d \in Clients : d # c => heard'[d] = heard[d]
    BY <1>0, <2>2 DEF Types
  <2>5. RightHeard(c, heard[c])'
    <3>1. heard'[c] = h /\ text'[c] = text[c] BY <2>1, <2>4
    <3>2. OtherAnswered(c) => OtherAnswered(c)' BY <2>1 DEF OtherAnswered
    <3> QED BY <2>1, <2>3, <3>1, <3>2 DEF RightHeard
  <2>6. \A d \in Clients : answers'[d] > 0 => answers[d] > 0
    BY <1>0, <2>1 DEF Types, ClientTypeOK
  <2>7. \A d \in Clients : d # c => client'[d] = client[d]
    BY <1>0, <2>1 DEF Types, ClientTypeOK
  <2>8. \A d \in Clients : client'[d] = "done" =>
          \/ RightHeard(d, heard[d])'
          \/ client[d] = "done" /\ heard'[d] = heard[d]
    BY <2>4, <2>5, <2>7
  <2> QED BY <2>1, <2>6, <2>8, StaysRight
<1>3. ASSUME NEW c \in Clients,
             Unreachable(c) \/ HearsNothing(c) \/ OtherClient(c)
      PROVE  Answers' /\ RightAnswer'
  <2>1. /\ UNCHANGED <<text, answer, heard, system>> /\ (faulty => faulty')
        /\ answers' = answers \/ answers' = [answers EXCEPT ![c] = answers[c] - 1]
    BY <1>3 DEF Unreachable, HearsNothing, OtherClient, Interrupt, Lose, Bounce,
       dataVars
  <2>2. \A d \in Clients : answers'[d] > 0 => answers[d] > 0
    <3>1. answers \in [Clients -> Nat] BY <1>0 DEF Types, ClientTypeOK
    <3>2. CASE answers' = answers BY <3>2
    <3>3. CASE answers' = [answers EXCEPT ![c] = answers[c] - 1]
      BY <3>1, <3>3
    <3> QED BY <2>1, <3>2, <3>3
  <2>3. \/ client' \in {client, [client EXCEPT ![c] = "gone"]}
        \/ /\ client' = [client EXCEPT ![c] = "done"]
           /\ system = "size" /\ client[c] = "waiting"
           /\ faulty' \/ (server = "ended" /\ asked[c] > 0)
    BY <1>3 DEF Unreachable, HearsNothing, Unheard, OtherClient, Interrupt,
       Lose, Bounce
  <2>4. ASSUME client' = [client EXCEPT ![c] = "done"],
               system = "size", client[c] = "waiting",
               faulty' \/ (server = "ended" /\ asked[c] > 0)
        PROVE  RightHeard(c, heard[c])'
    <3>1. heard'[c] = <<>> BY <2>1, <2>4 DEF Unserved
    <3>2. faulty' \/ OtherAnswered(c)
      <4>1. CASE faulty \/ faulty' BY <2>1, <4>1
      <4>2. CASE ~faulty /\ server = "ended" /\ asked[c] > 0
        <5>1. answer[c] = <<>> BY <2>4, <4>2 DEF Unserved
        <5>2. PICK d \in Clients : answer[d] # <<>>
          BY <2>4, <4>2 DEF Unserved
        <5> QED BY <5>1, <5>2 DEF OtherAnswered
      <4> QED BY <2>4, <4>1, <4>2
    <3>3. OtherAnswered(c) => OtherAnswered(c)' BY <2>1 DEF OtherAnswered
    <3> QED BY <2>1, <2>4, <3>1, <3>2, <3>3 DEF RightHeard
  <2>5. \A d \in Clients : client'[d] = "done" =>
          \/ RightHeard(d, heard[d])'
          \/ client[d] = "done" /\ heard'[d] = heard[d]
    <3>1. \A d \in Clients : d # c => client'[d] = client[d]
      BY <1>0, <2>3 DEF Types, ClientTypeOK
    <3>2. client'[c] = "done" => client[c] = "done" \/ RightHeard(c, heard[c])'
      BY <1>0, <2>3, <2>4 DEF Types, ClientTypeOK
    <3> QED BY <2>1, <3>1, <3>2
  <2> QED BY <2>1, <2>2, <2>5, StaysRight
<1>4. ASSUME \/ ReceiveFails \/ Crash \/ UNCHANGED vars
             \/ \E c \in Clients : ServeUnsent(c) \/ TooLong(c)
      PROVE  Answers' /\ RightAnswer'
  <2>1. UNCHANGED <<client, answers, dataVars, system>> /\ (faulty => faulty')
    BY <1>4 DEF ReceiveFails, Crash, vars, ServeUnsent, TooLong, clientVars
  <2> QED BY <2>1, StaysRight DEF dataVars
<1>5. ASSUME NEW c \in Clients, Swallow(c) PROVE Answers' /\ RightAnswer'
  <2>1. UNCHANGED <<client, answers, text, answer, system, faulty>>
        /\ system = "sink"
    BY <1>5 DEF Swallow
  <2>2. \A d \in Clients : RightHeard(d, heard[d])' BY <2>1 DEF RightHeard
  <2> QED BY <2>1, <2>2, StaysRight
<1>6. ASSUME NEW c \in Clients, Serve(c) PROVE Answers' /\ RightAnswer'
  <2>1. /\ UNCHANGED <<client, text, heard, system, faulty>> /\ system # "sink"
        /\ Len(text[c]) <= Buffer /\ Fill(c)
        /\ answers' = [answers EXCEPT ![c] = answers[c] + 1]
    BY <1>6 DEF Serve, Receive
  <2>2. PICK r \in Reply(text[c], buffer') : answer' = [answer EXCEPT ![c] = r]
    BY <1>6 DEF Serve
  <2>3. Right(c, r) BY <1>0, <2>1, <2>2, Filled, RepliesRight
  <2>4. answer'[c] = r /\ \A d \in Clients : d # c => answer'[d] = answer[d]
    BY <1>0, <2>2 DEF Types
  <2>5. Right(c, answer[c])' BY <2>1, <2>3, <2>4 DEF Right
  <2>6. \A d \in Clients : d # c => answers'[d] = answers[d]
    BY <1>0, <2>1 DEF Types, ClientTypeOK
  <2>7. \A d \in Clients : answers'[d] > 0 =>
          \/ Right(d, answer[d])'
          \/ answers[d] > 0 /\ answer'[d] = answer[d]
    BY <2>4, <2>5, <2>6
  <2>8. system = "size" =>
          \A d \in Clients : answer[d] # <<>> => answer'[d] # <<>>
    <3>1. system = "size" => Told(text[c], r) BY <2>3 DEF Right
    <3>2. system = "size" => r # <<>> BY <3>1, ToldSome
    <3> QED BY <2>4, <3>2
  <2> QED BY <2>1, <2>7, <2>8, StaysRight
<1> QED BY <1>1, <1>2, <1>3, <1>4, <1>5, <1>6 DEF Next, Server

\* A step that answers nobody, and lets nobody ask who has been answered.
LEMMA StaysUnserved ==
  ASSUME Unserved, UNCHANGED <<system, answer>>, system = "size" => ~overrun',
         faulty => faulty',
         ~faulty' => (server' = "ended" => server = "ended"),
         system = "size" =>
           \A c \in Clients :
             /\ Len(text'[c]) <= Buffer
             /\ client'[c] = "waiting" =>
                  heard'[c] = heard[c]
                  /\ (client[c] = "waiting" \/ heard[c] = <<>>)
             /\ client'[c] = "new" \/ asked'[c] > 0 =>
                  client[c] = "new" \/ asked[c] > 0
  PROVE  Unserved'
<1> SUFFICES ASSUME system = "size" PROVE Unserved' BY DEF Unserved
<1>1. ASSUME NEW c \in Clients
      PROVE  /\ Len(text'[c]) <= Buffer
             /\ client'[c] = "waiting" => heard'[c] = <<>>
             /\ ~faulty' /\ (client'[c] = "new" \/ asked'[c] > 0) =>
                  answer'[c] = <<>>
  BY DEF Unserved
<1>2. ~faulty' /\ server' = "ended" => \E d \in Clients : answer'[d] # <<>>
  BY DEF Unserved
<1> QED BY <1>1, <1>2 DEF Unserved

\* Only the reverse server writes past its buffer when it is filled.
LEMMA FillsWithin ==
  ASSUME NEW c \in Clients, system = "size", ~overrun, Fill(c)
  PROVE  ~overrun'
<1>1. system # "reverse" BY SMT
<1>2. overrun' = (overrun \/ (system = "reverse" /\ Len(text[c]) = Buffer))
  BY DEF Fill
<1> QED BY <1>1, <1>2, Zenon

LEMMA NextUnserved ==
  ASSUME SyncUdpAssumption, IInv, Unserved, [Next]_vars
  PROVE  Unserved'
<1>0. /\ Types /\ OneEach /\ Refusal
      /\ client \in [Clients -> {"new", "waiting", "done", "gone"}]
      /\ asked \in [Clients -> Nat]
  BY DEF IInv, Types, ClientTypeOK
<1>1. ASSUME NEW c \in Clients, Send(c) PROVE Unserved'
  <2>1. /\ client[c] = "new"
        /\ UNCHANGED <<answer, heard, system, server, overrun>>
        /\ (faulty => faulty')
        /\ \E s : client' = [client EXCEPT ![c] = s] /\ s # "new"
        /\ asked' = asked \/ asked' = [asked EXCEPT ![c] = asked[c] + 1]
    BY <1>1 DEF Send, Ask, AskUnchecked
  <2>2. PICK t \in MaySend : text' = [text EXCEPT ![c] = t] BY <1>1 DEF Send
  <2>3. heard[c] = <<>> BY <1>0, <2>1 DEF OneEach
  <2>4. ASSUME system = "size", NEW d \in Clients
        PROVE  /\ Len(text'[d]) <= Buffer
               /\ client'[d] = "waiting" =>
                    heard'[d] = heard[d]
                    /\ (client[d] = "waiting" \/ heard[d] = <<>>)
               /\ client'[d] = "new" \/ asked'[d] > 0 =>
                    client[d] = "new" \/ asked[d] > 0
    <3>1. CASE d = c
      <4>1. text'[c] = t BY <1>0, <2>2 DEF Types
      <4>2. t \in Seq(Nat) /\ Len(t) < Buffer
        BY <2>2, <2>4 DEF MaySend, SyncUdpAssumption
      <4>3. Len(t) <= Buffer BY <4>2 DEF SyncUdpAssumption
      <4> QED BY <2>1, <2>3, <3>1, <4>1, <4>3
    <3>2. CASE d # c
      <4>1. text'[d] = text[d] BY <1>0, <2>2, <3>2 DEF Types
      <4>2. client'[d] = client[d] /\ asked'[d] = asked[d]
        BY <1>0, <2>1, <3>2
      <4>3. Len(text[d]) <= Buffer BY <2>4 DEF Unserved
      <4> QED BY <2>1, <4>1, <4>2, <4>3
    <3> QED BY <3>1, <3>2
  <2>5. system = "size" => ~overrun' BY <2>1 DEF Unserved
  <2> QED BY <2>1, <2>4, <2>5, StaysUnserved
<1>2. ASSUME NEW c \in Clients,
             \/ HearAnswer(c) \/ Unreachable(c) \/ HearsNothing(c)
             \/ OtherClient(c)
      PROVE  Unserved'
  <2>1. /\ UNCHANGED <<text, answer, system, server, overrun>>
        /\ (faulty => faulty')
        /\ asked' = asked \/ asked' = [asked EXCEPT ![c] = asked[c] - 1]
    BY <1>2 DEF HearAnswer, Hear, Unreachable, HearsNothing, OtherClient,
       Interrupt, Lose, Bounce, dataVars
  <2>2. /\ \/ client' = client
           \/ client[c] = "waiting"
              /\ \E s \in {"done", "gone"} : client' = [client EXCEPT ![c] = s]
        /\ heard' = heard \/ (HearAnswer(c) /\ client[c] = "waiting"
                              /\ client' = [client EXCEPT ![c] = "done"])
    BY <1>2 DEF HearAnswer, Hear, Unreachable, HearsNothing, Unheard,
       OtherClient, Interrupt, Lose, Bounce, dataVars
  <2>3. ASSUME NEW d \in Clients
        PROVE  /\ client'[d] \in {"new", "waiting"} => client'[d] = client[d]
               /\ asked'[d] > 0 => asked[d] > 0
    BY <1>0, <2>1, <2>2
  <2>4. ASSUME NEW d \in Clients, client'[d] = "waiting"
        PROVE  heard'[d] = heard[d]
    <3>1. CASE heard' = heard BY <3>1
    <3>2. CASE HearAnswer(c) /\ client' = [client EXCEPT ![c] = "done"]
      <4>1. d # c BY <1>0, <2>4, <3>2
      <4>2. \E a : heard' = [heard EXCEPT ![c] = a] BY <3>2 DEF HearAnswer
      <4> QED BY <1>0, <4>1, <4>2 DEF Types
    <3> QED BY <2>2, <3>1, <3>2
  <2>5. system = "size" => ~overrun' /\ \A d \in Clients :
                                          Len(text'[d]) <= Buffer
    BY <2>1 DEF Unserved
  <2> QED BY <2>1, <2>3, <2>4, <2>5, StaysUnserved
<1>3. CASE ReceiveFails \/ Crash \/ UNCHANGED vars
  <2>1. /\ UNCHANGED <<client, asked, text, answer, heard, system, overrun>>
        /\ (faulty => faulty')
    BY <1>3 DEF ReceiveFails, Crash, vars, clientVars, dataVars
  <2>2. ASSUME system = "size"
        PROVE  ~faulty' => (server' = "ended" => server = "ended")
    <3>1. CASE ReceiveFails
      <4>1. server = "receiving" /\ (refused \/ faulty')
        BY <3>1 DEF ReceiveFails
      <4>2. refused => faulty BY <1>0, <4>1 DEF Refusal, Over
      <4> QED BY <2>1, <4>1, <4>2
    <3>2. CASE Crash BY <2>2, <3>2 DEF Crash, Unserved
    <3>3. CASE UNCHANGED vars BY <3>3 DEF vars
    <3> QED BY <1>3, <3>1, <3>2, <3>3
  <2>3. CASE system = "size" BY <2>1, <2>2, <2>3, StaysUnserved DEF Unserved
  <2>4. CASE system # "size" BY <2>1, <2>4 DEF Unserved
  <2> QED BY <2>3, <2>4
<1>4. ASSUME NEW c \in Clients, TooLong(c) \/ ServeUnsent(c) PROVE Unserved'
  <2>1. CASE system # "size"
    BY <1>4, <2>1 DEF Unserved, TooLong, ServeUnsent, dataVars
  <2>2. CASE system = "size"
    <3>1. ~TooLong(c)
      <4>1. Len(text[c]) <= Buffer BY <2>2 DEF Unserved
      <4>2. Len(text[c]) \in Nat /\ Buffer \in Nat BY <1>0, Text
      <4> QED BY <4>1, <4>2 DEF TooLong
    <3>2. /\ faulty' /\ Fill(c)
          /\ UNCHANGED <<client, answer, text, heard, system>>
      BY <1>4, <3>1 DEF ServeUnsent, dataVars
    <3>3. ~overrun' BY <2>2, <3>2, FillsWithin DEF Unserved
    <3> QED BY <2>2, <3>2, <3>3 DEF Unserved
  <2> QED BY <2>1, <2>2
<1>5. ASSUME NEW c \in Clients, SendAway(c) \/ Swallow(c) PROVE Unserved'
  BY <1>5 DEF Unserved, SendAway, Swallow
<1>6. ASSUME NEW c \in Clients, Serve(c) PROVE Unserved'
  <2>1. /\ UNCHANGED <<client, text, heard, system, faulty>> /\ system # "sink"
        /\ Len(text[c]) <= Buffer /\ Fill(c) /\ asked[c] > 0
        /\ asked' = [asked EXCEPT ![c] = asked[c] - 1]
    BY <1>6 DEF Serve, Receive
  <2>2. PICK r \in Reply(text[c], buffer') : answer' = [answer EXCEPT ![c] = r]
    BY <1>6 DEF Serve
  <2>3. CASE system # "size" BY <2>1, <2>3 DEF Unserved
  <2>4. CASE system = "size"
    <3>1. Right(c, r) BY <1>0, <2>1, <2>2, Filled, RepliesRight
    <3>2. r # <<>> BY <2>4, <3>1, ToldSome DEF Right
    <3>3. answer'[c] = r /\ \A d \in Clients : d # c => answer'[d] = answer[d]
      BY <1>0, <2>2 DEF Types
    <3>5. asked'[c] = 0 /\ client[c] # "new"
      <4>1. asked[c] \in Nat BY <1>0
      <4>2. asked[c] + answers[c] <= 1 /\ (client[c] = "new" => asked[c] = 0)
        BY <1>0 DEF OneEach
      <4>3. answers[c] \in Nat BY <1>0 DEF Types, ClientTypeOK
      <4>4. asked'[c] = asked[c] - 1 BY <1>0, <2>1
      <4> QED BY <2>1, <4>1, <4>2, <4>3, <4>4
    <3>6. \A d \in Clients : d # c => asked'[d] = asked[d] BY <1>0, <2>1
    <3>7. ASSUME NEW d \in Clients
          PROVE  /\ Len(text'[d]) <= Buffer
                 /\ client'[d] = "waiting" => heard'[d] = <<>>
                 /\ ~faulty' /\ (client'[d] = "new" \/ asked'[d] > 0) =>
                      answer'[d] = <<>>
      <4>1. CASE d = c BY <2>1, <2>4, <3>5, <4>1 DEF Unserved
      <4>2. CASE d # c BY <2>1, <2>4, <3>3, <3>6, <4>2 DEF Unserved
      <4> QED BY <4>1, <4>2
    <3>8. \E d \in Clients : answer'[d] # <<>> BY <3>2, <3>3
    <3>9. ~overrun' BY <2>1, <2>4, FillsWithin DEF Unserved
    <3> QED BY <3>7, <3>8, <3>9 DEF Unserved
  <2> QED BY <2>3, <2>4
<1> QED BY <1>1, <1>2, <1>3, <1>4, <1>5, <1>6 DEF Next, Server

-----------------------------------------------------------------------------
(* The theorems on these servers.                                          *)

LEMMA Invariance ==
  ASSUME SyncUdpAssumption
  PROVE  Spec => []IInv
<1>1. Init => IInv BY InitIInv
<1>2. IInv /\ [Next]_vars => IInv' BY NextIInv
<1> QED BY <1>1, <1>2, PTL DEF Spec

\* Whichever the system, the variables keep their types, the server's buffer its
\* length, and of each client there is one datagram at most on its way, its own
\* or the answer to it, however many clients are answered, give up or are lost.
THEOREM SyncTypeCorrect ==
  ASSUME SyncUdpAssumption
  PROVE  Spec => [](TypeOK /\ OneEach)
<1>1. IInv => TypeOK /\ OneEach BY DEF IInv, Types, TypeOK
<1> QED BY <1>1, Invariance, PTL

\* The server of any number of clients ends only for a cause: a call that failed,
\* a datagram that does not fit, or a byte past its buffer; what comes back from
\* clients that have their answer and are gone is none.
THEOREM EndsOnlyForCause ==
  ASSUME SyncUdpAssumption
  PROVE  Spec => []EndsForCause
<1>1. IInv => EndsForCause BY DEF IInv
<1> QED BY <1>1, Invariance, PTL

\* For any texts and any length of its buffer the sink prints of each datagram its
\* own text, and nothing an earlier one has left.
THEOREM SinkPrintsItsOwn ==
  ASSUME SyncUdpAssumption
  PROVE  Spec => []SinkPrintsOwn
<1>1. IInv => SinkPrintsOwn BY DEF IInv
<1> QED BY <1>1, Invariance, PTL

\* Every client that has been answered prints the answer to its own request, for
\* any texts, files, lists of phones and number of clients, whatever the buffers
\* of the server and of the client had in them; and the size client, which goes
\* on after a receive that failed, prints an empty size only when something has
\* failed, or the server had ended with the answer to another.
THEOREM AnsweredRight ==
  ASSUME SyncUdpAssumption
  PROVE  Spec => []RightAnswer
<1> DEFINE Inv == Answers /\ Unserved /\ RightAnswer
<1>1. Init => Inv
  <2>1. Init => Answers BY InitIInv
  <2>2. Init => RightAnswer BY DEF Init, ClientInit, RightAnswer
  <2>3. Init => Unserved
    <3>1. Len(<<>>) <= Buffer BY DEF SyncUdpAssumption
    <3> QED BY <3>1 DEF Init, ClientInit, Unserved
  <2> QED BY <2>1, <2>2, <2>3
<1>2. IInv /\ Inv /\ [Next]_vars => Inv'
  BY NextRight, NextUnserved
<1>3. Inv => RightAnswer OBVIOUS
<1> HIDE DEF Inv
<1> QED BY <1>1, <1>2, <1>3, Invariance, PTL DEF Spec

-----------------------------------------------------------------------------
(* The two threads of SendUDP.cpp, for any number of datagrams.            *)

\* Where the datagrams are, and how far the thread has counted.  A datagram
\* leaves the books only with the error that ends the thread.
SendBooks ==
  /\ printed + inbox + missed <= sent
  /\ ~amiss => printed + inbox + missed = sent
  /\ count = Sends - printed

\* How the two threads stand to each other.
SendThreads ==
  /\ sender # "sending" => sent = Sends
  /\ sender = "returned" => receiver = "exited"
  /\ amiss => receiver = "exited"
  /\ receiver = "exited" => amiss \/ count = 0
  /\ receiver # "exited" => count > 0

ThreadsIInv == Sending!TypeOK /\ SendBooks /\ SendThreads

-----------------------------------------------------------------------------
LEMMA InitThreadsIInv ==
  ASSUME Sending!SendsAssumption, Sending!Init
  PROVE  ThreadsIInv
<1>1. Sends \in Nat /\ Sends > 0 /\ 0 \in 0..Sends /\ Sends \in 0..Sends
  BY DEF Sending!SendsAssumption
<1>2. Sending!TypeOK
  BY <1>1 DEF Sending!Init, Sending!TypeOK
<1>3. SendBooks
  BY <1>1 DEF Sending!Init, SendBooks
<1>4. SendThreads
  BY <1>1 DEF Sending!Init, SendThreads
<1>5. QED
  BY <1>2, <1>3, <1>4 DEF ThreadsIInv

\* Fewer in the socket's buffer, fewer in all.
LEMMA FewerInAll ==
  ASSUME NEW a \in Nat, NEW b \in Nat, NEW c \in Nat, NEW s \in Nat,
         NEW d \in 0..b, a + b + c <= s
  PROVE  a + d + c <= s
  OBVIOUS

LEMMA ReceiverIInv ==
  ASSUME Sending!SendsAssumption, ThreadsIInv, Sending!Receiver
  PROVE  ThreadsIInv'
<1> USE DEF Sending!SendsAssumption, ThreadsIInv, Sending!TypeOK, SendBooks,
            SendThreads
<1>1. CASE Sending!Open
  BY <1>1 DEF Sending!Open
<1>2. CASE Sending!Bind
  BY <1>2 DEF Sending!Bind
<1>3. CASE Sending!Handle
  BY <1>3 DEF Sending!Handle
<1>4. CASE Sending!HandleError
  <2>1. inbox' \in 0..inbox
    <3>1. inbox > 0 => inbox - 1 \in 0..inbox
      OBVIOUS
    <3>2. inbox \in 0..inbox
      OBVIOUS
    <3>3. QED
      BY <1>4, <3>1, <3>2 DEF Sending!HandleError
  <2>2. /\ amiss' = TRUE /\ receiver' = "exited" /\ receiver = "waiting"
        /\ UNCHANGED <<tooLong, sender, count, sent, printed, missed, aborted>>
    BY <1>4 DEF Sending!HandleError
  <2>3. Sending!TypeOK'
    <3>1. inbox' \in 0..Sends
      BY <2>1
    <3>2. amiss' \in BOOLEAN
      BY <2>2
    <3>3. QED
      BY <2>2, <3>1, <3>2
  <2>4. SendBooks'
    <3>1. printed' + inbox' + missed' <= sent'
      <4>1. printed \in Nat /\ inbox \in Nat /\ missed \in Nat /\ sent \in Nat
        OBVIOUS
      <4>2. printed + inbox' + missed <= sent
        BY ONLY <2>1, <4>1, ThreadsIInv, FewerInAll DEF ThreadsIInv, SendBooks
      <4>3. QED
        BY <2>2, <4>2
    <3>2. amiss'
      BY <2>2
    <3>3. count' = Sends - printed'
      BY <2>2
    <3>4. QED
      BY <3>1, <3>2, <3>3
  <2>5. SendThreads'
    BY <2>2
  <2>6. QED
    BY <2>3, <2>4, <2>5
<1>5. QED
  BY <1>1, <1>2, <1>3, <1>4 DEF Sending!Receiver

LEMMA MainIInv ==
  ASSUME Sending!SendsAssumption, ThreadsIInv, Sending!Main
  PROVE  ThreadsIInv'
<1> USE DEF Sending!SendsAssumption, ThreadsIInv, Sending!TypeOK, SendBooks,
            SendThreads
<1>1. CASE Sending!Sender
  BY <1>1 DEF Sending!Sender
<1>2. CASE Sending!StartJoin
  BY <1>2 DEF Sending!StartJoin
<1>3. CASE Sending!Join
  BY <1>3 DEF Sending!Join
<1>4. QED
  BY <1>1, <1>2, <1>3 DEF Sending!Main

LEMMA NextThreadsIInv ==
  ASSUME Sending!SendsAssumption, ThreadsIInv, [Sending!Next]_(Sending!vars)
  PROVE  ThreadsIInv'
<1>1. CASE Sending!Receiver
  BY <1>1, ReceiverIInv
<1>2. CASE Sending!Main
  BY <1>2, MainIInv
<1>3. CASE Sending!Throw
  BY <1>3 DEF Sending!Throw, ThreadsIInv, Sending!TypeOK, SendBooks, SendThreads
<1>4. CASE UNCHANGED Sending!vars
  BY <1>4 DEF Sending!vars, ThreadsIInv, Sending!TypeOK, SendBooks, SendThreads
<1>5. QED
  BY <1>1, <1>2, <1>3, <1>4 DEF Sending!Next

LEMMA SendInvariance ==
  ASSUME Sending!SendsAssumption
  PROVE  Sending!Spec => []ThreadsIInv
  BY InitThreadsIInv, NextThreadsIInv, PTL DEF Sending!Spec

-----------------------------------------------------------------------------
\* The variables keep their types: the count never falls below zero, and no
\* more datagrams are printed or wait than were sent.
THEOREM SendTypeCorrect ==
  ASSUME Sending!SendsAssumption
  PROVE  Sending!Spec => []Sending!TypeOK
<1>1. ThreadsIInv => Sending!TypeOK
  BY DEF ThreadsIInv
<1>2. QED
  BY <1>1, SendInvariance, PTL

\* When main returns without an error, every datagram has been printed.
THEOREM ReturnsPrinted ==
  ASSUME Sending!SendsAssumption
  PROVE  Sending!Spec => []AllPrinted
<1>1. ThreadsIInv => AllPrinted
  BY DEF Sending!SendsAssumption, ThreadsIInv, Sending!TypeOK, SendBooks,
     SendThreads, AllPrinted, Sending!AllPrinted
<1>2. QED
  BY <1>1, SendInvariance, PTL

\* The join is in vain only when a datagram was lost, or sent before bind.
THEOREM VainJoin ==
  ASSUME Sending!SendsAssumption
  PROVE  Sending!Spec => []Sending!WaitsForMissed
<1>1. ThreadsIInv => Sending!WaitsForMissed
  BY DEF Sending!SendsAssumption, ThreadsIInv, Sending!TypeOK, SendBooks,
     SendThreads, Sending!WaitsForMissed
<1>2. QED
  BY <1>1, SendInvariance, PTL
=============================================================================
