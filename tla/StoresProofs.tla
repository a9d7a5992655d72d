---------------------------- MODULE StoresProofs ----------------------------
(* Proofs about the programs that store something: those that keep phones in  *)
(* a file, for any lists, any size of a write and a read and any number of    *)
(* runs, and those that share a table, for any number of programs and rows.   *)
EXTENDS MCStores, WireProofs

-----------------------------------------------------------------------------
(* The inductive invariant of the file, its writer and its reader.            *)

\* The variables have values of these kinds.
FileTypes ==
  /\ writer \in {"none", "starting", "opening", "writing", "done", "failed",
                 "crashed"}
  /\ list \in Seq(Phones)
  /\ todo \in Seq(Seq(Phones))
  /\ unwritten \in Seq(Nat)
  /\ faulty \in BOOLEAN
  /\ reader \in {"none", "reading", "shown", "failed"}
  /\ got \in Seq(Nat)
  /\ owner \in Seq(Phones)
  /\ source \in Seq(Phones)
  /\ torn \in BOOLEAN

\* Each list to be written is the first phones of the run's list, and the last
\* of them is all of it.
Plan ==
  /\ \A i \in 1..Len(todo) : Leads(todo[i], list)
  /\ todo # <<>> => todo[Len(todo)] = list
  /\ writer \in {"starting", "writing"} => todo # <<>>

\* s is the beginning of what was written of l.
BeginningOf(s, l) == s \in Seq(Nat) /\ Has(Serialize(l), 1, s)

\* The file has the beginning of what the run that emptied it writes, and what
\* this run has not written yet goes on from there.
File ==
  /\ disk # NoFile \/ writer \in {"opening", "writing"} \/ reader = "reading"
       => BeginningOf(disk, owner)
  /\ writer \in {"opening", "writing"} => owner = list
  /\ writer = "writing" =>
       /\ BeginningOf(disk \o unwritten, owner)
       /\ ~faulty => disk \o unwritten = Serialize(Head(todo))
  /\ ~faulty /\ (writer = "done" \/ (writer = "opening" /\ todo = <<>>)) =>
       disk = Serialize(list)

\* What was read is the beginning of what that run writes, although the file may
\* have been emptied and filled again since.
Reading ==
  /\ reader = "none" => got = <<>>
  /\ reader = "reading" /\ ~torn => source = owner /\ BeginningOf(got, source)
  /\ ShowsWhatWasWritten

FileIInv == FileTypes /\ Plan /\ File /\ Reading

\* The lists that AddToPhoneList writes one after the other.
LEMMA FirstOf ==
  ASSUME NEW l \in Seq(Phones), NEW k \in 1..Len(l)
  PROVE  /\ SubSeq(l, 1, k) \in Seq(Phones)
         /\ Leads(SubSeq(l, 1, k), l)
         /\ k = Len(l) => SubSeq(l, 1, k) = l
<1>1. PICK n \in Nat : n = Len(l) OBVIOUS
<1>2. PICK a \in Int : a = 1 OBVIOUS
<1>3. \A j \in a..k : l[j] \in Phones BY <1>1, <1>2
<1>4. PICK w \in Seq(Phones) :
        /\ w = SubSeq(l, a, k)
        /\ Len(w) = IF a <= k THEN (k - a) + 1 ELSE 0
        /\ \A j \in 1..((k - a) + 1) : w[j] = l[(a + j) - 1]
  <2>1. /\ SubSeq(l, a, k) \in Seq(Phones)
        /\ Len(SubSeq(l, a, k)) = IF a <= k THEN (k - a) + 1 ELSE 0
        /\ \A j \in 1..((k - a) + 1) : SubSeq(l, a, k)[j] = l[(a + j) - 1]
    BY <1>3, SubSeqProperties
  <2> QED BY <2>1
<1>5. Len(w) = k /\ (k - a) + 1 = k BY <1>2, <1>4
<1>6. \A j \in 1..k : w[j] = l[j]
  <2>1. \A j \in 1..k : (a + j) - 1 = j BY <1>2
  <2> QED BY <1>4, <1>5, <2>1
<1>7. Leads(w, l) BY <1>1, <1>5, <1>6 DEF Leads
<1>8. ASSUME k = Len(l) PROVE w = l
  <2>1. Len(w) = Len(l) /\ \A j \in 1..Len(w) : w[j] = l[j]
    BY <1>5, <1>6, <1>8
  <2> QED BY <2>1, SeqEqual
<1>9. w = SubSeq(l, 1, k) BY <1>2, <1>4
<1> QED BY <1>7, <1>8, <1>9

\* l is written as a whole or phone by phone.
PlanFor(plan, l) ==
  /\ plan \in Seq(Seq(Phones)) /\ plan # <<>>
  /\ \A i \in 1..Len(plan) : Leads(plan[i], l)
  /\ plan[Len(plan)] = l

LEMMA PlansFit ==
  ASSUME NEW l \in Seq(Phones), l # <<>>,
         NEW plan \in {<<l>>, EachPhone(l)}
  PROVE  PlanFor(plan, l)
<1>0. PICK n \in Nat : n = Len(l) /\ n # 0 /\ DOMAIN l = 1..n OBVIOUS
<1>1. CASE plan = <<l>>
  <2>1. Leads(l, l) BY <1>0 DEF Leads
  <2>2. plan \in Seq(Seq(Phones)) /\ Len(plan) = 1 /\ plan[1] = l BY <1>1
  <2>3. \A i \in 1..Len(plan) : i = 1 BY <2>2
  <2>4. plan # <<>> BY <1>1
  <2>5. \A i \in 1..Len(plan) : Leads(plan[i], l) BY <2>1, <2>2, <2>3, Zenon
  <2> QED BY <2>2, <2>4, <2>5, Zenon DEF PlanFor
<1>2. CASE plan = EachPhone(l)
  <2>1. plan = [k \in 1..n |-> SubSeq(l, 1, k)] BY <1>0, <1>2 DEF EachPhone
  <2>2. \A k \in 1..n : /\ SubSeq(l, 1, k) \in Seq(Phones)
                        /\ Leads(SubSeq(l, 1, k), l)
                        /\ k = n => SubSeq(l, 1, k) = l
    BY <1>0, FirstOf
  <2>3. plan \in [1..n -> Seq(Phones)] BY <2>1, <2>2
  <2>4. plan \in Seq(Seq(Phones)) /\ Len(plan) = n BY <2>3
  <2>5. \A k \in 1..n : plan[k] = SubSeq(l, 1, k) BY <2>1
  <2>6. n \in 1..n BY <1>0
  <2>7. plan # <<>> BY <1>0, <2>4
  <2> QED BY <2>2, <2>4, <2>5, <2>6, <2>7 DEF PlanFor
<1> QED BY <1>1, <1>2

\* Where the three are joined first makes no difference.
Regroups(s, t, u) == (s \o t) \o u = s \o (t \o u)

LEMMA Associative ==
  \A s, t, u \in Seq(Nat) : Regroups(s, t, u)
<1> TAKE s, t, u \in Seq(Nat)
<1> QED BY ConcatAssociative, Z3T(30) DEF Regroups

\* What is written and what remains are the whole.
LEMMA WrittenAndRest ==
  ASSUME NEW d \in Seq(Nat), NEW u \in Seq(Nat), NEW n \in 1..Len(u)
  PROVE  /\ SubSeq(u, n + 1, Len(u)) \in Seq(Nat)
         /\ d \o SubSeq(u, 1, n) \in Seq(Nat)
         /\ (d \o SubSeq(u, 1, n)) \o SubSeq(u, n + 1, Len(u)) = d \o u
<1>1. Len(u) \in Nat /\ \A i \in 1..Len(u) : u[i] \in Nat
  BY LenProperties, ElementOfSeq
<1>2. PICK a \in Seq(Nat) : a = SubSeq(u, 1, n)
  <2>1. SubSeq(u, 1, n) \in Seq(Nat) BY <1>1, SubSeqProperties
  <2> QED BY <2>1
<1>3. PICK b \in Seq(Nat) : b = SubSeq(u, n + 1, Len(u))
  <2>1. SubSeq(u, n + 1, Len(u)) \in Seq(Nat) BY <1>1, SubSeqProperties
  <2> QED BY <2>1
<1>4. a \o b = u
  <2>1. 1 \in 1..Len(u) + 1 /\ n \in (1 - 1)..Len(u) /\ Len(u) \in n..Len(u)
    BY <1>1
  <2>2. SubSeq(u, 1, n) \o SubSeq(u, n + 1, Len(u)) = SubSeq(u, 1, Len(u))
    BY <2>1, ConcatAdjacentSubSeq
  <2>3. SubSeq(u, 1, Len(u)) = u BY SubSeqFull
  <2> QED BY <1>2, <1>3, <2>2, <2>3, Zenon
<1>5. (d \o a) \o b = d \o (a \o b)
  <2>1. Regroups(d, a, b) BY Associative, Zenon
  <2> QED BY ONLY <2>1, Zenon DEF Regroups
<1>6. d \o a \in Seq(Nat) BY ConcatProperties
<1> QED BY <1>2, <1>3, <1>4, <1>5, <1>6

LEMMA BeginningOfJoined ==
  ASSUME NEW l \in Seq(Phones), NEW d \in Seq(Nat), NEW u \in Seq(Nat),
         BeginningOf(d \o u, l)
  PROVE  BeginningOf(d, l)
<1>1. PICK s \in Seq(Nat) : s = Serialize(l) BY SerializeType
<1>2. Has(s, 1, d \o u) BY <1>1 DEF BeginningOf
<1>3. 1 \in Nat \ {0} OBVIOUS
<1>4. Has(s, 1, d)
  BY ONLY <1>2, <1>3, s \in Seq(Nat), d \in Seq(Nat), u \in Seq(Nat), HasJoined
<1> QED BY <1>1, <1>4 DEF BeginningOf

LEMMA EmptyBegins ==
  ASSUME NEW l \in Seq(Phones)
  PROVE  BeginningOf(<<>>, l)
<1>1. PICK s \in Seq(Nat) : s = Serialize(l) BY SerializeType
<1>2. PICK e \in Seq(Nat) : e = <<>> /\ Len(e) = 0
  <2>1. <<>> \in Seq(Nat) /\ Len(<<>>) = 0 OBVIOUS
  <2> QED BY <2>1
<1>3. 1 + 0 <= Len(s) + 1 /\ \A j \in 1..0 : FALSE OBVIOUS
<1>4. Has(s, 1, e) BY <1>2, <1>3 DEF Has
<1> QED BY <1>1, <1>2, <1>4 DEF BeginningOf

\* What a reader has, and the bytes of the file that follow its place.
LEMMA ReadOn ==
  ASSUME NEW l \in Seq(Phones), NEW d, BeginningOf(d, l),
         NEW g, BeginningOf(g, l), NEW n \in Nat \ {0}, Len(g) + n <= Len(d)
  PROVE  BeginningOf(g \o SubSeq(d, Len(g) + 1, Len(g) + n), l)
<1>1. PICK s \in Seq(Nat) : s = Serialize(l) BY SerializeType
<1>2. d \in Seq(Nat) /\ g \in Seq(Nat) /\ Has(s, 1, d) /\ Has(s, 1, g)
  BY <1>1 DEF BeginningOf
<1>3. PICK ld \in Nat : ld = Len(d) BY <1>2
<1>4. PICK lg \in Nat : lg = Len(g) BY <1>2
<1>5. lg + n <= ld BY <1>3, <1>4
<1>6. PICK a \in Int, z \in Int : a = lg + 1 /\ z = lg + n OBVIOUS
<1>7. \A j \in a..z : d[j] \in Nat
  <2>1. \A j \in a..z : j \in 1..ld BY <1>5, <1>6
  <2> QED BY <1>2, <1>3, <2>1
<1>8. PICK w \in Seq(Nat) :
        /\ w = SubSeq(d, a, z)
        /\ Len(w) = IF a <= z THEN (z - a) + 1 ELSE 0
        /\ \A j \in 1..((z - a) + 1) : w[j] = d[(a + j) - 1]
  <2>1. /\ SubSeq(d, a, z) \in Seq(Nat)
        /\ Len(SubSeq(d, a, z)) = IF a <= z THEN (z - a) + 1 ELSE 0
        /\ \A j \in 1..((z - a) + 1) : SubSeq(d, a, z)[j] = d[(a + j) - 1]
    BY <1>7, SubSeqProperties
  <2> QED BY <2>1
<1>9. Len(w) = n /\ (z - a) + 1 = n BY <1>6, <1>8
<1>10. \A j \in 1..ld : s[j] = d[j]
  <2>1. \A j \in 1..ld : (1 - 1) + j = j OBVIOUS
  <2>2. \A j \in 1..ld : s[(1 - 1) + j] = d[j] BY <1>2, <1>3 DEF Has
  <2> QED BY <2>1, <2>2
<1>11. \A j \in 1..n : s[lg + j] = w[j]
  <2>1. \A j \in 1..n : lg + j \in 1..ld /\ (a + j) - 1 = lg + j
    BY <1>5, <1>6
  <2> QED BY <1>8, <1>9, <1>10, <2>1
<1>12. PICK i \in Nat \ {0} : i = 1 + Len(g) /\ i - 1 = lg BY <1>4
<1>13. Has(s, i, w)
  <2>1. ld <= Len(s)
    <3>1. 1 + Len(d) <= Len(s) + 1 BY <1>2 DEF Has
    <3> QED BY <1>3, <3>1
  <2>2. i + n <= Len(s) + 1 BY <1>5, <1>12, <2>1
  <2> QED BY <1>9, <1>11, <1>12, <2>2 DEF Has
<1>14. Has(s, 1, g \o w)
  <2>1. 1 \in Nat \ {0} OBVIOUS
  <2>2. Has(s, 1, g) /\ Has(s, 1 + Len(g), w) BY <1>2, <1>12, <1>13
  <2>3. g \in Seq(Nat) BY <1>2
  <2> QED BY ONLY <2>1, <2>2, <2>3, s \in Seq(Nat), w \in Seq(Nat), HasJoined
<1>15. g \o w \in Seq(Nat) BY <1>2, ConcatProperties
<1>16. BeginningOf(g \o w, l) BY <1>1, <1>14, <1>15 DEF BeginningOf
<1> QED BY <1>4, <1>6, <1>8, <1>16, Zenon

LEMMA InitFile == Init => FileIInv
<1> SUFFICES ASSUME Init PROVE FileIInv OBVIOUS
<1>1. FileTypes
  <2>1. /\ <<>> \in Seq(Phones) /\ <<>> \in Seq(Nat)
        /\ <<>> \in Seq(Seq(Phones))
    BY EmptySeq
  <2> QED BY <2>1, Zenon DEF Init, FileTypes
<1>2. Plan
  <2>1. \A i \in 1..Len(<<>>) : FALSE OBVIOUS
  <2> QED BY <2>1 DEF Init, Plan
<1>3. File BY DEF Init, File
<1>4. Reading BY DEF Init, Reading, ShowsWhatWasWritten
<1> QED BY <1>1, <1>2, <1>3, <1>4 DEF FileIInv

LEMMA StartFile ==
  ASSUME PhoneFileAssumption, FileIInv, Start
  PROVE  FileIInv'
<1>0. FileTypes /\ File /\ Reading BY DEF FileIInv
<1>1. PICK l \in Seq(Phones) : l = list' /\ l # <<>>
  BY DEF Start, PhoneFileAssumption
<1>2. PICK plan \in {<<l>>, EachPhone(l)} : plan = todo' BY <1>1 DEF Start
<1>3. PlanFor(plan, l) BY <1>1, PlansFit
<1>4. writer' = "starting" /\ faulty' = FALSE
      /\ UNCHANGED <<disk, unwritten, owner, reader, got, source, torn, shown>>
  BY DEF Start, readerVars
<1>5. FileTypes' BY <1>0, <1>1, <1>2, <1>3, <1>4 DEF FileTypes, PlanFor
<1>6. Plan' BY <1>1, <1>2, <1>3, <1>4 DEF Plan, PlanFor
<1>7. File'
  <2>1. disk # NoFile \/ reader = "reading" => BeginningOf(disk, owner)
    BY <1>0 DEF File
  <2> QED BY <1>4, <2>1 DEF File
<1>8. Reading' BY <1>0, <1>4 DEF Reading, ShowsWhatWasWritten
<1> QED BY <1>5, <1>6, <1>7, <1>8 DEF FileIInv

LEMMA OpenFile ==
  ASSUME FileIInv, Open
  PROVE  FileIInv'
<1>0. FileTypes /\ Plan /\ File /\ Reading BY DEF FileIInv
<1>1. /\ writer \in {"starting", "opening"} /\ todo # <<>>
      /\ disk' = <<>> /\ unwritten' = Serialize(Head(todo))
      /\ writer' = "writing" /\ owner' = list
      /\ torn' = (torn \/ (reader = "reading" /\ writer = "starting"))
      /\ UNCHANGED <<list, todo, runs, faulty, reader, got, source, shown>>
  BY DEF Open
<1>2. PICK l \in Seq(Phones) : l = list BY <1>0 DEF FileTypes
<1>3. PICK h \in Seq(Phones) : h = Head(todo) /\ Leads(h, l)
  <2>1. todo \in Seq(Seq(Phones)) BY <1>0 DEF FileTypes
  <2>2. Head(todo) = todo[1] /\ 1 \in 1..Len(todo) BY <1>1, <2>1
  <2>3. todo[1] \in Seq(Phones) BY <2>1, <2>2
  <2> QED BY <1>0, <1>2, <2>2, <2>3 DEF Plan
<1>4. PICK u \in Seq(Nat) : u = Serialize(h) BY SerializeType
<1>5. unwritten' = u BY <1>1, <1>3, <1>4
<1>6. BeginningOf(u, l)
  <2>1. Has(Serialize(l), 1, Serialize(h)) BY <1>3, WrittenFirst
  <2> QED BY <1>4, <2>1 DEF BeginningOf
<1>7. FileTypes' BY <1>0, <1>1, <1>5 DEF FileTypes
<1>8. Plan' BY <1>0, <1>1 DEF Plan
<1>9. File'
  <2>1. BeginningOf(<<>>, l) BY EmptyBegins
  <2>2. <<>> \o u = u OBVIOUS
  <2>3. BeginningOf(disk', owner') BY <1>1, <1>2, <2>1
  <2>4. disk' \o unwritten' = u BY <1>1, <1>5, <2>2
  <2>5. BeginningOf(disk' \o unwritten', owner') BY <1>1, <1>2, <1>6, <2>4
  <2>6. disk' \o unwritten' = Serialize(Head(todo')) BY <1>1, <1>3, <1>4, <2>4
  <2> QED BY <1>1, <2>3, <2>5, <2>6 DEF File
<1>10. Reading'
  <2>1. reader' = "reading" /\ ~torn' => source' = owner'
                                         /\ BeginningOf(got', source')
    <3> SUFFICES ASSUME reader' = "reading", ~torn'
                 PROVE  source' = owner' /\ BeginningOf(got', source')
      OBVIOUS
    <3>1. reader = "reading" /\ ~torn /\ writer = "opening" BY <1>1
    <3>2. owner = list BY <1>0, <3>1 DEF File
    <3>3. source = owner /\ BeginningOf(got, source)
      BY <1>0, <3>1 DEF Reading
    <3> QED BY <1>1, <3>2, <3>3
  <2>2. ShowsWhatWasWritten'
    <3>1. ShowsWhatWasWritten BY <1>0 DEF Reading
    <3>2. reader' = "shown" => reader # "reading" BY <1>1
    <3> QED BY <1>1, <3>1, <3>2 DEF ShowsWhatWasWritten
  <2>3. reader' = "none" => got' = <<>> BY <1>0, <1>1 DEF Reading
  <2> QED BY <2>1, <2>2, <2>3 DEF Reading
<1> QED BY <1>7, <1>8, <1>9, <1>10 DEF FileIInv

\* What leaves the reader and the file alone leaves what was read alone.
LEMMA ReadingKept ==
  ASSUME Reading, UNCHANGED <<owner, readerVars>>
  PROVE  Reading'
BY DEF Reading, ShowsWhatWasWritten, readerVars

LEMMA OpenFailsFile ==
  ASSUME FileIInv, OpenFails
  PROVE  FileIInv'
<1>0. FileTypes /\ Plan /\ File /\ Reading BY DEF FileIInv
<1>1. /\ writer \in {"starting", "opening"} /\ writer' = "failed"
      /\ faulty' = TRUE
      /\ UNCHANGED <<disk, list, todo, unwritten, owner, readerVars>>
  BY DEF OpenFails
<1>2. FileTypes' BY <1>0, <1>1 DEF FileTypes, readerVars
<1>3. Plan' BY <1>0, <1>1 DEF Plan
<1>4. File' BY <1>0, <1>1 DEF File, readerVars
<1>5. Reading' BY <1>0, <1>1, ReadingKept
<1> QED BY <1>2, <1>3, <1>4, <1>5 DEF FileIInv

LEMMA WriteFile ==
  ASSUME FileIInv, Write
  PROVE  FileIInv'
<1>0. FileTypes /\ Plan /\ File /\ Reading BY DEF FileIInv
<1>1. PICK n \in 1..Len(unwritten) :
        /\ disk' = disk \o SubSeq(unwritten, 1, n)
        /\ unwritten' = SubSeq(unwritten, n + 1, Len(unwritten))
  BY DEF Write
<1>2. /\ writer = "writing"
      /\ UNCHANGED <<writer, list, todo, faulty, owner, readerVars>>
  BY DEF Write
<1>3. PICK d \in Seq(Nat) : d = disk BY <1>0, <1>2 DEF File, BeginningOf
<1>4. PICK u \in Seq(Nat) : u = unwritten BY <1>0 DEF FileTypes
<1>5. PICK l \in Seq(Phones) : l = owner BY <1>0 DEF FileTypes
<1>6. n \in 1..Len(u) BY <1>4
<1>7. PICK e \in Seq(Nat) : e = disk' BY <1>1, <1>3, <1>4, <1>6, WrittenAndRest
<1>8. PICK v \in Seq(Nat) : v = unwritten' BY <1>1, <1>4, <1>6, WrittenAndRest
<1>9. e \o v = d \o u
  <2>1. (d \o SubSeq(u, 1, n)) \o SubSeq(u, n + 1, Len(u)) = d \o u
    BY <1>6, WrittenAndRest
  <2> QED BY <1>1, <1>3, <1>4, <1>7, <1>8, <2>1, Zenon
<1>10. BeginningOf(e \o v, l) /\ owner = list
       /\ (~faulty => e \o v = Serialize(Head(todo)))
  BY <1>0, <1>2, <1>3, <1>4, <1>5, <1>9 DEF File
<1>11. BeginningOf(e, l) BY <1>10, BeginningOfJoined
<1>12. FileTypes' BY <1>0, <1>2, <1>8 DEF FileTypes, readerVars
<1>13. Plan' BY <1>0, <1>2 DEF Plan
<1>14. File'
  <2>1. /\ writer' = "writing" /\ owner' = l /\ owner' = list'
        /\ faulty' = faulty /\ todo' = todo
    BY <1>2, <1>5, <1>10
  <2> QED BY <1>7, <1>8, <1>10, <1>11, <2>1 DEF File
<1>15. Reading' BY <1>0, <1>2, ReadingKept
<1> QED BY <1>12, <1>13, <1>14, <1>15 DEF FileIInv

LEMMA WriteFailsFile ==
  ASSUME FileIInv, WriteFails
  PROVE  FileIInv'
<1>0. FileTypes /\ Plan /\ File /\ Reading BY DEF FileIInv
<1>1. /\ writer = "writing" /\ writer' \in {"failed", "writing"}
      /\ faulty' = TRUE /\ unwritten' = <<>>
      /\ UNCHANGED <<disk, list, todo, owner, readerVars>>
  BY DEF WriteFails
<1>2. FileTypes'
  <2>1. <<>> \in Seq(Nat) OBVIOUS
  <2> QED BY <1>0, <1>1, <2>1 DEF FileTypes, readerVars
<1>3. Plan' BY <1>0, <1>1 DEF Plan
<1>4. File'
  <2>1. PICK d \in Seq(Nat) : d = disk BY <1>0, <1>1 DEF File, BeginningOf
  <2>2. BeginningOf(d, owner) /\ owner = list BY <1>0, <1>1, <2>1 DEF File
  <2>3. disk' \o unwritten' = d BY <1>1, <2>1
  <2>4. BeginningOf(disk', owner') /\ BeginningOf(disk' \o unwritten', owner')
    BY <1>1, <2>1, <2>2, <2>3
  <2> QED BY <1>1, <2>2, <2>4 DEF File
<1>5. Reading' BY <1>0, <1>1, ReadingKept
<1> QED BY <1>2, <1>3, <1>4, <1>5 DEF FileIInv

LEMMA EndOfListFile ==
  ASSUME FileIInv, EndOfList
  PROVE  FileIInv'
<1>0. FileTypes /\ Plan /\ File /\ Reading BY DEF FileIInv
<1>1. /\ writer = "writing" /\ unwritten = <<>>
      /\ todo' = Tail(todo) /\ writer' = "opening"
      /\ UNCHANGED <<disk, list, unwritten, faulty, owner, readerVars>>
  BY DEF EndOfList
<1>2. PICK n \in Nat : n = Len(todo) /\ n # 0
  BY <1>0, <1>1 DEF FileTypes, Plan
<1>3. PICK t \in Seq(Seq(Phones)) :
        /\ t = todo' /\ Len(t) = n - 1
        /\ \A i \in 1..(n - 1) : t[i] = todo[i + 1]
  <2>1. todo \in Seq(Seq(Phones)) BY <1>0 DEF FileTypes
  <2>2. PICK s \in Seq(Seq(Phones)) : s = todo BY <2>1
  <2>3. s # <<>> /\ Len(s) = n BY <1>2, <2>2
  <2>4. /\ Tail(s) \in Seq(Seq(Phones)) /\ Len(Tail(s)) = n - 1
        /\ \A i \in 1..(n - 1) : Tail(s)[i] = s[i + 1]
    BY <2>3, HeadTailProperties
  <2> QED BY <1>1, <2>2, <2>4
<1>4. FileTypes' BY <1>0, <1>1, <1>3 DEF FileTypes, readerVars
<1>5. Plan'
  <2>1. ASSUME NEW i \in 1..Len(t) PROVE Leads(t[i], list)
    <3>1. i \in 1..(n - 1) /\ i + 1 \in 1..n BY <1>2, <1>3
    <3> QED BY <1>0, <1>2, <1>3, <3>1 DEF Plan
  <2>2. t # <<>> => t[Len(t)] = list
    <3> SUFFICES ASSUME t # <<>> PROVE t[Len(t)] = list OBVIOUS
    <3>1. n - 1 # 0 BY <1>3
    <3>2. n - 1 \in 1..(n - 1) /\ (n - 1) + 1 = n BY <1>2, <3>1
    <3>3. t[n - 1] = todo[n] BY <1>3, <3>2
    <3>4. todo[n] = list BY <1>0, <1>2 DEF FileTypes, Plan
    <3> QED BY <1>3, <3>3, <3>4
  <2> QED BY <1>1, <1>3, <2>1, <2>2 DEF Plan
<1>6. File'
  <2>1. PICK d \in Seq(Nat) : d = disk BY <1>0, <1>1 DEF File, BeginningOf
  <2>2. BeginningOf(disk, owner) /\ owner = list BY <1>0, <1>1 DEF File
  <2>3. disk \o unwritten = d BY <1>1, <2>1
  <2>4. ~faulty => d = Serialize(Head(todo)) BY <1>0, <1>1, <2>3 DEF File
  <2>5. t = <<>> => Head(todo) = list
    <3> SUFFICES ASSUME t = <<>> PROVE Head(todo) = list OBVIOUS
    <3>1. n - 1 = 0 BY <1>3
    <3>2. n = 1 BY ONLY <3>1, n \in Nat
    <3>3. todo[n] = list BY <1>0, <1>2 DEF FileTypes, Plan
    <3>4. Head(todo) = todo[1] BY <1>0, <1>2 DEF FileTypes
    <3> QED BY <3>2, <3>3, <3>4
  <2>6. ~faulty' /\ todo' = <<>> => disk' = Serialize(list')
    BY <1>1, <1>3, <2>1, <2>4, <2>5
  <2> QED BY <1>1, <2>2, <2>6 DEF File
<1>7. Reading' BY <1>0, <1>1, ReadingKept
<1> QED BY <1>4, <1>5, <1>6, <1>7 DEF FileIInv

LEMMA EndsFile ==
  ASSUME FileIInv, End \/ Crash
  PROVE  FileIInv'
<1>0. FileTypes /\ Plan /\ File /\ Reading BY DEF FileIInv
<1>1. UNCHANGED <<disk, list, todo, unwritten, faulty, owner, readerVars>>
  BY DEF End, Crash
<1>2. \/ /\ writer' = "done" /\ writer \in {"starting", "opening"}
         /\ todo = <<>>
      \/ writer' = "crashed"
  BY DEF End, Crash
<1>3. FileTypes' BY <1>0, <1>1, <1>2 DEF FileTypes, readerVars
<1>4. Plan' BY <1>0, <1>1, <1>2 DEF Plan
<1>5. File'
  <2>1. disk # NoFile \/ reader = "reading" => BeginningOf(disk, owner)
    BY <1>0 DEF File
  <2>2. writer' = "done" => writer = "opening" /\ todo = <<>>
    BY <1>0, <1>2 DEF Plan
  <2>3. writer' = "done" /\ ~faulty => disk = Serialize(list)
    BY <1>0, <2>2 DEF File
  <2> QED BY <1>1, <1>2, <2>1, <2>3 DEF File, readerVars
<1>6. Reading' BY <1>0, <1>1, ReadingKept
<1> QED BY <1>3, <1>4, <1>5, <1>6 DEF FileIInv

\* A step of the reader leaves the writer and the file alone.
LEMMA WriterKept ==
  ASSUME FileIInv, UNCHANGED <<disk, writerVars>>,
         reader' = "reading" => reader = "reading" \/ disk # NoFile
  PROVE  Plan' /\ File'
<1>0. Plan /\ File BY DEF FileIInv
<1> QED BY <1>0 DEF Plan, File, writerVars

LEMMA OpenToReadFile ==
  ASSUME FileIInv, OpenToRead
  PROVE  FileIInv'
<1>0. FileTypes /\ File /\ Reading BY DEF FileIInv
<1>1. /\ disk # NoFile /\ reader = "none" /\ reader' = "reading"
      /\ source' = owner
      /\ UNCHANGED <<disk, writerVars, got, torn, shown>>
  BY DEF OpenToRead
<1>2. PICK l \in Seq(Phones) : l = owner BY <1>0 DEF FileTypes
<1>3. FileTypes' BY <1>0, <1>1, <1>2 DEF FileTypes, writerVars
<1>4. Reading'
  <2>1. got' = <<>> BY <1>0, <1>1 DEF Reading
  <2>2. source' = l /\ owner' = l BY <1>1, <1>2 DEF writerVars
  <2>3. BeginningOf(got', source') BY <2>1, <2>2, EmptyBegins
  <2> QED BY <1>1, <2>2, <2>3 DEF Reading, ShowsWhatWasWritten
<1> QED BY <1>1, <1>3, <1>4, WriterKept DEF FileIInv

LEMMA NothingToReadFile ==
  ASSUME FileIInv, NothingToRead
  PROVE  FileIInv'
<1>0. FileTypes /\ Reading BY DEF FileIInv
<1>1. /\ reader' = "failed"
      /\ UNCHANGED <<disk, writerVars, got, source, torn, shown>>
  BY DEF NothingToRead
<1>2. FileTypes' BY <1>0, <1>1 DEF FileTypes, writerVars
<1>3. Reading' BY <1>1 DEF Reading, ShowsWhatWasWritten
<1> QED BY <1>1, <1>2, <1>3, WriterKept DEF FileIInv

LEMMA ReadFile ==
  ASSUME PhoneFileAssumption, FileIInv, Read
  PROVE  FileIInv'
<1>0. FileTypes /\ File /\ Reading BY DEF FileIInv
<1>1. PICK n \in 1..Block :
        /\ Len(got) + n <= Len(disk)
        /\ got' = got \o SubSeq(disk, Len(got) + 1, Len(got) + n)
  BY DEF Read
<1>2. /\ reader = "reading"
      /\ UNCHANGED <<disk, writerVars, reader, source, torn, shown>>
  BY DEF Read
<1>3. n \in Nat \ {0} BY DEF PhoneFileAssumption
<1>4. BeginningOf(disk, owner) /\ owner \in Seq(Phones)
  BY <1>0, <1>2 DEF File, FileTypes
<1>5. PICK d \in Seq(Nat) : d = disk BY <1>4 DEF BeginningOf
<1>6. PICK g \in Seq(Nat) : g = got BY <1>0 DEF FileTypes
<1>7. PICK l \in Seq(Phones) : l = owner BY <1>4
<1>8. Len(g) + n <= Len(d) BY <1>1, <1>5, <1>6
<1>9. PICK more : more = g \o SubSeq(d, Len(g) + 1, Len(g) + n) OBVIOUS
<1>10. got' = more BY <1>1, <1>5, <1>6, <1>9
<1>11. more \in Seq(Nat)
  <2>1. PICK a \in Nat, z \in Nat : a = Len(g) + 1 /\ z = Len(g) + n
    BY <1>3
  <2>2. \A j \in a..z : d[j] \in Nat
    <3>1. \A j \in a..z : j \in 1..Len(d) BY <1>8, <2>1
    <3> QED BY <3>1
  <2>3. SubSeq(d, a, z) \in Seq(Nat) BY <2>2, SubSeqProperties
  <2>4. PICK w \in Seq(Nat) : w = SubSeq(d, a, z) BY <2>3
  <2>5. more = g \o w BY <1>9, <2>1, <2>4
  <2> QED BY <2>5, ConcatProperties
<1>12. BeginningOf(g, l) => BeginningOf(more, l)
  <2>1. BeginningOf(d, l) BY <1>4, <1>5, <1>7
  <2> QED BY <1>3, <1>8, <1>9, <2>1, ReadOn
<1>13. FileTypes' BY <1>0, <1>2, <1>10, <1>11 DEF FileTypes, writerVars
<1>14. Reading'
  <2>1. ~torn => source = owner /\ BeginningOf(got, source)
    BY <1>0, <1>2 DEF Reading
  <2>2. ~torn => source' = owner' /\ BeginningOf(got', source')
    BY <1>2, <1>6, <1>7, <1>10, <1>12, <2>1 DEF writerVars
  <2> QED BY <1>2, <2>2 DEF Reading, ShowsWhatWasWritten
<1> QED BY <1>2, <1>13, <1>14, WriterKept DEF FileIInv

LEMMA ReadEndFile ==
  ASSUME FileIInv, ReadEnd
  PROVE  FileIInv'
<1>0. FileTypes /\ Reading BY DEF FileIInv
<1>1. /\ reader = "reading"
      /\ UNCHANGED <<disk, writerVars, got, source, torn>>
  BY DEF ReadEnd
<1>2. \/ Parse(got).ok /\ reader' = "shown" /\ shown' = Parse(got).list
      \/ reader' = "failed"
  BY DEF ReadEnd
<1>3. FileTypes' BY <1>0, <1>1, <1>2 DEF FileTypes, writerVars
<1>4. ASSUME reader' = "shown", ~torn'
      PROVE  IsPrefix(shown', source')
  <2>1. PICK l \in Seq(Phones) : l = source /\ BeginningOf(got, l)
    BY <1>0, <1>1, <1>4 DEF FileTypes, Reading
  <2>2. PICK s \in Seq(Nat) : s = got /\ Has(Serialize(l), 1, s)
    BY <2>1 DEF BeginningOf
  <2>3. Parse(s).ok /\ shown' = Parse(s).list BY <1>2, <1>4, <2>2
  <2>4. PICK x \in Seq(Phones) : Leads(x, l) /\ s = Serialize(x)
    BY <2>2, <2>3, WholeOrCut
  <2>5. Parse(s) = [ok |-> TRUE, list |-> x] BY <2>4, ListRead
  <2>6. shown' = x BY <2>3, <2>5
  <2>7. IsPrefix(x, l) BY <2>4, LeadsPrefix
  <2> QED BY <1>1, <2>1, <2>6, <2>7
<1>5. Reading' BY <1>1, <1>2, <1>4 DEF Reading, ShowsWhatWasWritten
<1> QED BY <1>1, <1>2, <1>3, <1>5, WriterKept DEF FileIInv

LEMMA NextFile ==
  ASSUME PhoneFileAssumption, FileIInv, [Next]_vars
  PROVE  FileIInv'
<1>1. CASE Writer
  BY <1>1, StartFile, OpenFile, OpenFailsFile, WriteFile, WriteFailsFile,
     EndOfListFile, EndsFile DEF Writer
<1>2. CASE Reader
  BY <1>2, OpenToReadFile, NothingToReadFile, ReadFile, ReadEndFile DEF Reader
<1>3. CASE UNCHANGED vars
  <2>1. UNCHANGED <<disk, writerVars, readerVars>> BY <1>3 DEF vars
  <2>2. FileTypes /\ Reading BY DEF FileIInv
  <2>3. FileTypes' BY <2>1, <2>2 DEF FileTypes, writerVars, readerVars
  <2>4. Reading' BY <2>1, <2>2, ReadingKept DEF writerVars
  <2>5. Plan' /\ File' BY <2>1, WriterKept DEF readerVars
  <2> QED BY <2>3, <2>4, <2>5 DEF FileIInv
<1> QED BY <1>1, <1>2, <1>3 DEF Next

\* The invariant holds of every behaviour of the writers and the reader.
LEMMA FileInvariance ==
  ASSUME PhoneFileAssumption
  PROVE  Spec => []FileIInv
<1>1. Init => FileIInv BY InitFile
<1>2. FileIInv /\ [Next]_vars => FileIInv' BY NextFile
<1> QED BY <1>1, <1>2, PTL DEF Spec

-----------------------------------------------------------------------------
(* The theorems about the file.                                               *)

\* Whatever lists the writers make: each is read from its bytes as it was, every
\* field of every phone, and has the size that was computed for it.
THEOREM ListsReadBack ==
  ASSUME PhoneFileAssumption
  PROVE  Spec => []RoundTrip
<1>1. FileIInv => RoundTrip
  <2> SUFFICES ASSUME FileIInv, NEW i \in DOMAIN todo
               PROVE  /\ Parse(Serialize(todo[i]))
                           = [ok |-> TRUE, list |-> todo[i]]
                      /\ ListSize(todo[i]) = Len(Serialize(todo[i]))
    BY DEF RoundTrip
  <2>1. PICK l \in Seq(Phones) : l = todo[i] BY DEF FileIInv, FileTypes
  <2> QED BY <2>1, ListRead, ListSizeIs
<1> QED BY <1>1, FileInvariance, PTL

\* For any lists and any size of a write: a run that ends well leaves a file from
\* which the whole of its list is read, whatever earlier runs left there.
THEOREM WholeOnDisk ==
  ASSUME PhoneFileAssumption
  PROVE  Spec => []DiskHasList
<1>1. FileIInv => DiskHasList
  <2> SUFFICES ASSUME FileIInv, writer = "done", ~faulty
               PROVE  Parse(disk) = [ok |-> TRUE, list |-> list]
    BY DEF DiskHasList
  <2>1. PICK l \in Seq(Phones) : l = list BY DEF FileIInv, FileTypes
  <2>2. disk = Serialize(l) BY <2>1 DEF FileIInv, File
  <2> QED BY <2>1, <2>2, ListRead
<1> QED BY <1>1, FileInvariance, PTL

\* For any lists and any sizes of the writes and the reads: a reader that reports
\* no failure while a run crashes, fails or empties the file and fills it again
\* has printed the first phones of that run's list.
THEOREM ShownWasWritten ==
  ASSUME PhoneFileAssumption
  PROVE  Spec => []ShowsWhatWasWritten
<1>1. FileIInv => ShowsWhatWasWritten BY DEF FileIInv, Reading
<1> QED BY <1>1, FileInvariance, PTL

-----------------------------------------------------------------------------
(* The statements of the programs of the table.                              *)

\* What follows DROP and CREATE.
Later == {"prepare", "insert", "prepareSelect", "select"}

Words == Later \cup {"drop", "create"}

LEMMA Repeated ==
  ASSUME NEW n \in Nat
  PROVE  /\ Sql!Repeat("insert", n) \in Seq(Words)
         /\ Len(Sql!Repeat("insert", n)) = n
         /\ \A i \in 1..n : Sql!Repeat("insert", n)[i] = "insert"
<1>1. Sql!Repeat("insert", n) \in Seq(Words)
  BY IsASeq DEF Sql!Repeat, Later, Words
<1> QED BY <1>1 DEF Sql!Repeat

\* Rows that are inserted between other statements.
Surround(s, n, u) == (s \o Sql!Repeat("insert", n)) \o u

LEMMA Between ==
  ASSUME NEW s \in Seq(Words), NEW n \in Nat, NEW u \in Seq(Words)
  PROVE  /\ Len(Surround(s, n, u)) = Len(s) + n + Len(u)
         /\ \A i \in 1..(Len(s) + n + Len(u)) :
              Surround(s, n, u)[i] = IF i <= Len(s) THEN s[i]
                     ELSE IF i <= Len(s) + n THEN "insert"
                     ELSE u[i - (Len(s) + n)]
<1> DEFINE r == Sql!Repeat("insert", n)
           t == Surround(s, n, u)
<1>1. r \in Seq(Words) /\ Len(r) = n /\ \A i \in 1..n : r[i] = "insert"
  BY Repeated
<1> HIDE DEF r
<1>2. /\ s \o r \in Seq(Words) /\ Len(s \o r) = Len(s) + n
      /\ \A i \in 1..(Len(s) + n) :
           (s \o r)[i] = IF i <= Len(s) THEN s[i] ELSE r[i - Len(s)]
  BY <1>1, ConcatProperties
<1>3. t = (s \o r) \o u BY DEF r, Surround
<1> DEFINE q == s \o r
<1> HIDE DEF q, t
<1>4. /\ Len(t) = Len(s) + n + Len(u)
      /\ \A i \in 1..(Len(s) + n + Len(u)) :
           t[i] = IF i <= Len(s) + n THEN (s \o r)[i]
                                     ELSE u[i - (Len(s) + n)]
  <2>1. q \in Seq(Words) /\ Len(q) = Len(s) + n /\ t = q \o u
    BY <1>2, <1>3 DEF q
  <2>2. /\ Len(q \o u) = Len(q) + Len(u)
        /\ \A i \in 1..(Len(q) + Len(u)) :
             (q \o u)[i] = IF i <= Len(q) THEN q[i] ELSE u[i - Len(q)]
    BY <2>1, ConcatProperties
  <2> QED BY <2>1, <2>2 DEF q
<1>5. Len(s) \in Nat /\ Len(u) \in Nat BY LenProperties
<1>6. ASSUME NEW i \in 1..(Len(s) + n + Len(u))
      PROVE  t[i] = IF i <= Len(s) THEN s[i]
                    ELSE IF i <= Len(s) + n THEN "insert"
                    ELSE u[i - (Len(s) + n)]
  <2>0. i \in 1..(Len(s) + n + Len(u)) BY <1>4, <1>6
  <2>1. CASE i <= Len(s)
    <3>1. i <= Len(s) + n /\ i \in 1..(Len(s) + n) BY <1>5, <2>0, <2>1
    <3> QED BY <1>2, <1>4, <2>0, <2>1, <3>1
  <2>2. CASE ~(i <= Len(s)) /\ i <= Len(s) + n
    <3>1. i - Len(s) \in 1..n /\ i \in 1..(Len(s) + n) BY <1>5, <2>0, <2>2
    <3>2. t[i] = r[i - Len(s)] BY <1>2, <1>4, <2>0, <2>2, <3>1
    <3> QED BY <1>1, <2>2, <3>1, <3>2
  <2>3. CASE ~(i <= Len(s)) /\ ~(i <= Len(s) + n)
    BY <1>4, <2>0, <2>3
  <2> QED BY <2>1, <2>2, <2>3
<1> QED BY <1>4, <1>6 DEF t

\* The program of CompleteExample2 and that of SimpleExample, step by step.
LEMMA CompleteSteps ==
  ASSUME Sql!MySqlAssumption
  PROVE  LET plan == Sql!Statements["complete"]
         IN  /\ Len(plan) = Count + 5
             /\ plan[1] = "drop" /\ plan[2] = "create" /\ plan[3] = "prepare"
             /\ \A i \in 4..(Count + 3) : plan[i] = "insert"
             /\ plan[Count + 4] = "prepareSelect"
             /\ plan[Count + 5] = "select"
<1> DEFINE s == <<"drop", "create", "prepare">>
           u == <<"prepareSelect", "select">>
           t == Sql!Statements["complete"]
<1>0. Count \in Nat BY DEF Sql!MySqlAssumption
<1>1. t = Surround(s, Count, u)
  BY DEF Sql!Statements, Sql!Kinds, Surround
<1>2. /\ s \in Seq(Words) /\ u \in Seq(Words) /\ Len(s) = 3 /\ Len(u) = 2
      /\ s[1] = "drop" /\ s[2] = "create" /\ s[3] = "prepare"
      /\ u[1] = "prepareSelect" /\ u[2] = "select"
  BY DEF Words, Later
<1> HIDE DEF s, u, t
<1>3. /\ Len(t) = Count + 5
      /\ \A i \in 1..(Count + 5) :
           t[i] = IF i <= 3 THEN s[i]
                  ELSE IF i <= 3 + Count THEN "insert"
                  ELSE u[i - (3 + Count)]
  <2>1. /\ Len(t) = Len(s) + Count + Len(u)
        /\ \A i \in 1..(Len(s) + Count + Len(u)) :
             t[i] = IF i <= Len(s) THEN s[i]
                    ELSE IF i <= Len(s) + Count THEN "insert"
                    ELSE u[i - (Len(s) + Count)]
    BY <1>0, <1>1, <1>2, Between
  <2>2. Len(s) + Count + Len(u) = Count + 5 BY <1>0, <1>2
  <2> QED BY <1>2, <2>1, <2>2
<1>4. /\ \A i \in 4..(Count + 3) : i \in 1..(Count + 5) /\ ~(i <= 3)
                                   /\ i <= 3 + Count
      /\ \A i \in 1..3 : i \in 1..(Count + 5)
      /\ Count + 4 \in 1..(Count + 5) /\ Count + 5 \in 1..(Count + 5)
  BY <1>0
<1>5. t[1] = "drop" /\ t[2] = "create" /\ t[3] = "prepare"
  BY <1>2, <1>3, <1>4
<1>6. t[Count + 4] = "prepareSelect" /\ t[Count + 5] = "select"
  <2>1. ASSUME NEW i \in 1..(Count + 5), NEW j \in {1, 2}, i = Count + 3 + j
        PROVE  t[i] = u[j]
    <3>1. ~(i <= 3) /\ ~(i <= 3 + Count) /\ i - (3 + Count) = j
      BY <1>0, <2>1
    <3> QED BY <1>3, <3>1
  <2>2. Count + 4 = Count + 3 + 1 /\ Count + 5 = Count + 3 + 2 BY <1>0
  <2>3. t[Count + 4] = u[1] BY ONLY <1>4, <2>1, <2>2
  <2>4. t[Count + 5] = u[2] BY ONLY <1>4, <2>1, <2>2
  <2> QED BY <1>2, <2>3, <2>4
<1>7. \A i \in 4..(Count + 3) : t[i] = "insert"
  BY <1>3, <1>4
<1> QED BY <1>3, <1>5, <1>6, <1>7 DEF t

LEMMA SimpleSteps ==
  ASSUME Sql!MySqlAssumption
  PROVE  LET plan == Sql!Statements["simple"]
         IN  /\ Len(plan) = Count + 4
             /\ plan[1] = "drop" /\ plan[2] = "create"
             /\ plan[3] = "insert" /\ plan[4] = "insert"
             /\ plan[5] = "prepare"
             /\ \A i \in 6..(Count + 3) : plan[i] = "insert"
             /\ plan[Count + 4] = "select"
<1> DEFINE s == <<"drop", "create", "insert", "insert", "prepare">>
           u == <<"select">>
           t == Sql!Statements["simple"]
<1>0. Count \in Nat /\ Count >= 2 /\ Count - 2 \in Nat
  BY DEF Sql!MySqlAssumption
<1>1. t = Surround(s, Count - 2, u)
  BY DEF Sql!Statements, Sql!Kinds, Surround
<1>2. /\ s \in Seq(Words) /\ u \in Seq(Words) /\ Len(s) = 5 /\ Len(u) = 1
      /\ s[1] = "drop" /\ s[2] = "create" /\ s[3] = "insert"
      /\ s[4] = "insert" /\ s[5] = "prepare" /\ u[1] = "select"
  BY DEF Words, Later
<1> HIDE DEF s, u, t
<1>3. /\ Len(t) = Count + 4
      /\ \A i \in 1..(Count + 4) :
           t[i] = IF i <= 5 THEN s[i]
                  ELSE IF i <= Count + 3 THEN "insert"
                  ELSE u[i - (Count + 3)]
  <2>0. 5 + (Count - 2) = Count + 3 /\ 5 + (Count - 2) + 1 = Count + 4
    BY <1>0
  <2>1. /\ Len(t) = Len(s) + (Count - 2) + Len(u)
        /\ \A i \in 1..(Len(s) + (Count - 2) + Len(u)) :
             t[i] = IF i <= Len(s) THEN s[i]
                    ELSE IF i <= Len(s) + (Count - 2) THEN "insert"
                    ELSE u[i - (Len(s) + (Count - 2))]
    BY <1>0, <1>1, <1>2, Between
  <2> QED BY <1>2, <2>0, <2>1
<1>4. /\ \A i \in 6..(Count + 3) : i \in 1..(Count + 4) /\ ~(i <= 5)
                                   /\ i <= Count + 3
      /\ \A i \in 1..5 : i \in 1..(Count + 4)
      /\ Count + 4 \in 1..(Count + 4)
  BY <1>0
<1>5. /\ t[1] = "drop" /\ t[2] = "create" /\ t[3] = "insert"
      /\ t[4] = "insert" /\ t[5] = "prepare"
  BY <1>2, <1>3, <1>4
<1>6. t[Count + 4] = "select"
  <2>1. ASSUME NEW i \in 1..(Count + 4), i = Count + 4
        PROVE  t[i] = u[1]
    <3>1. ~(i <= 5) /\ ~(i <= Count + 3) /\ i - (Count + 3) = 1
      BY <1>0, <2>1
    <3> QED BY <1>3, <3>1
  <2> QED BY <1>2, <1>4, <2>1
<1>7. \A i \in 6..(Count + 3) : t[i] = "insert"
  BY <1>3, <1>4
<1> QED BY <1>3, <1>5, <1>6, <1>7 DEF t

\* What a program of the table does at each of its steps.
LEMMA Steps ==
  ASSUME Sql!MySqlAssumption, NEW k \in {"complete", "simple"}
  PROVE  /\ Len(Sql!Statements[k]) \in Nat /\ Len(Sql!Statements[k]) > 2
         /\ Sql!Statements[k][1] = "drop" /\ Sql!Statements[k][2] = "create"
         /\ \A i \in 1..Len(Sql!Statements[k]) :
              i > 2 => Sql!Statements[k][i] \in Later
<1>0. Count \in Nat /\ Count >= 2 BY DEF Sql!MySqlAssumption
<1>1. CASE k = "complete"
  <2>1. ASSUME NEW i \in 1..(Count + 5), i > 2
        PROVE  Sql!Statements[k][i] \in Later
    <3>1. i = 3 \/ i \in 4..(Count + 3) \/ i = Count + 4 \/ i = Count + 5
      BY <1>0, <2>1
    <3> QED BY <1>1, <3>1, CompleteSteps DEF Later
  <2> QED BY <1>0, <1>1, <2>1, CompleteSteps
<1>2. CASE k = "simple"
  <2>1. ASSUME NEW i \in 1..(Count + 4), i > 2
        PROVE  Sql!Statements[k][i] \in Later
    <3>1. i \in {3, 4, 5} \/ i \in 6..(Count + 3) \/ i = Count + 4
      BY <1>0, <2>1
    <3> QED BY <1>2, <3>1, SimpleSteps DEF Later
  <2> QED BY <1>0, <1>2, <2>1, SimpleSteps
<1> QED BY <1>1, <1>2

\* The statements of GitHubSample are others.
LEMMA DocSteps ==
  /\ Len(Sql!Statements["docs"]) = 4
  /\ \A i \in 1..4 :
       Sql!Statements["docs"][i] \in
         {"createCollection", "remove", "add", "find"}
<1>1. Sql!Statements["docs"] = <<"createCollection", "remove", "add", "find">>
  BY DEF Sql!Statements, Sql!Kinds
<1> QED BY <1>1

-----------------------------------------------------------------------------
(* The inductive invariant of the programs of the table.                     *)

SqlTypes ==
  /\ kind \in [Programs -> Sql!Kinds]
  /\ step \in [Programs -> Nat]
  /\ status \in [Programs -> {"running", "done", "failed"}]
  /\ table \in [there : BOOLEAN, by : Programs \cup {NoOne},
                labelled : BOOLEAN]
  /\ unwell \in BOOLEAN

\* A program that runs has a statement to execute; one of the table that has
\* ended has dropped it.
InTurn ==
  \A p \in Programs :
    /\ status[p] = "running" => step[p] \in 1..Len(Sql!Statements[kind[p]])
    /\ status[p] # "running" /\ Sql!OfTable(p) /\ ~unwell => step[p] > 1

\* Who made the table that is there has not failed: it has the columns that its
\* maker's statements name.
Made ==
  table.there /\ table.by # NoOne /\ ~unwell =>
    /\ Sql!OfTable(table.by)
    /\ step[table.by] > 2
    /\ status[table.by] # "failed"
    /\ table.labelled = Sql!Labelled(kind[table.by])

\* Since the first DROP either the table is there that one of the programs has
\* made, or one of them is about to make it.
OneMaker ==
  ~unwell /\ (\E p \in Programs : Sql!OfTable(p) /\ step[p] > 1) =>
    \/ table.there /\ table.by # NoOne
    \/ ~table.there /\ \E p \in Programs :
                         Sql!OfTable(p) /\ status[p] = "running" /\ step[p] = 2

SqlIInv == SqlTypes /\ InTurn /\ Made /\ OneMaker

LEMMA InitIInv ==
  ASSUME Sql!MySqlAssumption, Sql!Init
  PROVE  SqlIInv
<1>1. SqlTypes BY DEF Sql!Init, SqlTypes
<1>2. InTurn
  <2> SUFFICES ASSUME NEW p \in Programs
               PROVE  1 \in 1..Len(Sql!Statements[kind[p]])
    BY DEF Sql!Init, InTurn
  <2>1. kind[p] \in Sql!Kinds BY DEF Sql!Init
  <2> QED BY <2>1, Steps, DocSteps DEF Sql!Kinds
<1>3. Made /\ OneMaker BY DEF Sql!Init, Made, OneMaker
<1> QED BY <1>1, <1>2, <1>3 DEF SqlIInv

LEMMA Larger ==
  ASSUME NEW n \in Nat, n > 2
  PROVE  n # 1 /\ n # 2
OBVIOUS

\* A statement's name tells which kind of program executes it, and when.
LEMMA WhoseStatement ==
  ASSUME Sql!MySqlAssumption, SqlTypes, InTurn,
         NEW p \in Programs, status[p] = "running"
  PROVE  /\ step[p] \in Nat /\ step[p] >= 1
         /\ step[p] <= Len(Sql!Statements[kind[p]])
         /\ Sql!OfTable(p) =>
              \/ step[p] = 1 /\ Sql!Statement(p) = "drop"
              \/ step[p] = 2 /\ Sql!Statement(p) = "create"
              \/ step[p] > 2 /\ Sql!Statement(p) \in Later
         /\ Sql!OfTable(p) => Len(Sql!Statements[kind[p]]) > 2
         /\ ~Sql!OfTable(p) => Sql!Statement(p) \in
                                 {"createCollection", "remove", "add", "find"}
<1>1. step[p] \in 1..Len(Sql!Statements[kind[p]]) /\ kind[p] \in Sql!Kinds
  BY DEF SqlTypes, InTurn
<1>2. CASE kind[p] = "docs"
  BY <1>1, <1>2, DocSteps DEF Sql!OfTable, Sql!Statement
<1>3. CASE kind[p] \in {"complete", "simple"}
  <2>1. /\ Len(Sql!Statements[kind[p]]) \in Nat
        /\ Len(Sql!Statements[kind[p]]) > 2
        /\ Sql!Statements[kind[p]][1] = "drop"
        /\ Sql!Statements[kind[p]][2] = "create"
        /\ \A i \in 1..Len(Sql!Statements[kind[p]]) :
             i > 2 => Sql!Statements[kind[p]][i] \in Later
    BY <1>3, Steps
  <2>2. step[p] = 1 \/ step[p] = 2 \/ step[p] > 2
    BY <1>1, <2>1
  <2>3. Sql!OfTable(p) BY <1>3 DEF Sql!OfTable
  <2>7. /\ step[p] \in Nat /\ step[p] >= 1
        /\ step[p] <= Len(Sql!Statements[kind[p]])
    BY <1>1, <2>1
  <2>4. step[p] = 1 => Sql!Statement(p) = "drop" BY <2>1 DEF Sql!Statement
  <2>5. step[p] = 2 => Sql!Statement(p) = "create" BY <2>1 DEF Sql!Statement
  <2>6. step[p] > 2 => Sql!Statement(p) \in Later
    BY <1>1, <2>1 DEF Sql!Statement
  <2>8. \/ step[p] = 1 /\ Sql!Statement(p) = "drop"
        \/ step[p] = 2 /\ Sql!Statement(p) = "create"
        \/ step[p] > 2 /\ Sql!Statement(p) \in Later
    BY <2>2, <2>4, <2>5, <2>6, Zenon
  <2>9. Len(Sql!Statements[kind[p]]) > 2 BY <2>1
  <2> QED BY <2>3, <2>7, <2>8, <2>9
<1> QED BY <1>1, <1>2, <1>3 DEF Sql!Kinds

\* A program that has its table behind it, or none, may go on.
LEMMA AdvanceIInv ==
  ASSUME Sql!MySqlAssumption, SqlIInv,
         NEW p \in Programs, status[p] = "running",
         Sql!OfTable(p) => step[p] > 2,
         Sql!Advance(p), UNCHANGED <<kind, table, unwell>>
  PROVE  SqlIInv'
<1>0. SqlTypes /\ InTurn /\ Made /\ OneMaker BY DEF SqlIInv
<1>1. /\ step[p] \in Nat /\ step[p] >= 1
      /\ step[p] <= Len(Sql!Statements[kind[p]])
  BY <1>0, WhoseStatement
<1>2. /\ step' = [step EXCEPT ![p] = step[p] + 1]
      /\ status' = [status EXCEPT ![p] =
                      IF step[p] = Len(Sql!Statements[kind[p]]) THEN "done"
                                                            ELSE "running"]
  BY DEF Sql!Advance
<1>3. SqlTypes' BY <1>0, <1>1, <1>2 DEF SqlTypes
<1>4. \A q \in Programs : q # p => step'[q] = step[q] /\ status'[q] = status[q]
  BY <1>0, <1>2 DEF SqlTypes
<1>5. /\ step'[p] = step[p] + 1
      /\ status'[p] = IF step[p] = Len(Sql!Statements[kind[p]]) THEN "done"
                                                            ELSE "running"
  BY <1>0, <1>2 DEF SqlTypes
<1>6. InTurn'
  <2> SUFFICES ASSUME NEW q \in Programs
               PROVE  /\ status'[q] = "running" =>
                           step'[q] \in 1..Len(Sql!Statements[kind[q]])
                      /\ status'[q] # "running" /\ Sql!OfTable(q) /\ ~unwell
                           => step'[q] > 1
    BY DEF InTurn, Sql!OfTable
  <2>1. CASE q = p
    <3>1. step'[q] > 1 BY <1>1, <1>5, <2>1
    <3>2. ASSUME status'[q] = "running"
          PROVE  step'[q] \in 1..Len(Sql!Statements[kind[q]])
      <4>1. step[p] # Len(Sql!Statements[kind[p]]) BY <1>5, <2>1, <3>2
      <4>2. Len(Sql!Statements[kind[p]]) \in Nat
        BY <1>0, Steps, DocSteps DEF SqlTypes, Sql!Kinds
      <4> QED BY <1>1, <1>5, <2>1, <4>1, <4>2
    <3> QED BY <3>1, <3>2
  <2>2. CASE q # p BY <1>0, <1>4, <2>2 DEF InTurn
  <2> QED BY <2>1, <2>2
<1>7. Made'
  <2> SUFFICES ASSUME table.there, table.by # NoOne, ~unwell
               PROVE  /\ Sql!OfTable(table.by) /\ step'[table.by] > 2
                      /\ status'[table.by] # "failed"
                      /\ table.labelled = Sql!Labelled(kind[table.by])
    BY DEF Made, Sql!OfTable
  <2>1. /\ Sql!OfTable(table.by) /\ step[table.by] > 2
        /\ status[table.by] # "failed"
        /\ table.labelled = Sql!Labelled(kind[table.by])
    BY <1>0 DEF Made
  <2>2. table.by \in Programs BY <1>0 DEF SqlTypes
  <2>3. CASE table.by = p BY <1>1, <1>5, <2>1, <2>3
  <2>4. CASE table.by # p BY <1>4, <2>1, <2>2, <2>4
  <2> QED BY <2>3, <2>4
<1>8. OneMaker'
  <2> SUFFICES ASSUME ~unwell, NEW q \in Programs, Sql!OfTable(q), step'[q] > 1
               PROVE  \/ table.there /\ table.by # NoOne
                      \/ ~table.there /\ \E r \in Programs :
                           /\ Sql!OfTable(r) /\ status'[r] = "running"
                           /\ step'[r] = 2
    BY DEF OneMaker, Sql!OfTable
  <2>1. step[q] > 1 BY <1>1, <1>4, <1>5
  <2>2. CASE table.there /\ table.by # NoOne BY <2>2
  <2>3. CASE ~(table.there /\ table.by # NoOne)
    <3>1. PICK r \in Programs : /\ ~table.there
                                /\ Sql!OfTable(r) /\ status[r] = "running"
                                /\ step[r] = 2
      BY <1>0, <2>1, <2>3 DEF OneMaker
    <3>2. r # p BY <3>1
    <3> QED BY <1>4, <3>1, <3>2
  <2> QED BY <2>2, <2>3
<1> QED BY <1>3, <1>6, <1>7, <1>8 DEF SqlIInv

\* A program may fail that has not made the table which is there, and is not
\* about to make it.
LEMMA ThrowIInv ==
  ASSUME Sql!MySqlAssumption, SqlIInv,
         NEW p \in Programs, status[p] = "running",
         Sql!OfTable(p) => step[p] > 1,
         table.there /\ ~unwell => table.by # p,
         ~table.there /\ Sql!OfTable(p) => step[p] # 2,
         Sql!Throw(p), UNCHANGED <<kind, table, unwell>>
  PROVE  SqlIInv'
<1>0. SqlTypes /\ InTurn /\ Made /\ OneMaker BY DEF SqlIInv
<1>1. step' = step /\ status' = [status EXCEPT ![p] = "failed"]
  BY DEF Sql!Throw
<1>2. SqlTypes' BY <1>0, <1>1 DEF SqlTypes
<1>3. /\ status'[p] = "failed"
      /\ \A q \in Programs : q # p => status'[q] = status[q]
  BY <1>0, <1>1 DEF SqlTypes
<1>4. InTurn' BY <1>0, <1>1, <1>3 DEF InTurn, Sql!OfTable
<1>5. Made'
  <2> SUFFICES ASSUME table.there, table.by # NoOne, ~unwell
               PROVE  /\ Sql!OfTable(table.by) /\ step'[table.by] > 2
                      /\ status'[table.by] # "failed"
                      /\ table.labelled = Sql!Labelled(kind[table.by])
    BY DEF Made, Sql!OfTable
  <2>1. table.by \in Programs /\ table.by # p BY <1>0 DEF SqlTypes
  <2> QED BY <1>0, <1>1, <1>3, <2>1 DEF Made
<1>6. OneMaker'
  <2> SUFFICES ASSUME ~unwell, NEW q \in Programs, Sql!OfTable(q), step'[q] > 1
               PROVE  \/ table.there /\ table.by # NoOne
                      \/ ~table.there /\ \E r \in Programs :
                           /\ Sql!OfTable(r) /\ status'[r] = "running"
                           /\ step'[r] = 2
    BY DEF OneMaker, Sql!OfTable
  <2>1. step[q] > 1 BY <1>1
  <2>2. CASE table.there /\ table.by # NoOne BY <2>2
  <2>3. CASE ~(table.there /\ table.by # NoOne)
    <3>1. PICK r \in Programs : /\ ~table.there
                                /\ Sql!OfTable(r) /\ status[r] = "running"
                                /\ step[r] = 2
      BY <1>0, <2>1, <2>3 DEF OneMaker
    <3>2. r # p BY <3>1
    <3> QED BY <1>1, <1>3, <3>1, <3>2
  <2> QED BY <2>2, <2>3
<1> QED BY <1>2, <1>4, <1>5, <1>6 DEF SqlIInv

\* Every statement keeps the invariant.
LEMMA DropIInv ==
  ASSUME Sql!MySqlAssumption, SqlIInv, NEW p \in Programs, Sql!Drop(p)
  PROVE  SqlIInv'
<1>0. SqlTypes /\ InTurn /\ Made /\ OneMaker BY DEF SqlIInv
<1>1. status[p] = "running" /\ Sql!Statement(p) = "drop" /\ Sql!Advance(p)
      /\ UNCHANGED <<kind, unwell>>
      /\ table' = [there |-> FALSE, by |-> NoOne, labelled |-> FALSE]
  BY DEF Sql!Drop, Sql!At
<1>2. Sql!OfTable(p) /\ step[p] = 1 /\ Len(Sql!Statements[kind[p]]) > 2
      /\ Len(Sql!Statements[kind[p]]) \in Nat
  <2>1. Sql!OfTable(p) /\ step[p] = 1 /\ Len(Sql!Statements[kind[p]]) > 2
    BY <1>0, <1>1, WhoseStatement DEF Later
  <2>2. Len(Sql!Statements[kind[p]]) \in Nat
    BY <1>0, Steps, DocSteps DEF SqlTypes, Sql!Kinds
  <2> QED BY <2>1, <2>2
<1>3. /\ step' = [step EXCEPT ![p] = 2]
      /\ status' = status
  <2>1. step[p] # Len(Sql!Statements[kind[p]]) BY <1>2, Larger
  <2>2. status' = [status EXCEPT ![p] = status[p]]
    BY <1>1, <2>1 DEF Sql!Advance
  <2>3. step' = [step EXCEPT ![p] = step[p] + 1] BY <1>1 DEF Sql!Advance
  <2> QED BY <1>0, <1>2, <2>2, <2>3 DEF SqlTypes
<1>4. /\ step'[p] = 2
      /\ \A q \in Programs : q # p => step'[q] = step[q]
  BY <1>0, <1>3 DEF SqlTypes
<1>5. SqlTypes' BY <1>0, <1>1, <1>3 DEF SqlTypes
<1>6. InTurn'
  <2> SUFFICES ASSUME NEW q \in Programs
               PROVE  /\ status[q] = "running" =>
                           step'[q] \in 1..Len(Sql!Statements[kind[q]])
                      /\ status[q] # "running" /\ Sql!OfTable(q) /\ ~unwell
                           => step'[q] > 1
    BY <1>1, <1>3 DEF InTurn, Sql!OfTable
  <2>1. CASE q = p BY <1>2, <1>4, <2>1
  <2>2. CASE q # p BY <1>0, <1>4, <2>2 DEF InTurn
  <2> QED BY <2>1, <2>2
<1>7. Made' BY <1>1 DEF Made
<1>8. OneMaker'
  <2>1. ~table'.there BY <1>1
  <2>2. Sql!OfTable(p)' /\ status'[p] = "running" /\ step'[p] = 2
    BY <1>1, <1>2, <1>3, <1>4 DEF Sql!OfTable
  <2> QED BY <2>1, <2>2 DEF OneMaker
<1> QED BY <1>5, <1>6, <1>7, <1>8 DEF SqlIInv

LEMMA CreateIInv ==
  ASSUME Sql!MySqlAssumption, SqlIInv, NEW p \in Programs, Sql!Create(p)
  PROVE  SqlIInv'
<1>0. SqlTypes /\ InTurn /\ Made /\ OneMaker BY DEF SqlIInv
<1>1. status[p] = "running" /\ Sql!Statement(p) = "create"
      /\ UNCHANGED <<kind, unwell>>
  BY DEF Sql!Create, Sql!At
<1>2. Sql!OfTable(p) /\ step[p] = 2 /\ Len(Sql!Statements[kind[p]]) > 2
      /\ Len(Sql!Statements[kind[p]]) \in Nat
  <2>1. Sql!OfTable(p) /\ step[p] = 2 /\ Len(Sql!Statements[kind[p]]) > 2
    BY <1>0, <1>1, WhoseStatement DEF Later
  <2>2. Len(Sql!Statements[kind[p]]) \in Nat
    BY <1>0, Steps, DocSteps DEF SqlTypes, Sql!Kinds
  <2> QED BY <2>1, <2>2
<1>3. CASE table.there
  <2>1. Sql!Throw(p) /\ UNCHANGED table BY <1>3 DEF Sql!Create
  <2>2. ASSUME ~unwell PROVE table.by # p
    <3>1. table.by # NoOne BY <1>0, <1>2, <2>2, <1>3 DEF OneMaker
    <3>2. step[table.by] > 2 BY <1>0, <1>3, <2>2, <3>1 DEF Made
    <3> QED BY <1>2, <3>2
  <2> QED BY <1>1, <1>2, <1>3, <2>1, <2>2, ThrowIInv
<1>4. CASE ~table.there
  <2>1. Sql!Advance(p) /\ table' = [there |-> TRUE, by |-> p,
                                labelled |-> Sql!Labelled(kind[p])]
    BY <1>4 DEF Sql!Create
  <2>2. /\ step' = [step EXCEPT ![p] = 3]
        /\ status' = status
    <3>1. \/ step[p] = Len(Sql!Statements[kind[p]])
          \/ status' = [status EXCEPT ![p] = status[p]]
      BY <2>1 DEF Sql!Advance
    <3>2. step[p] # Len(Sql!Statements[kind[p]]) BY <1>2, Larger
    <3>3. step' = [step EXCEPT ![p] = step[p] + 1] BY <2>1 DEF Sql!Advance
    <3> QED BY <1>0, <1>2, <3>1, <3>2, <3>3 DEF SqlTypes
  <2>3. /\ step'[p] = 3
        /\ \A q \in Programs : q # p => step'[q] = step[q]
    BY <1>0, <2>2 DEF SqlTypes
  <2>4. SqlTypes'
    <3>1. Sql!Labelled(kind[p]) \in BOOLEAN BY DEF Sql!Labelled
    <3> QED BY <1>0, <1>1, <2>1, <2>2, <3>1 DEF SqlTypes
  <2>5. InTurn'
    <3> SUFFICES ASSUME NEW q \in Programs
                 PROVE  /\ status[q] = "running" =>
                             step'[q] \in 1..Len(Sql!Statements[kind[q]])
                        /\ status[q] # "running" /\ Sql!OfTable(q) /\ ~unwell
                             => step'[q] > 1
      BY <1>1, <2>2 DEF InTurn, Sql!OfTable
    <3>1. CASE q = p BY <1>2, <2>3, <3>1
    <3>2. CASE q # p BY <1>0, <2>3, <3>2 DEF InTurn
    <3> QED BY <3>1, <3>2
  <2>6. table'.there /\ table'.by = p /\ table'.labelled = Sql!Labelled(kind[p])
    BY <2>1
  <2>7. Made'
    <3>1. Sql!OfTable(p)' BY <1>1, <1>2 DEF Sql!OfTable
    <3>2. step'[p] > 2 /\ status'[p] # "failed" BY <1>1, <2>2, <2>3
    <3> QED BY <1>1, <2>6, <3>1, <3>2 DEF Made
  <2>8. OneMaker' BY <2>6 DEF OneMaker, Sql!MySqlAssumption
  <2> QED BY <2>4, <2>5, <2>7, <2>8 DEF SqlIInv
<1> QED BY <1>3, <1>4

\* A statement on the table succeeds, or fails when somebody else has made it.
LEMMA UseIInv ==
  ASSUME Sql!MySqlAssumption, SqlIInv, NEW p \in Programs,
         Sql!Prepare(p) \/ Sql!Insert(p) \/ Sql!Select(p)
  PROVE  SqlIInv'
<1>0. SqlTypes /\ InTurn /\ Made /\ OneMaker BY DEF SqlIInv
<1>1. /\ status[p] = "running" /\ Sql!Statement(p) \in Later
      /\ UNCHANGED <<kind, table, unwell>>
      /\ IF Sql!Fits(p) THEN Sql!Advance(p) ELSE Sql!Throw(p)
  BY DEF Sql!Prepare, Sql!Insert, Sql!Select, Sql!At, Later
<1>2. Sql!OfTable(p) => step[p] > 2
  BY <1>0, <1>1, WhoseStatement DEF Later
<1>3. Sql!OfTable(p)
  BY <1>0, <1>1, WhoseStatement DEF Later
<1>4. CASE Sql!Fits(p) BY <1>1, <1>2, <1>4, AdvanceIInv
<1>5. CASE ~Sql!Fits(p)
  <2>1. ASSUME table.there, ~unwell PROVE table.by # p
    <3> SUFFICES ASSUME table.by = p PROVE FALSE
      OBVIOUS
    <3>1. p # NoOne BY DEF Sql!MySqlAssumption
    <3>2. table.labelled = Sql!Labelled(kind[p]) BY <1>0, <2>1, <3>1 DEF Made
    <3> QED BY <1>5, <2>1, <3>2 DEF Sql!Fits
  <2>2. step[p] \in Nat /\ step[p] > 2 BY <1>0, <1>2, <1>3 DEF SqlTypes
  <2> QED BY <1>1, <1>5, <2>1, <2>2, ThrowIInv
<1> QED BY <1>4, <1>5

\* The collection has nothing to do with the table.
LEMMA DocsIInv ==
  ASSUME Sql!MySqlAssumption, SqlIInv, NEW p \in Programs,
         Sql!CreateCollection(p) \/ Sql!Remove(p) \/ Sql!Add(p) \/ Sql!Find(p)
  PROVE  SqlIInv'
<1>0. SqlTypes /\ InTurn /\ Made /\ OneMaker BY DEF SqlIInv
<1>1. /\ status[p] = "running"
      /\ Sql!Statement(p) \in {"createCollection", "remove", "add", "find"}
      /\ UNCHANGED <<kind, table, unwell>>
      /\ Sql!Advance(p) \/ Sql!Throw(p)
  BY DEF Sql!CreateCollection, Sql!Remove, Sql!Add, Sql!Find, Sql!At
<1>2. ~Sql!OfTable(p)
  BY <1>0, <1>1, WhoseStatement DEF Later
<1>3. ASSUME table.there, ~unwell PROVE table.by # p
  BY <1>0, <1>2, <1>3 DEF Made, Sql!MySqlAssumption
<1> QED BY <1>1, <1>2, <1>3, AdvanceIInv, ThrowIInv

LEMMA NextIInv ==
  ASSUME Sql!MySqlAssumption, SqlIInv, [Sql!Next]_Sql!vars
  PROVE  SqlIInv'
<1>1. ASSUME NEW p \in Programs, Sql!Execute(p) PROVE SqlIInv'
  BY <1>1, DropIInv, CreateIInv, UseIInv, DocsIInv DEF Sql!Execute
<1>2. ASSUME NEW p \in Programs, Sql!Disconnect(p) PROVE SqlIInv'
  <2>1. /\ step' = step /\ status' = [status EXCEPT ![p] = "failed"]
        /\ unwell' /\ UNCHANGED <<kind, table>>
    BY <1>2 DEF Sql!Disconnect, Sql!Throw
  <2>2. SqlTypes' BY <2>1 DEF SqlIInv, SqlTypes
  <2>3. InTurn' /\ Made' /\ OneMaker'
    BY <2>1 DEF SqlIInv, SqlTypes, InTurn, Made, OneMaker
  <2> QED BY <2>2, <2>3 DEF SqlIInv
<1>3. CASE UNCHANGED Sql!vars
  BY <1>3 DEF Sql!vars, Sql!progVars, SqlIInv, SqlTypes, InTurn, Made,
     OneMaker, Sql!OfTable
<1> QED BY <1>1, <1>2, <1>3 DEF Sql!Next

LEMMA SqlInvariance ==
  ASSUME Sql!MySqlAssumption
  PROVE  Sql!Spec => []SqlIInv
<1>1. Sql!Init => SqlIInv BY InitIInv
<1>2. SqlIInv /\ [Sql!Next]_Sql!vars => SqlIInv' BY NextIInv
<1> QED BY <1>1, <1>2, PTL DEF Sql!Spec

-----------------------------------------------------------------------------
(* The collection has the documents of one run.                            *)

OneRun ==
  /\ seen = [p \in Programs |-> seen[p]]
  /\ docs = {} \/ \E q \in Programs : docs = [by : {q}, id : 1..5]
  /\ Sql!OneRunFound

LEMMA FoundOfOneRun ==
  ASSUME OneRun
  PROVE  LET found == {d \in docs : d.id \in Sql!Found}
         IN  found = {} \/ \E q \in Programs :
                             found = [by : {q}, id : Sql!Found]
<1>1. CASE docs = {} BY <1>1
<1>2. ASSUME NEW q \in Programs, docs = [by : {q}, id : 1..5]
      PROVE  {d \in docs : d.id \in Sql!Found} = [by : {q}, id : Sql!Found]
  <2>1. Sql!Found \subseteq 1..5 BY DEF Sql!Found
  <2>2. ASSUME NEW d \in docs, d.id \in Sql!Found
        PROVE  d \in [by : {q}, id : Sql!Found]
    <3>1. PICK i \in 1..5 : d = [by |-> q, id |-> i] BY <1>2
    <3>2. i \in Sql!Found BY <2>2, <3>1
    <3> QED BY <3>1, <3>2
  <2>3. ASSUME NEW d \in [by : {q}, id : Sql!Found]
        PROVE  d \in docs /\ d.id \in Sql!Found
    <3>1. PICK i \in Sql!Found : d = [by |-> q, id |-> i] OBVIOUS
    <3> QED BY <1>2, <2>1, <3>1
  <2> QED BY <2>2, <2>3
<1> QED BY <1>1, <1>2 DEF OneRun

\* A run adds its documents only when no others are there.
LEMMA AddsToNone ==
  ASSUME OneRun, ~\E d \in docs : d.id = Sql!WithId
  PROVE  docs = {}
<1>1. ASSUME NEW q \in Programs, docs = [by : {q}, id : 1..5] PROVE FALSE
  <2>1. [by |-> q, id |-> 5] \in docs BY <1>1
  <2>2. [by |-> q, id |-> 5].id = Sql!WithId BY DEF Sql!WithId
  <2> QED BY <2>1, <2>2
<1> QED BY <1>1 DEF OneRun

LEMMA OneRunNext ==
  ASSUME Sql!MySqlAssumption, SqlIInv, OneRun, [Sql!Next]_Sql!vars
  PROVE  OneRun'
<1> USE DEF Sql!OneRunFound
<1>0. SqlTypes /\ InTurn BY DEF SqlIInv
<1>1. ASSUME NEW p \in Programs, Sql!Execute(p) PROVE OneRun'
  <2>1. CASE Sql!Drop(p) \/ Sql!Create(p) \/ Sql!Prepare(p) \/ Sql!Insert(p)
    <3>1. UNCHANGED <<kind, docs, seen>>
      BY <2>1 DEF Sql!Drop, Sql!Create, Sql!Prepare, Sql!Insert
    <3> QED BY <3>1 DEF OneRun
  <2>2. CASE Sql!Select(p)
    <3>1. kind[p] # "docs"
      BY <1>0, <2>2, WhoseStatement DEF Sql!Select, Sql!At, Later, Sql!OfTable
    <3>2. UNCHANGED <<kind, docs>>
          /\ (UNCHANGED seen \/ seen' = [seen EXCEPT ![p] = rows])
      BY <2>2 DEF Sql!Select
    <3> QED BY <3>1, <3>2 DEF OneRun
  <2>3. CASE Sql!CreateCollection(p)
    BY <2>3 DEF Sql!CreateCollection, OneRun
  <2>4. CASE Sql!Remove(p)
    BY <2>4 DEF Sql!Remove, OneRun
  <2>5. CASE Sql!Add(p)
    <3>1. UNCHANGED <<kind, seen>> BY <2>5 DEF Sql!Add
    <3>2. CASE UNCHANGED docs BY <3>1, <3>2 DEF OneRun
    <3>3. CASE ~UNCHANGED docs
      <4>1. ~\E d \in docs : d.id = Sql!WithId BY <2>5, <3>3 DEF Sql!Add
      <4>2. docs' = [by : {p}, id : 1..5]
        BY <2>5, <4>1, AddsToNone DEF Sql!Add
      <4> QED BY <3>1, <4>2 DEF OneRun
    <3> QED BY <3>2, <3>3
  <2>6. CASE Sql!Find(p)
    <3>1. UNCHANGED <<kind, docs>>
          /\ seen' = [seen EXCEPT ![p] = {d \in docs : d.id \in Sql!Found}]
      BY <2>6 DEF Sql!Find
    <3>2. /\ seen' = [q \in Programs |-> seen'[q]]
          /\ seen'[p] = {d \in docs : d.id \in Sql!Found}
          /\ \A q \in Programs : q # p => seen'[q] = seen[q]
      BY <3>1 DEF OneRun
    <3>3. Sql!OneRunFound'
      <4> SUFFICES ASSUME NEW r \in Programs, kind[r] = "docs"
                   PROVE  seen'[r] = {} \/ \E q \in Programs :
                                     seen'[r] = [by : {q}, id : Sql!Found]
        BY <3>1
      <4>1. CASE r = p BY <3>2, <4>1, FoundOfOneRun
      <4>2. CASE r # p BY <3>2, <4>2 DEF OneRun
      <4> QED BY <4>1, <4>2
    <3> QED BY <3>1, <3>2, <3>3 DEF OneRun
  <2> QED BY <1>1, <2>1, <2>2, <2>3, <2>4, <2>5, <2>6 DEF Sql!Execute
<1>2. ASSUME NEW p \in Programs, Sql!Disconnect(p) PROVE OneRun'
  BY <1>2 DEF Sql!Disconnect, OneRun
<1>3. CASE UNCHANGED Sql!vars
  BY <1>3 DEF Sql!vars, Sql!progVars, OneRun
<1> QED BY <1>1, <1>2, <1>3 DEF Sql!Next

-----------------------------------------------------------------------------
(* The table has the rows of the program that made it.                     *)

\* The rows that a program of kind k has inserted before its statement i.
Inserted(k, i) ==
  IF i > Count + 4 THEN Count
  ELSE IF k = "complete" \/ i > 5 THEN IF i > 4 THEN i - 4 ELSE 0
  ELSE IF i > 3 THEN i - 3 ELSE 0

\* A statement INSERT adds a row, no other does, and SELECT is the last of all
\* and comes when the rows are there.
LEMMA Counts ==
  ASSUME Sql!MySqlAssumption, NEW k \in {"complete", "simple"},
         NEW i \in 1..Len(Sql!Statements[k])
  PROVE  /\ Inserted(k, i) \in 0..Count
         /\ Sql!Statements[k][i] = "insert" =>
              /\ Inserted(k, i) + 1 \in 1..Count
              /\ Inserted(k, i + 1) = Inserted(k, i) + 1
         /\ Sql!Statements[k][i] # "insert" =>
              Inserted(k, i + 1) = Inserted(k, i)
         /\ i <= 3 => Inserted(k, i) = 0
         /\ Sql!Statements[k][i] = "select" <=> i = Len(Sql!Statements[k])
         /\ Sql!Statements[k][i] = "select" => Inserted(k, i) = Count
<1>0. Count \in Nat /\ Count >= 2 BY DEF Sql!MySqlAssumption
<1>1. CASE k = "complete"
  <2>0. Len(Sql!Statements[k]) = Count + 5 /\ i \in 1..(Count + 5)
    BY <1>1, CompleteSteps
  <2>1. \/ i \in 1..3 \/ i \in 4..(Count + 3)
        \/ i = Count + 4 \/ i = Count + 5
    BY <1>0, <2>0
  <2>2. CASE i \in 1..3
    <3>1. Sql!Statements[k][i] \in {"drop", "create", "prepare"}
      BY <1>1, <2>2, CompleteSteps
    <3>2. Inserted(k, i) = 0 /\ Inserted(k, i + 1) = 0 /\ i # Count + 5
      BY <1>0, <1>1, <2>2 DEF Inserted
    <3> QED BY <1>0, <2>0, <3>1, <3>2
  <2>3. CASE i \in 4..(Count + 3)
    <3>1. Sql!Statements[k][i] = "insert" BY <1>1, <2>3, CompleteSteps
    <3>2. Inserted(k, i) = i - 4 /\ Inserted(k, i + 1) = i - 3
      BY <1>0, <1>1, <2>3 DEF Inserted
    <3>3. i # Count + 5 /\ ~(i <= 3) /\ i - 4 + 1 = i - 3
          /\ i - 3 \in 1..Count /\ i - 4 \in 0..Count
      BY <1>0, <2>3
    <3> QED BY <2>0, <3>1, <3>2, <3>3
  <2>4. CASE i = Count + 4
    <3>1. Sql!Statements[k][i] = "prepareSelect" BY <1>1, <2>4, CompleteSteps
    <3>2. Inserted(k, i) = Count /\ Inserted(k, i + 1) = Count
      BY <1>0, <1>1, <2>4 DEF Inserted
    <3>3. i # Count + 5 /\ ~(i <= 3) BY <1>0, <2>4
    <3> QED BY <1>0, <2>0, <3>1, <3>2, <3>3
  <2>5. CASE i = Count + 5
    <3>1. Sql!Statements[k][i] = "select" BY <1>1, <2>5, CompleteSteps
    <3>2. Inserted(k, i) = Count /\ Inserted(k, i + 1) = Count /\ ~(i <= 3)
      BY <1>0, <1>1, <2>5 DEF Inserted
    <3> QED BY <1>0, <2>0, <2>5, <3>1, <3>2
  <2> QED BY <2>1, <2>2, <2>3, <2>4, <2>5
<1>2. CASE k = "simple"
  <2>0. Len(Sql!Statements[k]) = Count + 4 /\ i \in 1..(Count + 4)
    BY <1>2, SimpleSteps
  <2>1. i \in 1..2 \/ i \in 3..4 \/ i = 5 \/ i \in 6..(Count + 3)
        \/ i = Count + 4
    BY <1>0, <2>0
  <2>2. CASE i \in 1..2
    <3>1. Sql!Statements[k][i] \in {"drop", "create"} BY <1>2, <2>2, SimpleSteps
    <3>2. Inserted(k, i) = 0 /\ Inserted(k, i + 1) = 0 /\ i # Count + 4
      BY <1>0, <1>2, <2>2 DEF Inserted
    <3> QED BY <1>0, <2>0, <3>1, <3>2
  <2>3. CASE i \in 3..4
    <3>1. Sql!Statements[k][i] = "insert"
      <4>1. i = 3 \/ i = 4 BY <2>3
      <4> QED BY <1>2, <4>1, SimpleSteps
    <3>2. Inserted(k, i) = i - 3 /\ Inserted(k, i + 1) = i - 2
      BY <1>0, <1>2, <2>3 DEF Inserted
    <3>3. i # Count + 4 /\ i - 3 + 1 = i - 2 /\ i - 2 \in 1..Count
          /\ i - 3 \in 0..Count /\ (i <= 3 => i - 3 = 0)
      BY <1>0, <2>3
    <3> QED BY <2>0, <3>1, <3>2, <3>3
  <2>4. CASE i = 5
    <3>1. Sql!Statements[k][i] = "prepare" BY <1>2, <2>4, SimpleSteps
    <3>2. Inserted(k, i) = 2 /\ Inserted(k, i + 1) = 2 /\ i # Count + 4
      BY <1>0, <1>2, <2>4 DEF Inserted
    <3> QED BY <1>0, <2>0, <2>4, <3>1, <3>2
  <2>5. CASE i \in 6..(Count + 3)
    <3>1. Sql!Statements[k][i] = "insert" BY <1>2, <2>5, SimpleSteps
    <3>2. Inserted(k, i) = i - 4 /\ Inserted(k, i + 1) = i - 3
      BY <1>0, <1>2, <2>5 DEF Inserted
    <3>3. i # Count + 4 /\ ~(i <= 3) /\ i - 4 + 1 = i - 3
          /\ i - 3 \in 1..Count /\ i - 4 \in 0..Count
      BY <1>0, <2>5
    <3> QED BY <2>0, <3>1, <3>2, <3>3
  <2>6. CASE i = Count + 4
    <3>1. Sql!Statements[k][i] = "select" BY <1>2, <2>6, SimpleSteps
    <3>2. Inserted(k, i) = Count /\ Inserted(k, i + 1) = Count /\ ~(i <= 3)
      BY <1>0, <1>2, <2>6 DEF Inserted
    <3> QED BY <1>0, <2>0, <2>6, <3>1, <3>2
  <2> QED BY <2>1, <2>2, <2>3, <2>4, <2>5, <2>6
<1> QED BY <1>1, <1>2

\* The numbers of the rows of p among those of s.
Numbers(s, p) == {r.id : r \in {r \in s : r.by = p}}

StoreTypes ==
  /\ given \in [Programs -> 0..Count]
  /\ rows \in SUBSET Sql!Rows
  /\ docs \in SUBSET Sql!Docs
  /\ seen \in [Programs -> SUBSET (Sql!Rows \cup Sql!Docs)]

\* How far a program has come with its rows follows from its next statement.
Counted ==
  \A p \in Programs :
    Sql!OfTable(p) => given[p] = Inserted(kind[p], step[p])

\* A table that is not there has no rows and no maker, and one that a program
\* has made has all the rows that it has inserted: it can have put none of them
\* into another's table.
Filled ==
  /\ ~table.there => rows = {} /\ table.by = NoOne
  /\ \A p \in Programs :
       table.by = p => Sql!OfTable(p) /\ Numbers(rows, p) = 1..given[p]

Kept == StoreTypes /\ Counted /\ Filled /\ Sql!MakerShowsAll

\* The statement of a program of the table, and what follows for its count.
LEMMA AtStatement ==
  ASSUME Sql!MySqlAssumption, SqlIInv, Counted,
         NEW p \in Programs, status[p] = "running", Sql!OfTable(p)
  PROVE  /\ Sql!Statement(p) = "insert" =>
              /\ given[p] + 1 \in 1..Count
              /\ Inserted(kind[p], step[p] + 1) = given[p] + 1
         /\ Sql!Statement(p) # "insert" =>
              Inserted(kind[p], step[p] + 1) = given[p]
         /\ Sql!Statement(p) = "create" => given[p] = 0
         /\ Sql!Statement(p) = "select" <=>
              step[p] = Len(Sql!Statements[kind[p]])
         /\ Sql!Statement(p) = "select" => given[p] = Count
<1>0. SqlTypes /\ InTurn BY DEF SqlIInv
<1>1. kind[p] \in {"complete", "simple"}
  BY <1>0 DEF SqlTypes, Sql!Kinds, Sql!OfTable
<1>2. step[p] \in 1..Len(Sql!Statements[kind[p]]) BY <1>0 DEF InTurn
<1>3. given[p] = Inserted(kind[p], step[p]) BY DEF Counted
<1>4. Sql!Statement(p) = Sql!Statements[kind[p]][step[p]] BY DEF Sql!Statement
<1>5. Sql!Statement(p) = "create" => step[p] <= 3
  BY <1>0, WhoseStatement DEF Later
<1> QED BY <1>1, <1>2, <1>3, <1>4, <1>5, Counts

\* A statement that inserts nothing keeps the counts, whether it succeeds or
\* not, and only SELECT brings a program of the table to its end.
LEMMA OtherStatement ==
  ASSUME Sql!MySqlAssumption, SqlIInv, Counted,
         NEW p \in Programs, status[p] = "running", Sql!Statement(p) # "insert",
         Sql!Advance(p) \/ Sql!Throw(p), UNCHANGED <<kind, given>>
  PROVE  /\ Counted'
         /\ \A q \in Programs : q # p => status'[q] = status[q]
         /\ Sql!OfTable(p) /\ status'[p] = "done" => Sql!Statement(p) = "select"
<1>0. SqlTypes /\ InTurn BY DEF SqlIInv
<1>1. CASE Sql!Advance(p)
  <2>1. /\ step'[p] = step[p] + 1
        /\ \A q \in Programs : q # p => step'[q] = step[q]
        /\ \A q \in Programs : q # p => status'[q] = status[q]
        /\ status'[p] = "done" => step[p] = Len(Sql!Statements[kind[p]])
    BY <1>0, <1>1 DEF Sql!Advance, SqlTypes
  <2>2. Counted'
    <3> SUFFICES ASSUME NEW q \in Programs, Sql!OfTable(q)
                 PROVE  given[q] = Inserted(kind[q], step'[q])
      BY DEF Counted, Sql!OfTable
    <3>1. CASE q = p BY <2>1, <3>1, AtStatement
    <3>2. CASE q # p BY <2>1, <3>2 DEF Counted
    <3> QED BY <3>1, <3>2
  <2> QED BY <2>1, <2>2, AtStatement
<1>2. CASE Sql!Throw(p)
  <2>1. step' = step /\ status' = [status EXCEPT ![p] = "failed"]
    BY <1>2 DEF Sql!Throw
  <2>2. Counted' BY <2>1 DEF Counted, Sql!OfTable
  <2> QED BY <1>0, <2>1, <2>2 DEF SqlTypes
<1> QED BY <1>1, <1>2

LEMMA InitKept ==
  ASSUME Sql!MySqlAssumption, Sql!Init
  PROVE  Kept
<1>0. Count \in Nat BY DEF Sql!MySqlAssumption
<1>1. StoreTypes BY <1>0 DEF Sql!Init, StoreTypes
<1>2. Counted
  <2> SUFFICES ASSUME NEW p \in Programs, Sql!OfTable(p)
               PROVE  Inserted(kind[p], 1) = 0
    BY DEF Sql!Init, Counted
  <2> QED BY <1>0 DEF Inserted
<1>3. table.by = NoOne BY DEF Sql!Init
<1>4. Filled /\ Sql!MakerShowsAll
  BY <1>3 DEF Sql!Init, Filled, Sql!MakerShowsAll, Sql!MySqlAssumption
<1> QED BY <1>1, <1>2, <1>4 DEF Kept

\* Statements that leave the rows, the table and what is shown alone.
LEMMA PrepareKept ==
  ASSUME Sql!MySqlAssumption, SqlIInv, Kept, NEW p \in Programs, Sql!Prepare(p)
  PROVE  Kept'
<1>0. StoreTypes /\ Counted /\ Filled /\ Sql!MakerShowsAll BY DEF Kept
<1>1. /\ status[p] = "running" /\ (Sql!Advance(p) \/ Sql!Throw(p))
      /\ Sql!Statement(p) \notin {"insert", "select"}
      /\ UNCHANGED <<kind, given, table, rows, docs, seen>>
  BY DEF Sql!Prepare, Sql!At
<1>2. /\ Counted'
      /\ \A q \in Programs : q # p => status'[q] = status[q]
      /\ Sql!OfTable(p) => status'[p] # "done"
  BY <1>0, <1>1, OtherStatement
<1>3. StoreTypes' /\ Filled' BY <1>0, <1>1 DEF StoreTypes, Filled, Sql!OfTable
<1>4. Sql!MakerShowsAll'
  <2> SUFFICES ASSUME NEW q \in Programs, status'[q] = "done", table.by = q
               PROVE  Numbers(seen[q], q) = 1..Count
    BY <1>1 DEF Sql!MakerShowsAll, Numbers
  <2>1. Sql!OfTable(q) BY <1>0 DEF Filled
  <2>2. q # p BY <1>2, <2>1
  <2> QED BY <1>0, <1>2, <2>2 DEF Sql!MakerShowsAll, Numbers
<1> QED BY <1>2, <1>3, <1>4 DEF Kept

LEMMA DropKept ==
  ASSUME Sql!MySqlAssumption, SqlIInv, Kept, NEW p \in Programs, Sql!Drop(p)
  PROVE  Kept'
<1>0. StoreTypes /\ Counted /\ Filled /\ Sql!MakerShowsAll BY DEF Kept
<1>1. /\ status[p] = "running" /\ Sql!Advance(p) /\ Sql!Statement(p) = "drop"
      /\ UNCHANGED <<kind, given, docs, seen>>
      /\ table' = [there |-> FALSE, by |-> NoOne, labelled |-> FALSE]
      /\ rows' = {}
  BY DEF Sql!Drop, Sql!At
<1>2. Counted' BY <1>0, <1>1, OtherStatement
<1>3. StoreTypes' BY <1>0, <1>1 DEF StoreTypes
<1>4. Filled' /\ Sql!MakerShowsAll'
  BY <1>1 DEF Filled, Sql!MakerShowsAll, Sql!MySqlAssumption
<1> QED BY <1>2, <1>3, <1>4 DEF Kept

LEMMA CreateKept ==
  ASSUME Sql!MySqlAssumption, SqlIInv, Kept, NEW p \in Programs, Sql!Create(p)
  PROVE  Kept'
<1>0. StoreTypes /\ Counted /\ Filled /\ Sql!MakerShowsAll /\ SqlTypes /\ InTurn
  BY DEF Kept, SqlIInv
<1>1. /\ status[p] = "running" /\ (Sql!Advance(p) \/ Sql!Throw(p))
      /\ Sql!Statement(p) = "create"
      /\ UNCHANGED <<kind, given, rows, docs, seen>>
  BY DEF Sql!Create, Sql!At
<1>2. /\ Counted'
      /\ \A q \in Programs : q # p => status'[q] = status[q]
      /\ Sql!OfTable(p) => status'[p] # "done"
  BY <1>0, <1>1, OtherStatement
<1>3. StoreTypes' BY <1>0, <1>1 DEF StoreTypes
<1>4. Sql!OfTable(p) BY <1>0, <1>1, WhoseStatement
<1>5. CASE table.there
  <2>1. UNCHANGED table BY <1>5 DEF Sql!Create
  <2>2. Filled' BY <1>0, <1>1, <2>1 DEF Filled, Sql!OfTable
  <2>3. Sql!MakerShowsAll'
    <3> SUFFICES ASSUME NEW q \in Programs, status'[q] = "done", table.by = q
                 PROVE  Numbers(seen[q], q) = 1..Count
      BY <1>1, <2>1 DEF Sql!MakerShowsAll, Numbers
    <3>1. q # p BY <1>2, <1>4
    <3> QED BY <1>0, <1>2, <3>1 DEF Sql!MakerShowsAll, Numbers
  <2> QED BY <1>2, <1>3, <2>2, <2>3 DEF Kept
<1>6. CASE ~table.there
  <2>1. table'.there /\ table'.by = p BY <1>6 DEF Sql!Create
  <2>2. rows = {} /\ given[p] = 0
    BY <1>0, <1>1, <1>4, <1>6, AtStatement DEF Filled
  <2>3. Numbers(rows, p) = 1..given[p] BY <2>2 DEF Numbers
  <2>4. Filled' BY <1>1, <1>4, <2>1, <2>3 DEF Filled, Sql!OfTable, Numbers
  <2>5. Sql!MakerShowsAll' BY <1>2, <1>4, <2>1 DEF Sql!MakerShowsAll
  <2> QED BY <1>2, <1>3, <2>4, <2>5 DEF Kept
<1> QED BY <1>5, <1>6

\* One row more is inserted.
LEMMA OneMore ==
  ASSUME NEW s, NEW p, NEW n \in Nat, Numbers(s, p) = 1..n
  PROVE  Numbers(s \cup {[by |-> p, id |-> n + 1]}, p) = 1..(n + 1)
<1> DEFINE new == [by |-> p, id |-> n + 1]
           t == s \cup {new}
<1>1. Numbers(t, p) \subseteq Numbers(s, p) \cup {n + 1} BY DEF Numbers
<1>2. Numbers(s, p) \subseteq Numbers(t, p) BY DEF Numbers
<1>3. n + 1 \in Numbers(t, p)
  <2>1. new \in {r \in t : r.by = p} /\ new.id = n + 1 OBVIOUS
  <2> QED BY <2>1 DEF Numbers
<1>4. 1..(n + 1) = (1..n) \cup {n + 1} OBVIOUS
<1> QED BY <1>1, <1>2, <1>3, <1>4

LEMMA InsertKept ==
  ASSUME Sql!MySqlAssumption, SqlIInv, Kept, NEW p \in Programs, Sql!Insert(p)
  PROVE  Kept'
<1>0. StoreTypes /\ Counted /\ Filled /\ Sql!MakerShowsAll /\ SqlTypes /\ InTurn
  BY DEF Kept, SqlIInv
<1>1. /\ status[p] = "running" /\ Sql!Statement(p) = "insert"
      /\ UNCHANGED <<kind, table, docs, seen>>
  BY DEF Sql!Insert, Sql!At
<1>2. Sql!OfTable(p) BY <1>0, <1>1, WhoseStatement
<1>3. CASE ~Sql!Fits(p)
  <2>1. /\ step' = step /\ status' = [status EXCEPT ![p] = "failed"]
        /\ UNCHANGED <<rows, given>>
    BY <1>3 DEF Sql!Insert, Sql!Throw
  <2>2. StoreTypes' /\ Counted' /\ Filled'
    BY <1>0, <1>1, <2>1 DEF StoreTypes, Counted, Filled, Sql!OfTable
  <2>3. Sql!MakerShowsAll'
    BY <1>0, <1>1, <2>1 DEF Sql!MakerShowsAll, SqlTypes
  <2> QED BY <2>2, <2>3 DEF Kept
<1>4. CASE Sql!Fits(p)
  <2>1. /\ rows' = rows \cup {[by |-> p, id |-> given[p] + 1]}
        /\ given' = [given EXCEPT ![p] = given[p] + 1]
        /\ Sql!Advance(p)
    BY <1>4 DEF Sql!Insert
  <2>2. /\ given[p] + 1 \in 1..Count
        /\ Inserted(kind[p], step[p] + 1) = given[p] + 1
        /\ step[p] # Len(Sql!Statements[kind[p]])
    BY <1>0, <1>1, <1>2, AtStatement
  <2>3. /\ step' = [step EXCEPT ![p] = step[p] + 1]
        /\ status' = [status EXCEPT ![p] = status[p]]
    BY <2>1, <2>2 DEF Sql!Advance
  <2>4. /\ step'[p] = step[p] + 1 /\ given'[p] = given[p] + 1
        /\ \A q \in Programs : q # p => step'[q] = step[q]
                                        /\ given'[q] = given[q]
        /\ status' = status
    BY <1>0, <2>1, <2>3 DEF SqlTypes, StoreTypes
  <2>5. StoreTypes'
    <3>1. given' \in [Programs -> 0..Count]
      <4>1. given[p] + 1 \in 0..Count BY <2>2
      <4> QED BY <1>0, <2>1, <4>1 DEF StoreTypes
    <3>2. rows' \in SUBSET Sql!Rows BY <1>0, <2>1, <2>2 DEF StoreTypes, Sql!Rows
    <3> QED BY <1>0, <1>1, <3>1, <3>2 DEF StoreTypes
  <2>6. Counted'
    <3> SUFFICES ASSUME NEW q \in Programs, Sql!OfTable(q)
                 PROVE  given'[q] = Inserted(kind[q], step'[q])
      BY <1>1 DEF Counted, Sql!OfTable
    <3>1. CASE q = p BY <2>2, <2>4, <3>1
    <3>2. CASE q # p BY <1>0, <2>4, <3>2 DEF Counted
    <3> QED BY <3>1, <3>2
  <2>7. Filled'
    <3>1. table.there BY <1>4 DEF Sql!Fits
    <3> SUFFICES ASSUME NEW q \in Programs, table.by = q
                 PROVE  Sql!OfTable(q) /\ Numbers(rows', q) = 1..given'[q]
      BY <1>1, <3>1 DEF Filled, Sql!OfTable, Numbers
    <3>2. Sql!OfTable(q) /\ Numbers(rows, q) = 1..given[q]
      BY <1>0 DEF Filled, Numbers
    <3>3. given[p] \in Nat BY <1>0 DEF StoreTypes, Sql!MySqlAssumption
    <3>4. CASE q = p
      <4>1. Numbers(rows, p) = 1..given[p] BY <3>2, <3>4
      <4>2. Numbers(rows', p) = 1..(given[p] + 1)
        BY <2>1, <3>3, <4>1, OneMore
      <4> QED BY <2>4, <3>2, <3>4, <4>2
    <3>5. CASE q # p
      <4>1. Numbers(rows', q) = Numbers(rows, q)
        <5>1. [by |-> p, id |-> given[p] + 1].by # q BY <3>5
        <5>2. {r \in rows' : r.by = q} = {r \in rows : r.by = q}
          BY <2>1, <5>1
        <5> QED BY <5>2 DEF Numbers
      <4>2. given'[q] = given[q] BY <2>4, <3>5
      <4> QED BY <3>2, <4>1, <4>2
    <3> QED BY <3>2, <3>4, <3>5
  <2>8. Sql!MakerShowsAll' BY <1>0, <1>1, <2>4 DEF Sql!MakerShowsAll
  <2> QED BY <2>5, <2>6, <2>7, <2>8 DEF Kept
<1> QED BY <1>3, <1>4

LEMMA SelectKept ==
  ASSUME Sql!MySqlAssumption, SqlIInv, Kept, NEW p \in Programs, Sql!Select(p)
  PROVE  Kept'
<1>0. StoreTypes /\ Counted /\ Filled /\ Sql!MakerShowsAll /\ SqlTypes /\ InTurn
  BY DEF Kept, SqlIInv
<1>1. /\ status[p] = "running" /\ (Sql!Advance(p) \/ Sql!Throw(p))
      /\ Sql!Statement(p) = "select"
      /\ UNCHANGED <<kind, given, table, rows, docs>>
      /\ \/ seen' = [seen EXCEPT ![p] = rows]
         \/ Sql!Throw(p) /\ seen' = seen
  BY DEF Sql!Select, Sql!At
<1>2. Counted' /\ \A q \in Programs : q # p => status'[q] = status[q]
  BY <1>0, <1>1, OtherStatement
<1>3. Sql!OfTable(p) BY <1>0, <1>1, WhoseStatement
<1>4. /\ \A q \in Programs : q # p => seen'[q] = seen[q]
      /\ seen'[p] = rows \/ status'[p] = "failed"
      /\ seen' \in [Programs -> SUBSET (Sql!Rows \cup Sql!Docs)]
  BY <1>0, <1>1 DEF StoreTypes, SqlTypes, Sql!Throw
<1>5. StoreTypes' /\ Filled'
  BY <1>0, <1>1, <1>4 DEF StoreTypes, Filled, Sql!OfTable
<1>6. Sql!MakerShowsAll'
  <2> SUFFICES ASSUME NEW q \in Programs, status'[q] = "done", table.by = q
               PROVE  Numbers(seen'[q], q) = 1..Count
    BY <1>1 DEF Sql!MakerShowsAll, Numbers
  <2>1. CASE q = p
    <3>1. given[p] = Count BY <1>0, <1>1, <1>3, AtStatement
    <3>2. Numbers(rows, q) = 1..given[q] BY <1>0 DEF Filled, Numbers
    <3>3. seen'[p] = rows BY <1>4, <2>1
    <3> QED BY <2>1, <3>1, <3>2, <3>3
  <2>2. CASE q # p
    BY <1>0, <1>2, <1>4, <2>2 DEF Sql!MakerShowsAll, Numbers
  <2> QED BY <2>1, <2>2
<1> QED BY <1>2, <1>5, <1>6 DEF Kept

\* The collection has nothing to do with the rows.
LEMMA DocsKept ==
  ASSUME Sql!MySqlAssumption, SqlIInv, Kept, NEW p \in Programs,
         Sql!CreateCollection(p) \/ Sql!Remove(p) \/ Sql!Add(p) \/ Sql!Find(p)
  PROVE  Kept'
<1>0. StoreTypes /\ Counted /\ Filled /\ Sql!MakerShowsAll /\ SqlTypes /\ InTurn
  BY DEF Kept, SqlIInv
<1>1. /\ status[p] = "running" /\ (Sql!Advance(p) \/ Sql!Throw(p))
      /\ Sql!Statement(p) \in {"createCollection", "remove", "add", "find"}
      /\ UNCHANGED <<kind, given, table, rows>>
      /\ docs' \in {docs, {}, docs \cup [by : {p}, id : 1..5]}
      /\ \/ seen' = seen
         \/ seen' = [seen EXCEPT ![p] = {d \in docs : d.id \in Sql!Found}]
  BY DEF Sql!CreateCollection, Sql!Remove, Sql!Add, Sql!Find, Sql!At
<1>2. Counted' /\ \A q \in Programs : q # p => status'[q] = status[q]
  BY <1>0, <1>1, OtherStatement
<1>3. ~Sql!OfTable(p) BY <1>0, <1>1, WhoseStatement DEF Later
<1>4. docs' \in SUBSET Sql!Docs
  <2>1. [by : {p}, id : 1..5] \subseteq Sql!Docs BY DEF Sql!Docs
  <2> QED BY <1>0, <1>1, <2>1 DEF StoreTypes
<1>5. /\ \A q \in Programs : q # p => seen'[q] = seen[q]
      /\ seen' \in [Programs -> SUBSET (Sql!Rows \cup Sql!Docs)]
  BY <1>0, <1>1 DEF StoreTypes
<1>6. StoreTypes' /\ Filled'
  BY <1>0, <1>1, <1>4, <1>5 DEF StoreTypes, Filled, Sql!OfTable
<1>7. Sql!MakerShowsAll'
  <2> SUFFICES ASSUME NEW q \in Programs, status'[q] = "done", table.by = q
               PROVE  Numbers(seen'[q], q) = 1..Count
    BY <1>1 DEF Sql!MakerShowsAll, Numbers
  <2>1. q # p BY <1>0, <1>3 DEF Filled
  <2> QED BY <1>0, <1>2, <1>5, <2>1 DEF Sql!MakerShowsAll, Numbers
<1> QED BY <1>2, <1>6, <1>7 DEF Kept

LEMMA NextKept ==
  ASSUME Sql!MySqlAssumption, SqlIInv, Kept, [Sql!Next]_Sql!vars
  PROVE  Kept'
<1>1. ASSUME NEW p \in Programs, Sql!Execute(p) PROVE Kept'
  BY <1>1, DropKept, CreateKept, PrepareKept, InsertKept, SelectKept, DocsKept
     DEF Sql!Execute
<1>2. ASSUME NEW p \in Programs, Sql!Disconnect(p) PROVE Kept'
  <2>1. /\ step' = step /\ status' = [status EXCEPT ![p] = "failed"]
        /\ UNCHANGED <<kind, given, table, rows, docs, seen>>
    BY <1>2 DEF Sql!Disconnect, Sql!Throw
  <2>2. StoreTypes' /\ Counted' /\ Filled'
    BY <2>1 DEF Kept, StoreTypes, Counted, Filled, Sql!OfTable
  <2>3. Sql!MakerShowsAll'
    BY <2>1 DEF Kept, SqlIInv, Sql!MakerShowsAll, SqlTypes
  <2> QED BY <2>2, <2>3 DEF Kept
<1>3. CASE UNCHANGED Sql!vars
  BY <1>3 DEF Sql!vars, Sql!progVars, Kept, StoreTypes, Counted, Filled,
     Sql!MakerShowsAll, Sql!OfTable
<1> QED BY <1>1, <1>2, <1>3 DEF Sql!Next

-----------------------------------------------------------------------------
(* The theorems about the table.                                             *)

\* Any number of programs that drop, make and fill the same table at once, with
\* the same columns or others: when all have ended, and no connection was lost,
\* the one that made the table which is there has come to its end.
THEOREM OneEndsWell ==
  ASSUME Sql!MySqlAssumption
  PROVE  Sql!Spec => []OneSucceeds
<1>1. SqlIInv => OneSucceeds
  <2> SUFFICES ASSUME SqlIInv, ~unwell,
                      \A p \in Programs : status[p] # "running",
                      NEW p \in Programs, Sql!OfTable(p)
               PROVE  \E q \in Programs : Sql!OfTable(q) /\ status[q] = "done"
    BY DEF OneSucceeds, Sql!OneSucceeds
  <2>1. step[p] > 1 BY DEF SqlIInv, InTurn
  <2>2. table.there /\ table.by # NoOne BY <2>1 DEF SqlIInv, OneMaker
  <2>3. table.by \in Programs BY <2>2 DEF SqlIInv, SqlTypes
  <2>4. Sql!OfTable(table.by) /\ status[table.by] # "failed"
    BY <2>2 DEF SqlIInv, Made
  <2>5. status[table.by] \in {"running", "done", "failed"}
    BY <2>3 DEF SqlIInv, SqlTypes
  <2> QED BY <2>3, <2>4, <2>5
<1> QED BY <1>1, SqlInvariance, PTL

\* Any number of runs of GitHubSample at once, beside the others: what one of
\* them finds is of one run.
THEOREM RunsDoNotMix ==
  ASSUME Sql!MySqlAssumption
  PROVE  Sql!Spec => []OneRunFound
<1>1. Sql!Init => OneRun BY DEF Sql!Init, OneRun, Sql!OneRunFound
<1>2. SqlIInv /\ OneRun /\ [Sql!Next]_Sql!vars => OneRun' BY OneRunNext
<1>3. OneRun => OneRunFound BY DEF OneRun, OneRunFound
<1> QED BY <1>1, <1>2, <1>3, SqlInvariance, PTL DEF Sql!Spec

LEMMA KeptAlways ==
  ASSUME Sql!MySqlAssumption
  PROVE  Sql!Spec => []Kept
<1>1. Sql!Init => Kept BY InitKept
<1>2. SqlIInv /\ Kept /\ [Sql!Next]_Sql!vars => Kept' BY NextKept
<1> QED BY <1>1, <1>2, SqlInvariance, PTL DEF Sql!Spec

\* The variables keep their types: no program inserts more than its Count rows,
\* and every row has one of their numbers.
THEOREM SqlTypeCorrect ==
  ASSUME Sql!MySqlAssumption
  PROVE  Sql!Spec => []Sql!TypeOK
<1>1. SqlIInv /\ Kept => Sql!TypeOK
  BY DEF SqlIInv, SqlTypes, Kept, StoreTypes, Sql!TypeOK
<1> QED BY <1>1, SqlInvariance, KeptAlways, PTL

\* Any number of programs that drop, make and fill the same table at once: the
\* one whose table is there when it is done has printed every row it inserted,
\* though others may have dropped the table before it and added rows to it.
THEOREM MakerSeesItsRows ==
  ASSUME Sql!MySqlAssumption
  PROVE  Sql!Spec => []MakerShowsAll
<1>1. Kept => MakerShowsAll BY DEF Kept, MakerShowsAll
<1> QED BY <1>1, KeptAlways, PTL
=============================================================================
