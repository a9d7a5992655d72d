------------------------------ MODULE PhoneFile ------------------------------
(***************************************************************************)
(* The programs that keep a list of phones in a file: the writer of        *)
(* add_data_toSerialise.cpp, run again and again, and a reader, of         *)
(* read_protobuf_data.cpp, which may read while a writer writes.  Nothing  *)
(* locks the file.                                                         *)
(*                                                                         *)
(* A write or a read passes at most Block bytes to or from the file, fewer *)
(* than a list may have.                                                   *)
(***************************************************************************)
EXTENDS RadioWire

CONSTANTS Lists,    \* the lists that writers make
          Block,    \* the bytes that one write or read passes
          MaxRuns,  \* bound: runs of the writer
          NoFile    \* there is no file

\* What the constants must satisfy.
PhoneFileAssumption ==
  /\ Lists \subseteq Seq(Phones) \ {<<>>}
  /\ Block \in Nat \ {0}
  /\ MaxRuns \in Nat

VARIABLES disk,       \* the bytes in the file, or NoFile
          writer,     \* what the writer is doing
          list,       \* the list of this run
          todo,       \* the lists it has still to write, the first underway
          unwritten,  \* the bytes of that list that are not in the file
          runs,       \* runs of the writer so far
          faulty,     \* history: in this run a write failed
          reader,     \* what the reader is doing
          got,        \* the bytes it has read
          owner,      \* history: the list of the run that last emptied the file
          source,     \* history: owner when the reader began
          torn,       \* history: a run began to write while it was reading
          shown       \* the list it has printed

writerVars == <<writer, list, todo, unwritten, runs, faulty,
                owner>>
readerVars == <<reader, got, source, torn, shown>>
vars == <<disk, writerVars, readerVars>>

Bytes(file) == IF file = NoFile THEN <<>> ELSE file

-----------------------------------------------------------------------------
(* The writer.                                                             *)

\* Mutant: only the new phone is written, the list is not.
WritesTheNewest(l) == [n \in DOMAIN l |-> <<l[n]>>]

\* AddToPhoneList adds a phone and writes the whole list, once for each phone.
EachPhone(l) == [n \in DOMAIN l |-> SubSeq(l, 1, n)]

\* A program starts: main writes the list once.
Start ==
  /\ writer \in {"none", "done", "failed", "crashed"}
  /\ runs < MaxRuns
  /\ runs' = runs + 1
  /\ list' \in Lists
  /\ todo' \in {<<list'>>, EachPhone(list')}
  /\ writer' = "starting"
  /\ faulty' = FALSE
  /\ UNCHANGED <<disk, unwritten, owner, readerVars>>

\* Mutant: the file keeps what it has, and the list comes behind it.
OpensToAppend ==
  /\ writer \in {"starting", "opening"}
  /\ todo # <<>>
  /\ disk' = Bytes(disk)
  /\ unwritten' = Serialize(Head(todo))
  /\ writer' = "writing"
  /\ owner' = list
  /\ torn' = (torn \/ (reader = "reading" /\ writer = "starting"))
  /\ UNCHANGED <<list, todo, runs, faulty, reader, got, source, shown>>

\* The file is opened and emptied, and the list serialised.
Open ==
  /\ writer \in {"starting", "opening"}
  /\ todo # <<>>
  /\ disk' = <<>>
  /\ unwritten' = Serialize(Head(todo))
  /\ writer' = "writing"
  /\ owner' = list
  /\ torn' = (torn \/ (reader = "reading" /\ writer = "starting"))
  /\ UNCHANGED <<list, todo, runs, faulty, reader, got, source, shown>>

\* It cannot be opened: SerializeToOstream returns false.
OpenFails ==
  /\ writer \in {"starting", "opening"}
  /\ todo # <<>>
  /\ writer' = "failed"
  /\ faulty' = TRUE
  /\ UNCHANGED <<disk, list, todo, unwritten, runs, owner, readerVars>>

Write ==
  /\ writer = "writing"
  /\ \E n \in 1..Len(unwritten) :
       /\ n <= Block
       /\ disk' = disk \o SubSeq(unwritten, 1, n)
       /\ unwritten' = SubSeq(unwritten, n + 1, Len(unwritten))
  /\ UNCHANGED <<writer, list, todo, runs, faulty, owner, readerVars>>

\* A write fails.  If the stream's destructor made it, nobody is told, and the
\* program goes on.
WriteFails ==
  /\ writer = "writing" /\ unwritten # <<>>
  /\ faulty' = TRUE
  /\ unwritten' = <<>>
  /\ writer' \in {"failed", "writing"}
  /\ UNCHANGED <<disk, list, todo, runs, owner, readerVars>>

\* The stream is closed.
EndOfList ==
  /\ writer = "writing" /\ unwritten = <<>>
  /\ todo' = Tail(todo)
  /\ writer' = "opening"
  /\ UNCHANGED <<disk, list, unwritten, runs, faulty, owner, readerVars>>

\* AddToPhoneList and main return.
End ==
  /\ writer \in {"starting", "opening"} /\ todo = <<>>
  /\ writer' = "done"
  /\ UNCHANGED <<disk, list, todo, unwritten, runs, faulty, owner,
                 readerVars>>

Crash ==
  /\ writer \in {"starting", "opening", "writing"}
  /\ writer' = "crashed"
  /\ UNCHANGED <<disk, list, todo, unwritten, runs, faulty, owner,
                 readerVars>>

-----------------------------------------------------------------------------
(* The reader.                                                             *)

OpenToRead ==
  /\ reader = "none" /\ disk # NoFile
  /\ reader' = "reading"
  /\ source' = owner
  /\ UNCHANGED <<disk, writerVars, got, torn, shown>>

\* The stream is not open: ParseFromIstream fails.
NothingToRead ==
  /\ reader = "none" /\ disk = NoFile
  /\ reader' = "failed"
  /\ UNCHANGED <<disk, writerVars, got, source, torn, shown>>

\* The bytes from the reader's place on, some of them.
Read ==
  /\ reader = "reading"
  /\ \E n \in 1..Block :
       /\ Len(got) + n <= Len(disk)
       /\ got' = got \o SubSeq(disk, Len(got) + 1, Len(got) + n)
  /\ UNCHANGED <<disk, writerVars, reader, source, torn, shown>>

\* Nothing follows the reader's place: the list is printed if all parses.
ReadEnd ==
  /\ reader = "reading" /\ Len(got) >= Len(disk)
  /\ LET parsed == Parse(got)
     IN  IF parsed.ok THEN reader' = "shown" /\ shown' = parsed.list
                      ELSE reader' = "failed" /\ UNCHANGED shown
  /\ UNCHANGED <<disk, writerVars, got, source, torn>>

-----------------------------------------------------------------------------
Init ==
  /\ disk = NoFile
  /\ writer = "none" /\ list = <<>> /\ todo = <<>> /\ unwritten = <<>>
  /\ runs = 0 /\ faulty = FALSE /\ owner = <<>>
  /\ reader = "none" /\ got = <<>> /\ source = <<>> /\ torn = FALSE
  /\ shown = <<>>

Writer == Start \/ Open \/ OpenFails \/ Write \/ WriteFails \/ EndOfList
          \/ End \/ Crash

Reader == OpenToRead \/ NothingToRead \/ Read \/ ReadEnd

Next == Writer \/ Reader

Spec == Init /\ [][Next]_vars

-----------------------------------------------------------------------------
(* Properties.                                                             *)

TypeOK ==
  /\ disk \in Seq(0..255) \cup {NoFile}
  /\ writer \in {"none", "starting", "opening", "writing", "done", "failed",
                 "crashed"}
  /\ list \in Seq(Phones)
  /\ todo \in Seq(Seq(Phones))
  /\ unwritten \in Seq(0..255)
  /\ runs \in 0..MaxRuns
  /\ faulty \in BOOLEAN
  /\ reader \in {"none", "reading", "shown", "failed"}
  /\ got \in Seq(0..255)
  /\ owner \in Seq(Phones)
  /\ source \in Seq(Phones)
  /\ torn \in BOOLEAN
  /\ shown \in Seq(Phones)

\* Every list that is written can be read again as it was, and the sizes that
\* are computed before it is written are the sizes it has.
RoundTrip ==
  \A i \in DOMAIN todo :
    /\ Parse(Serialize(todo[i])) = [ok |-> TRUE, list |-> todo[i]]
    /\ ListSize(todo[i]) = Len(Serialize(todo[i]))

\* A reader that reports no failure has printed phones that a writer wrote, in
\* its order and without a gap, though perhaps not all of them: also if the
\* writer crashed, its writes failed, or the file was emptied and written again
\* in the middle of the reading, as long as no other program began to.
ShowsWhatWasWritten ==
  reader = "shown" /\ ~torn => IsPrefix(shown, source)

\* After a run that has ended well the file has the whole list, so that a
\* reader prints all of it, whatever an earlier run left behind.
DiskHasList ==
  writer = "done" /\ ~faulty => Parse(disk) = [ok |-> TRUE, list |-> list]
=============================================================================
