------------------------------- MODULE MCStores -------------------------------
(* The programs that store something, in a file or in a database, for TLC:    *)
(* PhoneFile and MySqlTable.  They share nothing: a behaviour is of the one   *)
(* or of the other, which is settled when it starts, while the system that    *)
(* does not run has come to its end.                                          *)
EXTENDS PhoneFile, TLC

CONSTANTS Programs, Count, NoOne

VARIABLES kind, step, status, given, table, rows, docs, seen, unwell

\* The second phone has a field with its default value, and a time that takes
\* two bytes.
MCLists ==
  LET phone1 == [id |-> 1, name |-> <<70>>, network |-> 1, active |-> TRUE,
                 type |-> 0, created |-> 3]
      phone2 == [id |-> 2, name |-> <<70, 71>>, network |-> 0, active |-> TRUE,
                 type |-> 1, created |-> 201]
  IN  {<<phone1, phone2>>, <<phone2>>}

Sql == INSTANCE MySqlTable WITH shown <- seen, faulty <- unwell

ASSUME PhonesFit == PhoneFileAssumption
ASSUME MySqlFits == Sql!MySqlAssumption

sqlVars == <<kind, step, status, given, table, rows, docs, seen, unwell>>

\* No program could connect.
MySqlOver ==
  /\ kind = [p \in Programs |-> "docs"]
  /\ step = [p \in Programs |-> 1]
  /\ status = [p \in Programs |-> "failed"]
  /\ given = [p \in Programs |-> 0]
  /\ table = [there |-> FALSE, by |-> NoOne, labelled |-> FALSE]
  /\ rows = {} /\ docs = {}
  /\ seen = [p \in Programs |-> {}]
  /\ unwell = TRUE

\* No program could be started.
PhonesOver ==
  /\ disk = NoFile
  /\ writer = "failed" /\ list = <<>> /\ todo = <<>> /\ unwritten = <<>>
  /\ runs = MaxRuns /\ faulty = TRUE /\ owner = <<>>
  /\ reader = "failed" /\ got = <<>> /\ source = <<>> /\ torn = FALSE
  /\ shown = <<>>

MCInit == (Init /\ MySqlOver) \/ (PhonesOver /\ Sql!Init)

MCNext == \/ Next /\ UNCHANGED sqlVars
          \/ Sql!Next /\ UNCHANGED vars

MCSpec == MCInit /\ [][MCNext]_<<vars, sqlVars>>

\* The programs differ in nothing but what they run.
Alike == Permutations(Programs)

OneSucceeds   == Sql!OneSucceeds
MakerShowsAll == Sql!MakerShowsAll
OneRunFound   == Sql!OneRunFound
=============================================================================
