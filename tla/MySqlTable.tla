----------------------------- MODULE MySqlTable -----------------------------
(***************************************************************************)
(* The programs of src/MySQLConnector that change a database, any number   *)
(* of them at once: CompleteExample2.cpp and SimpleExample.cpp, which both *)
(* drop, create and fill the table "test", each with columns of its own,   *)
(* and GitHubSample.cpp, which empties and fills the collection "c1".      *)
(*                                                                         *)
(* No program opens a transaction: each statement is one, and between two  *)
(* of them those of the other programs may come.                           *)
(***************************************************************************)
EXTENDS Naturals, Sequences

CONSTANTS Programs,  \* the processes
          Count,     \* the rows a program inserts: 10
          NoOne      \* the creator of a table from an earlier day

\* What the constants must satisfy.
MySqlAssumption ==
  /\ Count \in Nat /\ Count >= 2
  /\ NoOne \notin Programs

VARIABLES kind,    \* kind[p]: the program p runs
          step,    \* step[p]: the number of its next statement
          status,  \* status[p]: "running", "done" or "failed"
          given,   \* given[p]: rows it has inserted
          table,   \* "test": whether it is there, who made it, its columns
          rows,    \* its rows
          docs,    \* the documents in "c1"
          shown,   \* shown[p]: the rows or documents p has printed
          faulty   \* history: a connection was lost

progVars == <<kind, step, status, given, shown>>
vars == <<progVars, table, rows, docs, faulty>>

Kinds == {"complete", "simple", "docs"}

-----------------------------------------------------------------------------
(* The statements of each program, in order.                               *)

Repeat(statement, n) == [i \in 1..n |-> statement]

Statements ==
  [k \in Kinds |->
     CASE k = "complete" ->
            <<"drop", "create", "prepare">> \o Repeat("insert", Count)
            \o <<"prepareSelect", "select">>
       [] k = "simple" ->
            <<"drop", "create", "insert", "insert", "prepare">>
            \o Repeat("insert", Count - 2) \o <<"select">>
       [] k = "docs" -> <<"createCollection", "remove", "add", "find">>]

Statement(p) == Statements[kind[p]][step[p]]

Labelled(k) == k = "simple"

\* The statement p is at can be executed: its table is there with the columns
\* it names.  A table with a column more is as good.
Fits(p) == table.there /\ (Labelled(kind[p]) => table.labelled)

At(p, statement) == status[p] = "running" /\ Statement(p) = statement

\* The statement returns, and the program goes on to the next one.
Advance(p) ==
  /\ step' = [step EXCEPT ![p] = @ + 1]
  /\ status' = [status EXCEPT ![p] =
                  IF step[p] = Len(Statements[kind[p]]) THEN "done" ELSE @]

\* The statement throws: the program prints the error and ends.
Throw(p) ==
  /\ status' = [status EXCEPT ![p] = "failed"]
  /\ UNCHANGED step

-----------------------------------------------------------------------------
(* The table.                                                              *)

\* Mutant: DROP TABLE test
DropIfThere(p) ==
  /\ At(p, "drop")
  /\ IF table.there
       THEN /\ table' = [there |-> FALSE, by |-> NoOne, labelled |-> FALSE]
            /\ rows' = {}
            /\ Advance(p)
       ELSE Throw(p) /\ UNCHANGED <<table, rows>>
  /\ UNCHANGED <<kind, given, docs, shown, faulty>>

\* DROP TABLE IF EXISTS test
Drop(p) ==
  /\ At(p, "drop")
  /\ table' = [there |-> FALSE, by |-> NoOne, labelled |-> FALSE]
  /\ rows' = {}
  /\ Advance(p)
  /\ UNCHANGED <<kind, given, docs, shown, faulty>>

\* CREATE TABLE test(id INT), or test(id INT, label CHAR(1))
Create(p) ==
  /\ At(p, "create")
  /\ IF table.there THEN Throw(p) /\ UNCHANGED table
     ELSE /\ table' = [there |-> TRUE, by |-> p,
                       labelled |-> Labelled(kind[p])]
          /\ Advance(p)
  /\ UNCHANGED <<kind, given, rows, docs, shown, faulty>>

\* prepareStatement has the server look at the table.
Prepare(p) ==
  /\ At(p, "prepare") \/ At(p, "prepareSelect")
  /\ IF Fits(p) THEN Advance(p) ELSE Throw(p)
  /\ UNCHANGED <<kind, given, table, rows, docs, shown, faulty>>

\* Mutant: the first row of the loop is the second.
InsertsFromTwo(p) ==
  /\ At(p, "insert")
  /\ IF Fits(p)
       THEN /\ rows' = rows \cup {[by |-> p, id |-> given[p] + 2]}
            /\ given' = [given EXCEPT ![p] = @ + 1]
            /\ Advance(p)
       ELSE Throw(p) /\ UNCHANGED <<rows, given>>
  /\ UNCHANGED <<kind, table, docs, shown, faulty>>

\* INSERT INTO test: the rows have the numbers 1 to 10.
Insert(p) ==
  /\ At(p, "insert")
  /\ IF Fits(p)
       THEN /\ rows' = rows \cup {[by |-> p, id |-> given[p] + 1]}
            /\ given' = [given EXCEPT ![p] = @ + 1]
            /\ Advance(p)
       ELSE Throw(p) /\ UNCHANGED <<rows, given>>
  /\ UNCHANGED <<kind, table, docs, shown, faulty>>

\* SELECT, and all that it returned is printed.
Select(p) ==
  /\ At(p, "select")
  /\ IF Fits(p) THEN shown' = [shown EXCEPT ![p] = rows] /\ Advance(p)
                ELSE Throw(p) /\ UNCHANGED shown
  /\ UNCHANGED <<kind, given, table, rows, docs, faulty>>

-----------------------------------------------------------------------------
(* The collection.                                                         *)

\* The number of the document that has an _id of its own, and those that are
\* found: "age > 1 and name like 'ba%'".
WithId == 5
Found  == {2, 3, 4}

\* createCollection("c1", true): one that is there is as good.
CreateCollection(p) ==
  /\ At(p, "createCollection")
  /\ Advance(p)
  /\ UNCHANGED <<kind, given, table, rows, docs, shown, faulty>>

\* Every document is removed.
Remove(p) ==
  /\ At(p, "remove")
  /\ docs' = {}
  /\ Advance(p)
  /\ UNCHANGED <<kind, given, table, rows, shown, faulty>>

\* Mutant: all documents are given their _id by the server.
AddsWithoutId(p) ==
  /\ At(p, "add")
  /\ docs' = docs \cup [by : {p}, id : 1..5]
  /\ Advance(p)
  /\ UNCHANGED <<kind, given, table, rows, shown, faulty>>

\* Five documents in one statement, which fails if an _id is there already.
Add(p) ==
  /\ At(p, "add")
  /\ IF \E d \in docs : d.id = WithId THEN Throw(p) /\ UNCHANGED docs
     ELSE docs' = docs \cup [by : {p}, id : 1..5] /\ Advance(p)
  /\ UNCHANGED <<kind, given, table, rows, shown, faulty>>

Find(p) ==
  /\ At(p, "find")
  /\ shown' = [shown EXCEPT ![p] = {d \in docs : d.id \in Found}]
  /\ Advance(p)
  /\ UNCHANGED <<kind, given, table, rows, docs, faulty>>

-----------------------------------------------------------------------------
\* No connection, or it is lost, or the program is stopped.
Disconnect(p) ==
  /\ status[p] = "running"
  /\ Throw(p)
  /\ faulty' = TRUE
  /\ UNCHANGED <<kind, given, table, rows, docs, shown>>

\* There may be a table from an earlier day.
Init ==
  /\ kind \in [Programs -> Kinds]
  /\ step = [p \in Programs |-> 1]
  /\ status = [p \in Programs |-> "running"]
  /\ given = [p \in Programs |-> 0]
  /\ table \in [there : BOOLEAN, by : {NoOne}, labelled : BOOLEAN]
  /\ table.labelled => table.there
  /\ rows = {}
  /\ docs = {}
  /\ shown = [p \in Programs |-> {}]
  /\ faulty = FALSE

Execute(p) ==
  \/ Drop(p) \/ Create(p) \/ Prepare(p) \/ Insert(p) \/ Select(p)
  \/ CreateCollection(p) \/ Remove(p) \/ Add(p) \/ Find(p)

Next == \E p \in Programs : Execute(p) \/ Disconnect(p)

Spec == Init /\ [][Next]_vars

-----------------------------------------------------------------------------
(* Properties.                                                             *)

Rows == [by : Programs, id : 1..Count]
Docs == [by : Programs, id : 1..5]

TypeOK ==
  /\ kind \in [Programs -> Kinds]
  /\ step \in [Programs -> Nat]
  /\ status \in [Programs -> {"running", "done", "failed"}]
  /\ given \in [Programs -> 0..Count]
  /\ table \in [there : BOOLEAN, by : Programs \cup {NoOne},
                labelled : BOOLEAN]
  /\ rows \in SUBSET Rows
  /\ docs \in SUBSET Docs
  /\ shown \in [Programs -> SUBSET (Rows \cup Docs)]
  /\ faulty \in BOOLEAN

OfTable(p) == kind[p] # "docs"

\* However the programs drop each other's table and create it under each
\* other's feet, one of them gets to its end, if no connection is lost.
OneSucceeds ==
  /\ ~faulty
  /\ \A p \in Programs : status[p] # "running"
  /\ \E p \in Programs : OfTable(p)
  => \E p \in Programs : OfTable(p) /\ status[p] = "done"

\* The program that made the table which is there has printed all its rows when
\* it is done, though perhaps others between them.
MakerShowsAll ==
  \A p \in Programs :
    status[p] = "done" /\ table.by = p =>
      {r.id : r \in {r \in shown[p] : r.by = p}} = 1..Count

\* Two runs of GitHubSample do not mix: one prints the three documents that are
\* to be found of one run, its own or another's, or none at all.  It is the one
\* _id which is not generated that keeps a second run from adding its own.
OneRunFound ==
  \A p \in Programs :
    kind[p] = "docs" =>
      shown[p] = {} \/ \E q \in Programs : shown[p] = [by : {q}, id : Found]
=============================================================================
