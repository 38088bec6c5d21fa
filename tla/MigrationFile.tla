--------------------------- MODULE MigrationFile ---------------------------
(***************************************************************************)
(* A migration file and what the loader makes of it (internal/config), with *)
(* what the executors take from it (internal/phase).                       *)
(*                                                                         *)
(* A file is [complete, phases]: whether it is YAML with a name and a      *)
(* database, and its phases.  SQL text is present or absent, but for the   *)
(* batch query, about which lint has opinions:                             *)
(*   table  the first word behind UPDATE, "none" if it is no UPDATE;       *)
(*   lead   whether blanks stand in front of it;                           *)
(*   set    the assignments, each with or without a blank before its "=",  *)
(*          of a value or of an expression over the row, which counts as   *)
(*          the value of one of its columns and so may be NULL;            *)
(*   where  the alternatives that OR parts (none: no WHERE), each a set of *)
(*          conditions joined by AND, with or without a NOT;               *)
(*   limits the LIMITs: "placeholder" is LIMIT {batch_size}, "literal" one *)
(*          with a number; "bound" is {batch_size} in another place.       *)
(***************************************************************************)
EXTENDS Integers, Sequences, FiniteSetsExt

CONSTANTS
    Nil,       \* a block or a database that is absent
    Columns    \* the columns of the table

\* What a file is made of; timeouts, delays and sizes may be negative.
Assignments == [col : Columns, from : Columns \cup {Nil}, value : Int, spaced : BOOLEAN]
Conditions == [col : Columns, op : {"IS NULL", "=", "<>"}, value : Int, negated : BOOLEAN]

BatchQueries ==
    [table : STRING, lead : BOOLEAN, set : Seq(Assignments), where : SUBSET SUBSET Conditions,
     limits : SUBSET {"placeholder", "literal", "bound"}, orderBy : BOOLEAN]

BatchConfigs == [query : BatchQueries, size : Int, delay : Int]

PhaseConfigs ==
    [name : STRING, sql : STRING, rollbackSQL : BOOLEAN, onFailure : STRING,
     batch : BatchConfigs \cup {Nil}, waitUntil : Int \cup {Nil}]

MigrationFiles == [complete : BOOLEAN, phases : Seq(PhaseConfigs)]

Row == [Columns -> Int]

KnownNames == {"expand", "backfill", "gate", "contract"}

Placeholders == {"placeholder", "bound"}

-----------------------------------------------------------------------------
(* The loader                                                              *)

\* Mutant: the gate's case is missing.
HasItsBlocksButGates(ph) ==
    CASE ph.name \in {"expand", "contract"} -> ph.sql # "none"
      [] ph.name = "backfill" -> ph.batch # Nil
      [] OTHER                -> TRUE

\* The switch on the name; a name that it does not know passes.
HasItsBlocks(ph) ==
    CASE ph.name \in {"expand", "contract"} -> ph.sql # "none"
      [] ph.name = "gate"     -> ph.waitUntil # Nil
      [] ph.name = "backfill" -> /\ ph.batch # Nil
                                 /\ ph.batch.query.limits \cap Placeholders # {}
                                 /\ ph.batch.size > 0
      [] OTHER                -> TRUE

FailureIsHandled(ph) ==
    /\ ph.onFailure \in {"", "rollback", "none"}
    /\ ph.onFailure = "rollback" => ph.rollbackSQL

ValidatePhase(ph) == HasItsBlocks(ph) /\ FailureIsHandled(ph)

ParseMigration(f) == f.complete /\ \A i \in DOMAIN f.phases : ValidatePhase(f.phases[i])

\* It is not validated again.
ApplyCLIOverrides(f, onFailure) ==
    IF onFailure = "" THEN f
    ELSE [f EXCEPT !.phases =
            [i \in DOMAIN f.phases |-> [f.phases[i] EXCEPT !.onFailure = onFailure]]]

-----------------------------------------------------------------------------
(* The executors                                                           *)

\* What Execute takes from its phase without looking whether it is there.
Supplied(ph) ==
    /\ ph.name = "backfill" => ph.batch # Nil
    /\ ph.name = "gate" => ph.waitUntil # Nil

\* The server's view of a condition on a row; 0 stands for NULL, with which no
\* comparison is true and none false.
Unknown(row, c) == c.op # "IS NULL" /\ (row[c.col] = 0 \/ c.value = 0)

IsTrue(row, c) ==
    CASE c.op = "IS NULL" -> row[c.col] = 0
      [] c.op = "="       -> row[c.col] = c.value
      [] c.op = "<>"      -> row[c.col] # c.value

Meets(row, c) == ~Unknown(row, c) /\ IF c.negated THEN ~IsTrue(row, c) ELSE IsTrue(row, c)

Matches(q, row) == q.where = {} \/ \E all \in q.where : \A c \in all : Meets(row, c)

Matched(q, t) == {i \in DOMAIN t : Matches(q, t[i])}

ValueOf(a, row) == IF a.from = Nil THEN a.value ELSE row[a.from]

\* From left to right, as MySQL assigns.
Assigned(q, row) ==
    LET after[n \in 0 .. Len(q.set)] ==
          IF n = 0 THEN row
          ELSE [after[n - 1] EXCEPT ![q.set[n].col] = ValueOf(q.set[n], after[n - 1])]
    IN  after[Len(q.set)]

\* ExecBatch with a batch of one: the first row that matches.
ExecBatch(q, t) ==
    IF Matched(q, t) = {} THEN t ELSE [t EXCEPT ![Min(Matched(q, t))] = Assigned(q, @)]

\* The table when the batches change no row any more (the server counts rows
\* that change), which is after as many as there are rows.
Batches(q, t) ==
    LET after[n \in 0 .. Len(t)] == IF n = 0 THEN t ELSE ExecBatch(q, after[n - 1])
    IN  after[Len(t)]

\* How long the loop sleeps after a batch, and until its first empty one.
Sleep(batch) == IF batch.delay > 0 THEN batch.delay ELSE 0

Sleeps(rows, batch) == ((rows + batch.size - 1) \div batch.size) * Sleep(batch)

=============================================================================
