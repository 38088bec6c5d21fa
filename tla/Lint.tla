-------------------------------- MODULE Lint --------------------------------
(***************************************************************************)
(* One command on one migration file: `phasedb run` and `resume` up to the *)
(* phases and through them as far as the file decides it (internal/cli),   *)
(* and `phasedb lint` with its rules and estimates (internal/lint).        *)
(***************************************************************************)
EXTENDS MigrationFile

CONSTANTS
    Files,     \* the files
    CommandLines,  \* [name, onFailure, dryRun, estimate, database]: with its flags
    Rows,      \* the sizes a table may have
    Tables,    \* the tables a batch query is tried on
    Minute,    \* 60 s in the unit of delay_ms
    EndsWith   \* pairs of column names, the first of which ends with the second

ASSUME MinuteAssumption == Minute \in Nat \ {0}
ASSUME FilesAssumption == Files \subseteq MigrationFiles
ASSUME SizesAssumption == Rows \subseteq Nat /\ Tables \subseteq Seq(Row)

VARIABLES
    file,       \* the migration, as far as it is loaded
    command,
    at,         \* the step of the command
    idx,        \* the phase in hand
    findings,   \* <<severity, rule, phase>>
    estimates,  \* per phase with a batch [rows, warned]
    outcome     \* "none", "ok", "error" or "panic"

vars == <<file, command, at, idx, findings, estimates, outcome>>

Phase == file.phases[idx]
Here == DOMAIN file.phases

Return(result) == at' = "done" /\ outcome' = result
Go(step) == at' = step /\ UNCHANGED outcome

-----------------------------------------------------------------------------
(* run, resume                                                             *)

Parse ==
    /\ at = "parse"
    /\ \/ ~ParseMigration(file) /\ Return("error")
       \/ ParseMigration(file) /\ Go(IF command.name = "lint" THEN "connect" ELSE "override")
    /\ UNCHANGED <<file, command, idx, findings, estimates>>

\* The flag is looked at after the file has been validated.  Without a dry run
\* the database is resolved and opened, which may fail.
Override ==
    /\ at = "override"
    /\ IF command.onFailure \notin {"", "rollback", "none"}
         THEN Return("error") /\ UNCHANGED file
         ELSE /\ file' = ApplyCLIOverrides(file, command.onFailure)
              /\ \/ command.dryRun /\ Return("ok")
                 \/ ~command.dryRun /\ Return("error")
                 \/ ~command.dryRun /\ command.database # Nil /\ Go("phase")
    /\ UNCHANGED <<command, idx, findings, estimates>>

\* runPhase as far as the file decides it: a phase succeeds or fails.
RunPhase ==
    /\ at = "phase"
    /\ \/ idx > Len(file.phases) /\ Return("ok") /\ UNCHANGED idx
       \/ /\ idx <= Len(file.phases) /\ Phase.name \notin KnownNames
          /\ Return("error") /\ UNCHANGED idx
       \/ /\ idx <= Len(file.phases) /\ Phase.name \in KnownNames
          /\ \/ ~Supplied(Phase) /\ Return("panic") /\ UNCHANGED idx
             \/ Supplied(Phase) /\ Return("error") /\ UNCHANGED idx
             \/ Supplied(Phase) /\ idx' = idx + 1 /\ UNCHANGED <<at, outcome>>
    /\ UNCHANGED <<file, command, findings, estimates>>

-----------------------------------------------------------------------------
(* The rules of lint                                                       *)

\* Only --estimate with --db opens a connection; DATABASE_URL is not looked at.
Adapter == command.estimate /\ command.database = "flag"

WithBatch == {i \in Here : file.phases[i].batch # Nil}
QueryOf(i) == file.phases[i].batch.query

GateRequiresWaitUntil ==
    {i \in Here : file.phases[i].name = "gate" /\ file.phases[i].waitUntil = Nil}

RollbackSQLRequired ==
    {i \in Here : file.phases[i].onFailure = "rollback" /\ ~file.phases[i].rollbackSQL}

BatchSizePlaceholder == {i \in WithBatch : QueryOf(i).limits \cap Placeholders = {}}

\* The rule takes what stands in front of the first " =" of the SET clause for
\* the column: a first assignment without the blank makes it no column at all.
Spaced(q) == {k \in DOMAIN q.set : q.set[k].spaced}
SetColumn(q) == IF 1 \in Spaced(q) THEN q.set[1].col ELSE "no column"

\* Mutant: any condition on the column will do.
AnyMention(q, c) == c.col = SetColumn(q)

\* The conditions in the text of the WHERE clause, wherever they stand in it.
Stated(q) == UNION q.where

\* A condition that contains the text "COL IS NULL", "COL=" or "COL =", be it
\* as the end of a longer name, behind a NOT or beside an OR.
Excludes(q, c) ==
    /\ c.op \in {"IS NULL", "="}
    /\ c.col = SetColumn(q) \/ <<c.col, SetColumn(q)>> \in EndsWith

BackfillIdempotency ==
    {i \in WithBatch :
        LET q == QueryOf(i) IN
        /\ q.set # <<>>
        /\ \/ q.where = {}
           \/ Spaced(q) # {} /\ \A c \in Stated(q) : ~Excludes(q, c)}

NoUserLimitInBatch == {i \in WithBatch : "literal" \in QueryOf(i).limits \/ QueryOf(i).orderBy}

AddColumnNotNull == {i \in Here : file.phases[i].sql = "add not null"}

DropColumnWithoutRollback ==
    {i \in Here : /\ file.phases[i].name = "contract" /\ ~file.phases[i].rollbackSQL
                  /\ file.phases[i].sql = "drop column"}

Errors ==
    ({"gate"} \X GateRequiresWaitUntil) \cup ({"rollback"} \X RollbackSQLRequired)
      \cup ({"placeholder"} \X BatchSizePlaceholder)
      \cup ({"idempotency"} \X BackfillIdempotency) \cup ({"limit"} \X NoUserLimitInBatch)

\* scans: the batch queries that EXPLAIN fails on or calls a full scan.
Warnings(scans) ==
    ({"not null"} \X AddColumnNotNull) \cup ({"drop"} \X DropColumnWithoutRollback)
      \cup ({"explain"} \X scans)

\* ResolveDSN and NewAdapter; neither asks the server.
Connect ==
    /\ at = "connect"
    /\ \/ Go("rules")
       \/ Adapter /\ Return("error")
    /\ UNCHANGED <<file, command, idx, findings, estimates>>

RunRules ==
    /\ at = "rules"
    /\ \E scans \in SUBSET (IF Adapter THEN WithBatch ELSE {}) :
         findings' = {<<"ERROR", f[1], f[2]>> : f \in Errors}
                       \cup {<<"WARNING", f[1], f[2]>> : f \in Warnings(scans)}
    /\ Go("estimate")
    /\ UNCHANGED <<file, command, idx, estimates>>

-----------------------------------------------------------------------------
(* Estimates                                                               *)

\* Mutant: the gate's timeout is compared with the bare estimate.
ShorterThan(timeout, rows, batch) ==
    LET delay == IF batch.delay <= 0 THEN 1 ELSE batch.delay
    IN  timeout > 0 /\ batch.size > 0 /\ timeout * Minute * batch.size < rows * delay

\* timeout < 1.5 * rows / (size / delay), a delay of 0 counting as 1 ms; a size
\* that is not positive makes the estimate 0, and a timeout of 0, for which the
\* gate takes two hours, is not compared.
TooShort(timeout, rows, batch) ==
    LET delay == IF batch.delay <= 0 THEN 1 ELSE batch.delay
    IN  timeout > 0 /\ batch.size > 0 /\ 2 * timeout * Minute * batch.size < 3 * rows * delay

\* The table's name is taken from the sixth letter on of a query that may begin
\* with blanks, and then is another word.
Counted == {i \in WithBatch : QueryOf(i).table # "none"}

Warned(rows, i) ==
    \E j \in Here : /\ file.phases[j].name = "gate" /\ file.phases[j].waitUntil # Nil
                    /\ TooShort(file.phases[j].waitUntil, rows, file.phases[i].batch)

\* One failed query, or a name that is none, and there are no estimates at all.
Estimate ==
    /\ \/ UNCHANGED estimates
       \/ /\ Adapter
          /\ \A i \in Counted : QueryOf(i).table = "events" /\ ~QueryOf(i).lead
          /\ \E rows \in [Counted -> Rows] :
               estimates' = [i \in Counted |-> [rows |-> rows[i], warned |-> Warned(rows[i], i)]]

\* An error of Estimate is printed and forgotten.
RunEstimate ==
    /\ at = "estimate"
    /\ Estimate
    /\ Return(IF \E f \in findings : f[1] = "ERROR" THEN "error" ELSE "ok")
    /\ UNCHANGED <<file, command, idx, findings>>

-----------------------------------------------------------------------------

Init ==
    /\ file \in Files /\ command \in CommandLines
    /\ at = "parse" /\ outcome = "none"
    /\ idx = 1
    /\ findings = {} /\ estimates = <<>>

Next == Parse \/ Override \/ RunPhase \/ Connect \/ RunRules \/ RunEstimate

Spec == Init /\ [][Next]_vars

-----------------------------------------------------------------------------
(* Properties                                                              *)

\* No file that the loader lets pass makes an executor follow a block that is
\* not there: the loader's switch on names and the factory's agree.
NoPanic == outcome # "panic"

\* What the rule of idempotency takes for granted of a query: one assignment,
\* written "col = value", no other column whose name ends with that one, no OR
\* in the WHERE clause, and no NOT in front of a condition on the column.
Readable(q) ==
    /\ Len(q.set) = 1 /\ q.set[1].spaced
    /\ \A all, other \in q.where : all = other
    /\ \A c \in Stated(q) : /\ <<c.col, q.set[1].col>> \notin EndsWith
                            /\ c.col = q.set[1].col => ~c.negated

\* Such a query, in a file without errors, has batches that get to every row it
\* matched: no batch finds a row again that an earlier one has changed, and the
\* loop stops short only behind a row that the assignment leaves as it is (an
\* expression that is NULL for it, or the value the condition asks for).
AcceptedFillsAll ==
    at = "done" /\ command.name = "lint" /\ outcome = "ok"
      => \A i \in WithBatch : Readable(QueryOf(i)) =>
           \A t \in Tables : \A r \in Matched(QueryOf(i), t) :
             \/ Batches(QueryOf(i), t)[r] = Assigned(QueryOf(i), t[r])
             \/ \E s \in Matched(QueryOf(i), t) : s < r /\ Assigned(QueryOf(i), t[s]) = t[s]

\* A gate that lint has not warned of, and whose timeout is more than 0, waits
\* longer than 1.5 times what the batch loop sleeps for a table of that many rows,
\* give or take the last sleep: the estimate divides, the loop rounds up.
EstimateHolds ==
    \A i \in DOMAIN estimates, j \in Here :
      LET batch == file.phases[i].batch
          timeout == file.phases[j].waitUntil
      IN  /\ file.phases[i].name = "backfill" /\ ~estimates[i].warned
          /\ file.phases[j].name = "gate" /\ timeout # Nil /\ timeout > 0
          => 2 * timeout * Minute > 3 * (Sleeps(estimates[i].rows, batch) - Sleep(batch))

=============================================================================
