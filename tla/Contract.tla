------------------------------ MODULE Contract ------------------------------
(***************************************************************************)
(* The contract executor (internal/phase/contract.go) on the DDL adapter   *)
(* (internal/db/mysql/ddl.go): a script of statements that the server does *)
(* not let anyone apply twice, a checkpoint after each of them, and one    *)
(* Execute after another as the phase is resumed or run again.             *)
(*                                                                         *)
(* The runner gives every Execute an attempt number of its own (fresh);    *)
(* the executor by itself also resumes an attempt it is given again.       *)
(***************************************************************************)
EXTENDS Naturals, Sequences, FiniteSets, Results

CONSTANTS
    Script,       \* what lies between the semicolons, one of Kinds
    UndoScript,   \* the statement that each statement of rollback_sql undoes
    Executions,   \* how often the phase may be executed (bound)
    Retries       \* defaultDDLLockRetries

\* "once": the server refuses it when it is applied (DROP COLUMN); "again": it
\* does not (MODIFY COLUMN); "blank": nothing but space.
Kinds == {"once", "again", "blank"}

Positions == DOMAIN Script
Statements == {i \in Positions : Script[i] # "blank"}

ASSUME ScriptAssumption == Script \in Seq(Kinds) /\ UndoScript \in Seq(Statements)
ASSUME BoundsAssumption == Executions \in Nat \ {0} /\ Retries \in Nat \ {0}

VARIABLES
    fresh,       \* whether every execution has an attempt of its own
    classified,  \* whether the driver's errors have a method Number()
    applied,     \* the statements whose effect is in the schema
    covered,     \* per attempt, how many statements its latest checkpoint covers
    pc,
    executions,  \* executions so far
    pos,         \* the loop over the script, or over the rollback script
    realIdx,     \* its index in the script without the blank statements
    resumeFrom,
    tries,       \* of the statement in hand
    began        \* what was applied when the call in hand, or the last one, began

control == <<fresh, classified, applied, covered, pc, executions, pos, realIdx, resumeFrom, tries>>
vars == <<control, began>>

\* The number the runner puts into the executor.
AttemptNumber == IF fresh THEN executions ELSE 1

\* The index a checkpoint gives a statement: blank ones are not counted.
IndexOf(i) == Cardinality({j \in Statements : j < i})

Begin ==
    /\ pc \in {"idle", "failed", "crashed"} /\ executions < Executions
    /\ executions' = executions + 1
    /\ pc' = "load"
    /\ UNCHANGED <<fresh, classified, applied, covered, pos, realIdx, resumeFrom, tries>>

\* Mutant: resumes at the statement of the checkpoint's successor.
LoadPastNext(found) == IF found /\ covered[AttemptNumber] > 0 THEN covered[AttemptNumber] + 1 ELSE 0

\* statement_index + 1 of the latest checkpoint; an error counts as none.
Load(found) == IF found THEN covered[AttemptNumber] ELSE 0

LatestCheckpoint ==
    /\ pc = "load"
    /\ \E found \in BOOLEAN : resumeFrom' = Load(found)
    /\ pos' = 1 /\ realIdx' = 0
    /\ pc' = "loop"
    /\ UNCHANGED <<fresh, classified, applied, covered, executions, tries>>

\* Mutant: counts the blank statements too.
CountBlank == realIdx + 1

NextIdx == IF pos \in Statements THEN realIdx + 1 ELSE realIdx

\* A blank statement, or one that the checkpoint covers.
Skip ==
    /\ pc = "loop" /\ pos \in Positions
    /\ pos \notin Statements \/ realIdx < resumeFrom
    /\ pos' = pos + 1 /\ realIdx' = NextIdx
    /\ UNCHANGED <<fresh, classified, applied, covered, pc, executions, resumeFrom, tries>>

Finish ==
    /\ pc = "loop" /\ pos \notin Positions
    /\ pc' = "succeeded"
    /\ UNCHANGED <<fresh, classified, applied, covered, executions, pos, realIdx, resumeFrom, tries>>

\* ExecDDL sets the session's lock_wait_timeout first, which may fail.
Send ==
    /\ pc = "loop" /\ pos \in Statements /\ realIdx >= resumeFrom
    /\ pc' \in {"ddl", "failed"}
    /\ tries' = 0
    /\ UNCHANGED <<fresh, classified, applied, covered, executions, pos, realIdx, resumeFrom>>

\* Mutant: an error of ExecDDL is only logged.
Proceed == "checkpoint"

AfterError == "failed"

\* The server applies it (and answers, or not), refuses what is applied
\* already, or gives up on a metadata lock: error 1205, which is retried only
\* if the driver's error says its number through a method.
ExecDDL ==
    /\ pc = "ddl"
    /\ \/ /\ pos \notin applied \/ Script[pos] = "again"
          /\ applied' = applied \cup {pos} /\ pc' \in {"checkpoint", "failed"} /\ UNCHANGED tries
       \/ /\ pc' = AfterError /\ UNCHANGED <<applied, tries>>
       \/ /\ classified /\ tries' = tries + 1
          /\ pc' = IF tries' < Retries THEN "ddl" ELSE "failed"
          /\ UNCHANGED applied
    /\ UNCHANGED <<fresh, classified, covered, executions, pos, realIdx, resumeFrom>>

\* A failed checkpoint is only logged.
InsertCheckpoint ==
    /\ pc = "checkpoint"
    /\ covered' \in {covered, [covered EXCEPT ![AttemptNumber] = realIdx + 1]}
    /\ pos' = pos + 1 /\ realIdx' = NextIdx
    /\ pc' = "loop"
    /\ UNCHANGED <<fresh, classified, applied, executions, resumeFrom, tries>>

\* on_failure: rollback.  An attempt that is rolled back is never executed
\* again, so this belongs to fresh attempts.
StartRollback ==
    /\ pc = "failed" /\ fresh
    /\ pc' = "rollback" /\ pos' = 1
    /\ UNCHANGED <<fresh, classified, applied, covered, executions, realIdx, resumeFrom, tries>>

\* One statement of rollback_sql after the other, up to the first that fails:
\* the server refuses to undo what is not there.
Rollback ==
    /\ pc = "rollback"
    /\ \/ /\ pos \in DOMAIN UndoScript /\ UndoScript[pos] \in applied
          /\ applied' = applied \ {UndoScript[pos]} /\ pos' = pos + 1 /\ UNCHANGED pc
       \/ /\ pc' = "idle" /\ UNCHANGED <<applied, pos>>
    /\ UNCHANGED <<fresh, classified, covered, executions, realIdx, resumeFrom, tries>>

Crash ==
    /\ pc \in {"load", "loop", "ddl", "checkpoint", "rollback"}
    /\ pc' = "crashed"
    /\ UNCHANGED <<fresh, classified, applied, covered, executions, pos, realIdx, resumeFrom, tries>>

Init ==
    /\ fresh \in BOOLEAN /\ classified \in BOOLEAN
    /\ applied = {}
    /\ covered = [a \in 1 .. Executions |-> 0]
    /\ pc = "idle"
    /\ executions = 0 /\ pos = 1 /\ realIdx = 0 /\ resumeFrom = 0 /\ tries = 0
    /\ began = {}

\* began is a history variable: no step reads it.
Next ==
    \/ (Begin \/ StartRollback) /\ began' = applied
    \/ /\ \/ LatestCheckpoint \/ Skip \/ Finish \/ Send \/ ExecDDL \/ InsertCheckpoint
          \/ Rollback \/ Crash
       /\ UNCHANGED began

Spec == Init /\ [][Next]_vars

-----------------------------------------------------------------------------

\* Execute succeeds only with every statement of the script in the schema,
\* whichever executions, lost checkpoints, crashes and rollbacks went before
\* (contract.go: the loop returns nil only past the last statement).
SuccessMeansAll == pc = "succeeded" => applied = Statements

\* A statement is never in the schema without those in front of it: the
\* destructive end of a script does not run ahead of its beginning
\* (contract.go: the resume index, and the return at the first error).
AppliedIsPrefix == \A i \in applied : \A j \in Statements : j < i => j \in applied

\* What a checkpoint covers is in the schema, counting statements as a later
\* Execute of the same attempt does (contract.go: realIdx and resumeFrom leave
\* out blank statements).
CheckpointsTruthful ==
    ~fresh => \A i \in Statements : IndexOf(i) < covered[AttemptNumber] => i \in applied

\* The schema as the runner sees it, and the phase in its file.
Effect(statements) ==
    IF statements = {} THEN "absent" ELSE IF statements = Statements THEN "applied" ELSE "partial"

ThePhase == [name |-> "contract", rollbackSQL |-> UndoScript # << >>]

\* Statement by statement, with retries, checkpoints and crashes in between,
\* Execute and Rollback do to the schema what the runner's model takes each of
\* them to do in one step (contract.go, for Results; a failed Execute may have
\* taken effect and lost the answer).
DeliversResults ==
    Statements # {} =>
      LET was == Effect(began)
          is == Effect(applied)
          executed == \E res \in ExecResults("contract", was) : is = res[1]
          undone == is \in RollbackResults(ThePhase, was)
      IN  /\ pc = "succeeded" => <<is, "nil">> \in ExecResults("contract", was)
          /\ pc = "failed" => executed
          /\ pc = "idle" => undone
          /\ pc = "crashed" => executed \/ undone

\* docs/migration-yaml.md: "Resume skips already-applied statements using
\* statement_index": as the runner executes the phase, no statement that is in
\* the schema and that a checkpoint of the phase covers is sent again.
ResumeSkipsCheckpointed ==
    fresh /\ pc = "ddl" /\ pos \in applied =>
      \A a \in DOMAIN covered : covered[a] <= IndexOf(pos)

=============================================================================
