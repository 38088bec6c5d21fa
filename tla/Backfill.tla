------------------------------ MODULE Backfill ------------------------------
(***************************************************************************)
(* The backfill executor (internal/phase/backfill.go) on a table that the  *)
(* application writes to: batches of an UPDATE that fills the rows whose   *)
(* column is NULL, in plain mode any of them, in PK cursor mode those      *)
(* behind last_pk in order, until a batch is empty and done_when agrees.   *)
(*                                                                         *)
(* The queries belong to the migration file; they are those of the         *)
(* integration tests and of the documentation.                             *)
(***************************************************************************)
EXTENDS Integers, FiniteSets, FiniteSetsExt

CONSTANTS
    MaxId,            \* the largest primary key the application gets to (bound)
    FirstIds,         \* the rows of the table when the migration starts
    Size,             \* batch.size
    CheckpointEvery,  \* the values of batch.checkpoint_every, normalised
    Executions,       \* how often the phase may be executed (bound)
    MaxLagEvents      \* where min(delay_ms * 2^n, 60 s) reaches its maximum

Ids == 1 .. MaxId

ASSUME IdsAssumption == MaxId \in Nat /\ FirstIds \subseteq Ids
ASSUME NumbersAssumption ==
    {Size, Executions, MaxLagEvents} \cup CheckpointEvery \subseteq Nat \ {0}

GoodReadings == 3

VARIABLES
    cursorMode,               \* pk_cursor_query is set
    throttled,                \* lag_threshold_ms is above 0
    checkpointEvery,
    fresh,                    \* whether every execution has an attempt of its own
    rows, filled,             \* the table
    pc,
    executions,
    lastPK,
    batchNum,                 \* modulo checkpointEvery
    consecutiveLagEvents,     \* MaxLagEvents at most
    consecutiveGoodReadings,
    nullAtStart,              \* what done_when said at first
    totalProcessed,
    saved,                    \* per attempt, its latest checkpoint
    calm,                     \* history: good readings since the last bad one
    raced,                    \* history: a NULL row came behind the cursor
    late,                     \* history: NULL rows that came after done_when
    joined                    \* history: how many came since nullAtStart

table == <<rows, filled>>
throttle == <<consecutiveLagEvents, consecutiveGoodReadings, calm>>
config == <<cursorMode, throttled, checkpointEvery, fresh>>
watch == <<raced, late, joined>>
counts == <<nullAtStart, totalProcessed>>
vars == <<config, table, pc, executions, lastPK, batchNum, throttle, counts, saved, watch>>

AttemptNumber == IF fresh THEN executions ELSE 1

NoCheckpoint == [nullAtStart |-> 0, totalProcessed |-> 0, lastPK |-> 0]

Remaining == rows \ filled

Running == {"start", "loop", "batch", "cursor", "checkpoint", "done_when", "final"}

Begin ==
    /\ pc \in {"idle", "failed", "crashed"} /\ executions < Executions
    /\ executions' = executions + 1
    /\ pc' = "start"
    /\ UNCHANGED <<config, table, lastPK, batchNum, throttle, counts, saved, watch>>

\* Mutant: a resumed attempt goes on counting.
TotalKept == totalProcessed

FirstTotal == 0

\* What is left to do, and the cursor of this attempt's latest checkpoint, 0
\* without one.
Start ==
    /\ pc = "start"
    /\ lastPK' = IF cursorMode THEN saved[AttemptNumber].lastPK ELSE 0
    /\ nullAtStart' = Cardinality(Remaining) /\ totalProcessed' = FirstTotal /\ joined' = 0
    /\ batchNum' = 0
    /\ consecutiveLagEvents' = 0 /\ consecutiveGoodReadings' = 0 /\ calm' = GoodReadings
    /\ pc' = "loop"
    /\ UNCHANGED <<config, table, executions, saved, raced, late>>

Unthrottled ==
    /\ pc = "loop" /\ ~throttled /\ pc' = "batch"
    /\ UNCHANGED <<config, table, executions, lastPK, batchNum, throttle, counts, saved, watch>>

\* Mutant: a reading above the threshold leaves the count of good ones alone.
GoodReadingsKept == consecutiveGoodReadings

GoodAfterLag == 0

\* Above the threshold: back off, and read again.
Throttle ==
    /\ pc = "loop" /\ throttled
    /\ consecutiveLagEvents' = Min({consecutiveLagEvents + 1, MaxLagEvents})
    /\ consecutiveGoodReadings' = GoodAfterLag
    /\ calm' = 0
    /\ UNCHANGED <<config, table, pc, executions, lastPK, batchNum, counts, saved, watch>>

\* Below the threshold, or not known: go on; the third good reading in a row
\* ends the backoff.
GoodReading ==
    /\ pc = "loop" /\ throttled /\ pc' = "batch"
    /\ IF consecutiveGoodReadings + 1 >= GoodReadings
       THEN consecutiveLagEvents' = 0 /\ consecutiveGoodReadings' = 0
       ELSE consecutiveGoodReadings' = consecutiveGoodReadings + 1 /\ UNCHANGED consecutiveLagEvents
    /\ calm' = Min({calm + 1, GoodReadings})
    /\ UNCHANGED <<config, table, executions, lastPK, batchNum, counts, saved, watch>>

\* The first Size of a set of ids, in the order of the key.
FirstOf(S) == {i \in S : Cardinality({j \in S : j <= i}) <= Size}

\* What LIMIT may leave of the rows the UPDATE selects.
Batches ==
    IF cursorMode
    THEN {FirstOf({i \in Remaining : i > lastPK})}
    ELSE kSubset(Min({Size, Cardinality(Remaining)}), Remaining)

\* The UPDATE; its answer may be lost.
ExecBatch ==
    /\ pc = "batch"
    /\ batchNum' = (batchNum + 1) % checkpointEvery
    /\ \E batch \in Batches :
         /\ filled' = filled \cup batch
         /\ \/ pc' = "failed"
            \/ batch = {} /\ pc' = "done_when"
            \/ batch # {} /\ cursorMode /\ pc' = "cursor"
            \/ batch # {} /\ ~cursorMode /\ pc' = "checkpoint"
         /\ totalProcessed' = IF pc' = "failed" THEN totalProcessed
                               ELSE totalProcessed + Cardinality(batch)
    /\ UNCHANGED <<config, rows, executions, lastPK, throttle, nullAtStart, saved, watch>>

\* Mutant: the largest key of the table, without the limit.
MaxPK == Max(rows \cup {lastPK})

\* pk_cursor_query: the last of the Size rows behind the cursor, filled or not.
NewPK == Max(FirstOf({i \in rows : i > lastPK}) \cup {lastPK})

AdvanceCursor ==
    /\ pc = "cursor"
    /\ lastPK' = NewPK
    /\ pc' = "checkpoint"
    /\ UNCHANGED <<config, table, executions, batchNum, throttle, counts, saved, watch>>

\* A failed checkpoint is only logged.
Saves ==
    {saved, [saved EXCEPT ![AttemptNumber] =
        [nullAtStart |-> nullAtStart, totalProcessed |-> totalProcessed, lastPK |-> lastPK]]}

InsertCheckpoint ==
    /\ pc = "checkpoint"
    /\ IF batchNum = 0 THEN saved' \in Saves ELSE UNCHANGED saved
    /\ pc' = "loop"
    /\ UNCHANGED <<config, table, executions, lastPK, batchNum, throttle, counts, watch>>

\* Mutant: an empty batch is the end.
EmptyIsDone == TRUE

IsDone == Remaining = {}

DoneWhen ==
    /\ pc = "done_when"
    /\ pc' = IF IsDone THEN "final" ELSE "loop"
    /\ late' = {}
    /\ UNCHANGED <<config, table, executions, lastPK, batchNum, throttle, counts, saved, raced, joined>>

FinalCheckpoint ==
    /\ pc = "final"
    /\ saved' \in Saves
    /\ pc' = "succeeded"
    /\ UNCHANGED <<config, table, executions, lastPK, batchNum, throttle, counts, watch>>

\* A query fails, or the context is done.
Fail ==
    /\ pc \in Running \ {"checkpoint", "final"}
    /\ pc' = "failed"
    /\ UNCHANGED <<config, table, executions, lastPK, batchNum, throttle, counts, saved, watch>>

Crash ==
    /\ pc \in Running
    /\ pc' = "crashed"
    /\ UNCHANGED <<config, table, executions, lastPK, batchNum, throttle, counts, saved, watch>>

\* The application inserts a row, writing the new column or leaving it NULL.
Insert ==
    /\ \E i \in Ids \ rows :
         /\ rows' = rows \cup {i}
         /\ \/ filled' = filled \cup {i} /\ UNCHANGED watch
            \/ /\ UNCHANGED filled
               /\ raced' = (raced \/ pc = "cursor" \/ i <= lastPK
                              \/ \E a \in DOMAIN saved : i <= saved[a].lastPK)
               /\ late' = late \cup {i}
               /\ joined' = joined + 1
    /\ UNCHANGED <<config, pc, executions, lastPK, batchNum, throttle, counts, saved>>

Init ==
    /\ cursorMode \in BOOLEAN /\ throttled \in BOOLEAN /\ fresh \in BOOLEAN
    /\ checkpointEvery \in CheckpointEvery
    /\ rows = FirstIds /\ filled = {}
    /\ pc = "idle" /\ executions = 0
    /\ lastPK = 0 /\ batchNum = 0
    /\ consecutiveLagEvents = 0 /\ consecutiveGoodReadings = 0 /\ calm = GoodReadings
    /\ nullAtStart = 0 /\ totalProcessed = 0
    /\ saved = [a \in 1 .. Executions |-> NoCheckpoint]
    /\ raced = FALSE /\ late = {} /\ joined = 0

\* What status makes of a checkpoint: nothing without rows at the start, else a
\* progress that is capped at 1 where nothing is left.
Reports(cp) == cp.nullAtStart > 0

NullRowsRemaining(cp) == Max({0, cp.nullAtStart - cp.totalProcessed})

-----------------------------------------------------------------------------

Execute ==
    \/ Start \/ Unthrottled \/ GoodReading \/ ExecBatch \/ AdvanceCursor \/ InsertCheckpoint
    \/ DoneWhen \/ FinalCheckpoint \/ Fail

Next == Begin \/ Execute \/ Throttle \/ Crash \/ Insert

Spec == Init /\ [][Next]_vars

\* Execute keeps running, queries answer, and the replicas keep up again: as
\* Throttle is no part of Execute, it does not go on for ever.
FairSpec == Spec /\ WF_vars(Execute)

-----------------------------------------------------------------------------

\* In cursor mode every row that is still NULL lies behind the cursor and
\* behind every cursor that was saved, whichever batches, lost answers and
\* crashes went before: unless the application inserted a NULL row in front of
\* a cursor, or between a batch and its pk_cursor_query.
NothingLeftBehind ==
    cursorMode /\ ~raced =>
      \A i \in Remaining : i > lastPK /\ \A a \in DOMAIN saved : i > saved[a].lastPK

\* The phase only completes with every row filled that was there when done_when
\* was asked, also if the cursor has left rows behind
\* (backfill.go: an empty batch is not the end).
SuccessMeansDone == pc = "succeeded" => Remaining \subseteq late

\* status never promises less work than there is: the rows it reports as left,
\* from the latest checkpoint of an attempt and whatever batches, lost answers
\* and lost checkpoints came before and after, are all there are, but for those
\* that joined since the attempt began to count.
ReportedIsLeft ==
    fresh /\ executions > 0 /\ Reports(saved[AttemptNumber])
      => Cardinality(Remaining) <= NullRowsRemaining(saved[AttemptNumber]) + joined

\* docs/phases.md, lag throttling: "Resets after 3 consecutive good readings",
\* and not before (backfill.go: the two counters).
BackoffForgets == consecutiveLagEvents = 0 <=> calm = GoodReadings

\* Every execution returns once the application has stopped inserting, unless a
\* row was left behind the cursor: then the batches stay empty, done_when is
\* never satisfied, and nothing bounds the loop.
EveryBackfillEnds == pc \in Running ~> pc \notin Running \/ raced

\* The way from each step to the end of a batch that fills nothing, behind a
\* weight of ten for every row that is still to be filled.
ToTheEnd ==
    [start |-> 13, cursor |-> 12, checkpoint |-> 11, loop |-> 10, batch |-> 9,
     done_when |-> IF Remaining = {} THEN 2 ELSE 11, final |-> 1,
     idle |-> 0, succeeded |-> 0, failed |-> 0, crashed |-> 0]

StepsLeft == 10 * Cardinality(Remaining) + ToTheEnd[pc]

\* What makes every backfill end: as long as no row is behind the cursor, a batch
\* fills rows or there are none, so that only the application's inserts and
\* readings above the threshold can keep the loop from running out; the latter
\* cost no progress.
BatchesRunOut ==
    [][/\ Execute /\ ~raced => StepsLeft' < StepsLeft
       /\ Throttle => StepsLeft' = StepsLeft]_vars

=============================================================================
