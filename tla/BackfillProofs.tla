--------------------------- MODULE BackfillProofs ---------------------------
(***************************************************************************)
(* The invariants of Backfill, for every table, batch size and number of   *)
(* executions, and whatever the application inserts.                       *)
(***************************************************************************)
EXTENDS Backfill, FiniteSetTheorems, WellFoundedInduction, TLAPS

\* The actions that only move pc, as far as the table and the checkpoints go.
Quiet == UNCHANGED <<config, table, executions, lastPK, counts, saved, raced, joined>>

LEMMA QuietSteps ==
    ASSUME Unthrottled \/ Throttle \/ GoodReading \/ DoneWhen \/ Fail \/ Crash \/ UNCHANGED vars
    PROVE  Quiet
BY DEF Quiet, Unthrottled, Throttle, GoodReading, DoneWhen, Fail, Crash, vars, throttle, watch,
       config, table, counts

-----------------------------------------------------------------------------
(* done_when                                                               *)

\* From the answer of done_when on, what is left arrived behind it.
DoneInv == pc \in {"final", "succeeded"} => Remaining \subseteq late

LEMMA DoneStep == DoneInv /\ [Next]_vars => DoneInv'
<1> SUFFICES ASSUME DoneInv, [Next]_vars
             PROVE  DoneInv'
  OBVIOUS
<1>1. CASE DoneWhen
  BY <1>1 DEF DoneWhen, IsDone, DoneInv, Remaining, table
<1>2. CASE Insert
  BY <1>2 DEF Insert, DoneInv, Remaining, watch
<1>3. CASE FinalCheckpoint
  BY <1>3 DEF FinalCheckpoint, DoneInv, Remaining, table, watch
<1>4. CASE UNCHANGED vars
  BY <1>4 DEF vars, DoneInv, Remaining, table, watch
<1>5. CASE Begin \/ Start \/ Unthrottled \/ GoodReading \/ ExecBatch \/ AdvanceCursor
             \/ InsertCheckpoint \/ Fail \/ Crash
  BY <1>5 DEF Begin, Start, Unthrottled, GoodReading, ExecBatch, AdvanceCursor, InsertCheckpoint,
              Fail, Crash, DoneInv
<1>6. CASE Throttle
  BY <1>6 DEF Throttle, DoneInv
<1> QED
  BY <1>1, <1>2, <1>3, <1>4, <1>5, <1>6 DEF Next, Execute

\* A backfill only succeeds with every row filled that was there when done_when
\* was asked, in both modes.
THEOREM SuccessIsDone == Spec => []SuccessMeansDone
<1>1. Init => DoneInv
  BY DEF Init, DoneInv
<1>2. DoneInv => SuccessMeansDone
  BY DEF DoneInv, SuccessMeansDone
<1> QED
  BY <1>1, <1>2, DoneStep, PTL DEF Spec

-----------------------------------------------------------------------------
(* The backoff                                                             *)

\* While there is a backoff the code's counter of good readings is the number
\* of them since the last bad one.
BackoffInv ==
    /\ consecutiveLagEvents \in Nat /\ consecutiveGoodReadings \in 0 .. 2 /\ calm \in 0 .. 3
    /\ consecutiveLagEvents = 0 <=> calm = 3
    /\ consecutiveLagEvents # 0 => consecutiveGoodReadings = calm

LEMMA Minimum ==
    ASSUME NEW a \in Int, NEW b \in Int
    PROVE  Min({a, b}) = IF a <= b THEN a ELSE b
<1>1. CASE a <= b
  BY <1>1 DEF Min
<1>2. CASE ~(a <= b)
  BY <1>2 DEF Min
<1> QED
  BY <1>1, <1>2

LEMMA Largest ==
    ASSUME NEW a \in Int, NEW b \in Int
    PROVE  Max({a, b}) = IF a <= b THEN b ELSE a
<1>1. CASE a <= b
  BY <1>1 DEF Max
<1>2. CASE ~(a <= b)
  BY <1>2 DEF Max
<1> QED
  BY <1>1, <1>2

LEMMA BackoffStep == BackoffInv /\ [Next]_vars => BackoffInv'
<1> SUFFICES ASSUME BackoffInv, [Next]_vars
             PROVE  BackoffInv'
  OBVIOUS
<1>1. CASE Start
  BY <1>1 DEF Start, BackoffInv, GoodReadings
<1>2. CASE Throttle
  <2>1. MaxLagEvents \in Nat \ {0}
    BY NumbersAssumption
  <2>2. consecutiveLagEvents' \in Nat \ {0}
    BY <1>2, <2>1, Minimum DEF Throttle, BackoffInv
  <2> QED
    BY <1>2, <2>2 DEF Throttle, BackoffInv, GoodAfterLag
<1>3. CASE GoodReading
  <2>1. calm' = IF calm + 1 <= 3 THEN calm + 1 ELSE 3
    BY <1>3, Minimum DEF GoodReading, BackoffInv, GoodReadings
  <2> QED
    BY <1>3, <2>1 DEF GoodReading, BackoffInv, GoodReadings
<1>4. CASE UNCHANGED throttle
  BY <1>4 DEF throttle, BackoffInv
<1>5. CASE Begin \/ Unthrottled \/ ExecBatch \/ AdvanceCursor \/ InsertCheckpoint \/ DoneWhen
             \/ FinalCheckpoint \/ Fail \/ Crash \/ Insert \/ UNCHANGED vars
  BY <1>4, <1>5 DEF Begin, Unthrottled, ExecBatch, AdvanceCursor, InsertCheckpoint, DoneWhen,
                    FinalCheckpoint, Fail, Crash, Insert, vars
<1> QED
  BY <1>1, <1>2, <1>3, <1>5 DEF Next, Execute

\* The backoff ends at the third good reading in a row, and not before.
THEOREM BackoffIsForgotten == Spec => []BackoffForgets
<1>1. Init => BackoffInv
  BY DEF Init, BackoffInv, GoodReadings
<1>2. BackoffInv => BackoffForgets
  BY DEF BackoffInv, BackoffForgets, GoodReadings
<1> QED
  BY <1>1, <1>2, BackoffStep, PTL DEF Spec

-----------------------------------------------------------------------------
(* The table                                                               *)

\* Types, as far as the table and the checkpoints need them.
Checkpoints == [nullAtStart : Nat, totalProcessed : Nat, lastPK : Nat]

TableInv ==
    /\ rows \subseteq Ids
    /\ executions \in 0 .. Executions /\ (executions = 0 => pc = "idle")
    /\ fresh \in BOOLEAN
    /\ lastPK \in Nat /\ nullAtStart \in Nat /\ totalProcessed \in Nat /\ joined \in Nat
    /\ saved \in [1 .. Executions -> Checkpoints]

LEMMA IdsAreFinite ==
    ASSUME NEW S \in SUBSET Ids
    PROVE  IsFiniteSet(S) /\ Cardinality(S) \in Nat /\ S \subseteq 1 .. MaxId
<1>1. IsFiniteSet(1 .. MaxId)
  BY IdsAssumption, FS_Interval
<1>2. S \in SUBSET (1 .. MaxId)
  BY DEF Ids
<1>3. IsFiniteSet(S)
  BY <1>1, <1>2, FS_Subset
<1> QED
  BY <1>2, <1>3, FS_CardinalityType

LEMMA RowsAreFinite ==
    ASSUME TableInv, NEW S \in SUBSET rows
    PROVE  IsFiniteSet(S) /\ Cardinality(S) \in Nat /\ S \subseteq 1 .. MaxId
BY IdsAreFinite DEF TableInv

\* A bounded set of keys has a largest one: MAX(id) finds it.
LEMMA LargestKey ==
    ASSUME NEW S \in SUBSET Nat, S # {}, NEW b \in Nat, \A i \in S : i <= b
    PROVE  Max(S) \in S /\ \A i \in S : i <= Max(S)
<1> DEFINE Above == {u \in Nat : \A i \in S : i <= u}
<1>1. PICK u \in Above : \A v \in Above : ~ <<v, u>> \in OpToRel(<, Nat)
  <2>1. Above \subseteq Nat /\ Above # {}
    OBVIOUS
  <2> QED
    BY <2>1, NatLessThanWellFounded, WFMin
<1>2. \A v \in Above : ~(v < u)
  BY <1>1 DEF OpToRel
<1>3. u \in S
  <2>1. SUFFICES ASSUME u \notin S PROVE FALSE
    OBVIOUS
  <2>2. PICK i \in S : TRUE
    OBVIOUS
  <2>3. i <= u - 1 /\ u - 1 \in Nat /\ \A j \in S : j <= u - 1
    BY <2>1, <2>2
  <2> QED
    BY <1>2, <2>3
<1> QED
  BY <1>3 DEF Max

\* A row that is among the first of a set is among the first of every part of
\* the set it belongs to, and so is every smaller one of the set.
LEMMA FirstOfPart ==
    ASSUME NEW T \in SUBSET Ids, NEW S \in SUBSET T, NEW i \in S, i \in FirstOf(T)
    PROVE  i \in FirstOf(S)
<1> DEFINE InS == {j \in S : j <= i}
           InT == {j \in T : j <= i}
<1>1. InS \in SUBSET InT /\ InT \in SUBSET Ids
  OBVIOUS
<1>2. Cardinality(InS) <= Cardinality(InT)
  BY <1>1, IdsAreFinite, FS_Subset
<1>3. Cardinality(InS) \in Nat /\ Cardinality(InT) \in Nat
  BY <1>1, IdsAreFinite
<1>4. Cardinality(InT) <= Size
  BY DEF FirstOf
<1> QED
  BY <1>2, <1>3, <1>4, NumbersAssumption DEF FirstOf

LEMMA FirstOfIsPrefix ==
    ASSUME NEW T \in SUBSET Ids, NEW k \in FirstOf(T), NEW i \in T, i <= k
    PROVE  i \in FirstOf(T)
<1> DEFINE ToI == {j \in T : j <= i}
           ToK == {j \in T : j <= k}
<1>1. T \subseteq 1 .. MaxId /\ k \in T
  BY IdsAreFinite DEF FirstOf
<1>2. ToI \in SUBSET ToK /\ ToK \in SUBSET Ids
  <2>1. \A j \in T : j <= i => j <= k
    BY <1>1, IdsAssumption
  <2> QED
    BY <2>1
<1>3. Cardinality(ToI) <= Cardinality(ToK)
  BY <1>2, IdsAreFinite, FS_Subset
<1>4. Cardinality(ToI) \in Nat /\ Cardinality(ToK) \in Nat
  BY <1>2, IdsAreFinite
<1>5. Cardinality(ToK) <= Size
  BY DEF FirstOf
<1> QED
  BY <1>3, <1>4, <1>5, NumbersAssumption DEF FirstOf

\* The key the cursor moves to: the cursor or one of the first rows behind it.
LEMMA NewCursor ==
    ASSUME TableInv
    PROVE  /\ NewPK \in Nat
           /\ NewPK = lastPK \/ NewPK \in FirstOf({i \in rows : i > lastPK})
<1> DEFINE S == FirstOf({i \in rows : i > lastPK}) \cup {lastPK}
<1>1. S \subseteq (1 .. MaxId) \cup {lastPK} /\ S # {}
  BY RowsAreFinite DEF FirstOf
<1>2. /\ MaxId + lastPK \in Nat
      /\ \A i \in (1 .. MaxId) \cup {lastPK} : i \in Nat /\ i <= MaxId + lastPK
  BY IdsAssumption DEF TableInv
<1> HIDE DEF S
<1>3. S \in SUBSET Nat /\ \A i \in S : i <= MaxId + lastPK
  BY <1>1, <1>2
<1>4. Max(S) \in S
  BY <1>1, <1>2, <1>3, LargestKey
<1> QED
  BY <1>3, <1>4 DEF NewPK, S

LEMMA Batch ==
    ASSUME TableInv, NEW batch \in Batches
    PROVE  batch \subseteq Remaining
BY DEF Batches, FirstOf, kSubset

LEMMA Saved ==
    ASSUME TableInv, executions > 0, saved' \in Saves
    PROVE  /\ AttemptNumber \in 1 .. Executions
           /\ saved' \in [1 .. Executions -> Checkpoints]
           /\ \/ saved' = saved
              \/ /\ saved'[AttemptNumber] = [nullAtStart |-> nullAtStart,
                         totalProcessed |-> totalProcessed, lastPK |-> lastPK]
                 /\ \A a \in 1 .. Executions : a # AttemptNumber => saved'[a] = saved[a]
<1>1. AttemptNumber \in 1 .. Executions
  BY NumbersAssumption DEF AttemptNumber, TableInv
<1> DEFINE cp == [nullAtStart |-> nullAtStart, totalProcessed |-> totalProcessed, lastPK |-> lastPK]
<1>2. cp \in Checkpoints
  BY DEF TableInv, Checkpoints
<1>3. saved' = saved \/ saved' = [saved EXCEPT ![AttemptNumber] = cp]
  BY DEF Saves
<1> HIDE DEF cp
<1>4. saved \in [1 .. Executions -> Checkpoints]
  BY DEF TableInv
<1>5. \/ saved' = saved
      \/ /\ saved' \in [1 .. Executions -> Checkpoints]
         /\ saved'[AttemptNumber] = cp
         /\ \A a \in 1 .. Executions : a # AttemptNumber => saved'[a] = saved[a]
  BY <1>1, <1>2, <1>3, <1>4
<1> QED
  BY <1>1, <1>4, <1>5 DEF cp


LEMMA TableInit == Init => TableInv
BY IdsAssumption, NumbersAssumption DEF Init, TableInv, Checkpoints, NoCheckpoint

LEMMA TableStep == TableInv /\ [Next]_vars => TableInv'
<1> SUFFICES ASSUME TableInv, [Next]_vars
             PROVE  TableInv'
  OBVIOUS
<1>1. CASE Begin
  <2>1. executions' \in 1 .. Executions
    BY <1>1, NumbersAssumption DEF Begin, TableInv
  <2> QED
    BY <1>1, <2>1, NumbersAssumption DEF Begin, TableInv, config, table, counts, watch
<1>2. CASE Start
  <2>1. Cardinality(Remaining) \in Nat
    BY RowsAreFinite DEF Remaining
  <2>2. AttemptNumber \in 1 .. Executions
    BY <1>2, NumbersAssumption DEF Start, AttemptNumber, TableInv
  <2>3. saved[AttemptNumber] \in Checkpoints
    BY <2>2 DEF TableInv
  <2>4. lastPK' \in Nat
    BY <1>2, <2>3 DEF Start, Checkpoints
  <2> QED
    BY <1>2, <2>1, <2>4 DEF Start, TableInv, FirstTotal, config, table
<1>3. CASE ExecBatch
  <2>1. PICK batch \in Batches : totalProcessed' \in {totalProcessed, totalProcessed + Cardinality(batch)}
    BY <1>3 DEF ExecBatch
  <2>2. Cardinality(batch) \in Nat
    BY <2>1, Batch, RowsAreFinite DEF Remaining
  <2>3. totalProcessed' \in Nat
    BY <2>1, <2>2 DEF TableInv
  <2>4. executions # 0
    BY <1>3 DEF ExecBatch, TableInv
  <2> QED
    BY <1>3, <2>3, <2>4 DEF ExecBatch, TableInv, config, watch
<1>4. CASE AdvanceCursor
  BY <1>4, NewCursor DEF AdvanceCursor, TableInv, config, table, counts, watch
<1>5. CASE InsertCheckpoint \/ FinalCheckpoint
  <2>1. executions > 0
    BY <1>5 DEF InsertCheckpoint, FinalCheckpoint, TableInv
  <2>2. saved' = saved \/ saved' \in Saves
    BY <1>5 DEF InsertCheckpoint, FinalCheckpoint
  <2>3. saved' \in [1 .. Executions -> Checkpoints]
    BY <2>1, <2>2, Saved DEF TableInv
  <2> QED
    BY <1>5, <2>1, <2>3 DEF InsertCheckpoint, FinalCheckpoint, TableInv, config, table, counts, watch
<1>6. CASE Insert
  <2>1. PICK i \in Ids \ rows : rows' = rows \cup {i} /\ joined' \in {joined, joined + 1}
    BY <1>6 DEF Insert, watch
  <2> QED
    BY <1>6, <2>1 DEF Insert, TableInv, config, counts
<1>7. CASE Unthrottled \/ Throttle \/ GoodReading \/ DoneWhen \/ Fail \/ Crash \/ UNCHANGED vars
  <2>1. Quiet
    BY <1>7, QuietSteps
  <2>2. executions = 0 => pc' = "idle"
    BY <1>7 DEF TableInv, Unthrottled, Throttle, GoodReading, DoneWhen, Fail, Crash, Running, vars
  <2> QED
    BY <2>1, <2>2 DEF Quiet, TableInv, config, table, counts
<1> QED
  BY <1>1, <1>2, <1>3, <1>4, <1>5, <1>6, <1>7 DEF Next, Execute

-----------------------------------------------------------------------------
(* The cursor                                                              *)

Behind == {i \in rows : i > lastPK}

\* Between a batch and its pk_cursor_query the first rows behind the cursor are
\* filled, so that the query passes over none.
CursorInv ==
    cursorMode /\ ~raced =>
      /\ \A i \in Remaining : i > lastPK /\ \A a \in 1 .. Executions : i > saved[a].lastPK
      /\ pc = "cursor" => FirstOf(Behind) \cap Remaining = {}

LEMMA CursorInit == Init => CursorInv
<1> SUFFICES ASSUME Init
             PROVE  CursorInv
  OBVIOUS
<1>1. Remaining \subseteq Ids /\ lastPK = 0 /\ pc = "idle"
  BY IdsAssumption DEF Init, Remaining
<1>2. \A a \in 1 .. Executions : saved[a].lastPK = 0
  BY DEF Init, NoCheckpoint
<1> QED
  BY <1>1, <1>2 DEF CursorInv, Ids

LEMMA CursorStep == TableInv /\ CursorInv /\ [Next]_vars => CursorInv'
<1> SUFFICES ASSUME TableInv, CursorInv, [Next]_vars, cursorMode', ~raced'
             PROVE  /\ \A i \in Remaining' : i > lastPK' /\ \A a \in 1 .. Executions : i > saved'[a].lastPK
                    /\ pc' = "cursor" => FirstOf(Behind)' \cap Remaining' = {}
  BY DEF CursorInv
<1>1. cursorMode /\ ~raced
  <2>1. config' = config
    BY DEF Next, Execute, Begin, Start, Unthrottled, Throttle, GoodReading, ExecBatch, AdvanceCursor,
           InsertCheckpoint, DoneWhen, FinalCheckpoint, Fail, Crash, Insert, vars
  <2>2. CASE Insert
    <3>1. CASE UNCHANGED watch
      <4>1. raced' = raced
        BY <3>1 DEF watch
      <4> QED
        BY <2>1, <4>1, Zenon DEF config
    <3>2. CASE \E i \in Ids :
                 raced' = (raced \/ pc = "cursor" \/ i <= lastPK
                             \/ \E a \in DOMAIN saved : i <= saved[a].lastPK)
      BY <2>1, <3>2, Zenon DEF config
    <3> QED
      BY <2>2, <3>1, <3>2 DEF Insert
  <2>3. CASE ~Insert
    <3>1. raced' = raced
      BY <2>3 DEF Next, Execute, Begin, Start, Unthrottled, Throttle, GoodReading, ExecBatch,
                  AdvanceCursor, InsertCheckpoint, DoneWhen, FinalCheckpoint, Fail, Crash, vars, watch
    <3> QED
      BY <2>1, <3>1, Zenon DEF config
  <2> QED
    BY <2>2, <2>3
<1>2. /\ \A i \in Remaining : i > lastPK /\ \A a \in 1 .. Executions : i > saved[a].lastPK
      /\ pc = "cursor" => FirstOf(Behind) \cap Remaining = {}
  BY <1>1 DEF CursorInv
<1>3. Behind \in SUBSET Ids /\ Behind \in SUBSET rows /\ Remaining \in SUBSET rows
  BY DEF Behind, Remaining, TableInv
<1>4. CASE Begin
  BY <1>2, <1>4 DEF Begin, table, Remaining
<1>5. CASE Start
  <2>1. AttemptNumber \in 1 .. Executions
    BY <1>5, NumbersAssumption DEF Start, AttemptNumber, TableInv
  <2> QED
    BY <1>1, <1>2, <1>5, <2>1 DEF Start, table, Remaining
<1>6. CASE ExecBatch
  <2>1. filled' = filled \cup FirstOf({i \in Remaining : i > lastPK})
    BY <1>1, <1>6 DEF ExecBatch, Batches
  <2>2. UNCHANGED <<rows, lastPK, saved>> /\ Remaining' \subseteq Remaining
    BY <1>6, <2>1 DEF ExecBatch, Remaining
  <2>3. ASSUME NEW i \in FirstOf(Behind), i \in Remaining
        PROVE  i \in filled'
    <3>1. {j \in Remaining : j > lastPK} \in SUBSET Behind /\ i \in {j \in Remaining : j > lastPK}
      BY <2>3 DEF Behind, Remaining, FirstOf
    <3> QED
      BY <1>3, <2>1, <2>3, <3>1, FirstOfPart
  <2>4. FirstOf(Behind)' = FirstOf(Behind)
    BY <2>2 DEF Behind, FirstOf
  <2> QED
    BY <1>2, <2>2, <2>3, <2>4 DEF Remaining
<1>7. CASE AdvanceCursor
  <2>1. UNCHANGED <<table, saved>> /\ lastPK' = NewPK /\ pc = "cursor" /\ pc' = "checkpoint"
    BY <1>7 DEF AdvanceCursor
  <2>2. ASSUME NEW i \in Remaining
        PROVE  i > NewPK
    <3>1. i \in Behind /\ i \in Nat
      BY <1>2, <1>3, RowsAreFinite DEF Behind
    <3>2. i \notin FirstOf(Behind)
      BY <1>2, <2>1
    <3>3. NewPK = lastPK \/ NewPK \in FirstOf(Behind)
      BY NewCursor DEF Behind
    <3>4. CASE NewPK \in FirstOf(Behind)
      BY <1>3, <3>1, <3>2, <3>4, FirstOfIsPrefix, NewCursor
    <3> QED
      BY <1>2, <3>3, <3>4
  <2> QED
    BY <1>2, <2>1, <2>2 DEF table, Remaining
<1>8. CASE InsertCheckpoint \/ FinalCheckpoint
  <2>1. executions > 0
    BY <1>8 DEF InsertCheckpoint, FinalCheckpoint, TableInv
  <2>2. saved' = saved \/ saved' \in Saves
    BY <1>8 DEF InsertCheckpoint, FinalCheckpoint
  <2>3. \A a \in 1 .. Executions : saved'[a].lastPK \in {lastPK, saved[a].lastPK}
    BY <2>1, <2>2, Saved
  <2>4. UNCHANGED <<table, lastPK>> /\ pc' # "cursor"
    BY <1>8 DEF InsertCheckpoint, FinalCheckpoint
  <2>5. Remaining' = Remaining
    BY <2>4 DEF table, Remaining
  <2> QED
    BY <1>2, <2>3, <2>4, <2>5
<1>9. CASE Insert
  <2>1. PICK i \in Ids \ rows :
          /\ rows' = rows \cup {i}
          /\ \/ filled' = filled \cup {i}
             \/ /\ UNCHANGED filled
                /\ raced' = (raced \/ pc = "cursor" \/ i <= lastPK
                               \/ \E a \in DOMAIN saved : i <= saved[a].lastPK)
    BY <1>9 DEF Insert
  <2>2. UNCHANGED <<pc, lastPK, saved>>
    BY <1>9 DEF Insert
  <2>3. CASE filled' = filled \cup {i}
    <3>1. Remaining' \subseteq Remaining
      BY <2>1, <2>3 DEF Remaining
    <3>2. ASSUME NEW k \in FirstOf(Behind)', k \in Remaining
          PROVE  k \in FirstOf(Behind)
      <4>1. TableInv'
        BY TableStep
      <4>2. Behind' \in SUBSET rows' /\ Behind \in SUBSET Behind'
        BY <2>1, <2>2 DEF Behind
      <4>3. k \in Behind
        BY <1>2, <1>3, <3>2 DEF Behind
      <4>4. Behind' \in SUBSET Ids
        BY <4>1, <4>2 DEF TableInv
      <4>5. k \in FirstOf(Behind')
        BY <3>2 DEF FirstOf
      <4> QED
        BY <4>2, <4>3, <4>4, <4>5, FirstOfPart
    <3> QED
      BY <1>2, <2>2, <3>1, <3>2
  <2>4. CASE UNCHANGED filled /\ filled' # filled \cup {i}
    <3>1. ~(i <= lastPK) /\ pc # "cursor" /\ \A a \in 1 .. Executions : ~(i <= saved[a].lastPK)
      BY <2>1, <2>4 DEF TableInv
    <3>2. i \in Nat /\ \A a \in 1 .. Executions : saved[a].lastPK \in Nat
      BY IdsAssumption DEF Ids, TableInv, Checkpoints
    <3>3. Remaining' \subseteq Remaining \cup {i}
      BY <2>1, <2>4 DEF Remaining
    <3> QED
      BY <1>2, <2>2, <3>1, <3>2, <3>3 DEF TableInv
  <2> QED
    BY <2>1, <2>3, <2>4
<1>10. CASE Unthrottled \/ Throttle \/ GoodReading \/ DoneWhen \/ Fail \/ Crash \/ UNCHANGED vars
  <2>1. Quiet
    BY <1>10, QuietSteps
  <2>2. pc' = "cursor" => pc = "cursor"
    BY <1>10 DEF Unthrottled, Throttle, GoodReading, DoneWhen, Fail, Crash, vars
  <2>3. Remaining' = Remaining /\ FirstOf(Behind)' = FirstOf(Behind)
    BY <2>1 DEF Quiet, table, Remaining, Behind, FirstOf
  <2> QED
    BY <1>2, <2>1, <2>2, <2>3 DEF Quiet
<1> QED
  BY <1>4, <1>5, <1>6, <1>7, <1>8, <1>9, <1>10 DEF Next, Execute

\* In PK cursor mode no row that is still NULL is ever behind the cursor, or
\* behind a saved one, but for those inserted there.
THEOREM NothingIsLeftBehind == Spec => []NothingLeftBehind
<1>1. TableInv /\ CursorInv => NothingLeftBehind
  BY DEF TableInv, CursorInv, NothingLeftBehind
<1> QED
  BY <1>1, TableInit, TableStep, CursorInit, CursorStep, PTL DEF Spec


-----------------------------------------------------------------------------
(* The report                                                              *)

\* What an execution has counted, less what it has processed, covers what is
\* left, and so does its checkpoint; an attempt has none before it has begun to
\* count.
Covers(n, processed) == Cardinality(Remaining) <= n - processed + joined

ReportInv ==
    /\ pc \in Running \ {"start"} => Covers(nullAtStart, totalProcessed)
    /\ fresh =>
         /\ \A a \in 1 .. Executions : a > executions => saved[a] = NoCheckpoint
         /\ pc = "start" => saved[executions] = NoCheckpoint
         /\ executions > 0 /\ saved[executions] # NoCheckpoint
              => Covers(saved[executions].nullAtStart, saved[executions].totalProcessed)

LEMMA FillRows ==
    ASSUME TableInv, NEW batch \in SUBSET Remaining
    PROVE  Cardinality(Remaining \ batch) = Cardinality(Remaining) - Cardinality(batch)
<1>1. Remaining \in SUBSET rows /\ batch \in SUBSET rows /\ Remaining \ batch \in SUBSET rows
  BY DEF Remaining
<1>2. /\ IsFiniteSet(batch) /\ Cardinality(batch) \in Nat
      /\ IsFiniteSet(Remaining \ batch) /\ Cardinality(Remaining \ batch) \in Nat
  BY <1>1, RowsAreFinite
<1>3. (Remaining \ batch) \cup batch = Remaining /\ (Remaining \ batch) \cap batch = {}
  OBVIOUS
<1>4. Cardinality((Remaining \ batch) \cup batch)
        = Cardinality(Remaining \ batch) + Cardinality(batch) - Cardinality((Remaining \ batch) \cap batch)
  BY <1>2, FS_Union
<1> QED
  BY <1>2, <1>3, <1>4, FS_EmptySet

LEMMA ReportStep == TableInv /\ ReportInv /\ [Next]_vars => ReportInv'
<1> SUFFICES ASSUME TableInv, ReportInv, [Next]_vars
             PROVE  ReportInv'
  OBVIOUS
<1>1. Cardinality(Remaining) \in Nat
  BY RowsAreFinite DEF Remaining
<1>2. CASE Begin
  <2>1. /\ executions' = executions + 1 /\ executions' \in 1 .. Executions
        /\ UNCHANGED <<fresh, saved>> /\ pc' = "start"
    BY <1>2, NumbersAssumption DEF Begin, TableInv, config
  <2>2. fresh => saved[executions'] = NoCheckpoint
    BY <2>1 DEF ReportInv, TableInv
  <2> QED
    BY <2>1, <2>2 DEF ReportInv, TableInv
<1>3. CASE Start
  <2>1. /\ nullAtStart' = Cardinality(Remaining) /\ totalProcessed' = 0 /\ joined' = 0
        /\ UNCHANGED <<fresh, executions, saved>> /\ Remaining' = Remaining
        /\ pc = "start" /\ pc' = "loop"
    BY <1>3 DEF Start, FirstTotal, config, table, Remaining
  <2>2. Covers(nullAtStart, totalProcessed)'
    BY <1>1, <2>1 DEF Covers
  <2> QED
    BY <2>1, <2>2 DEF ReportInv
<1>4. CASE ExecBatch
  <2>1. PICK batch \in Batches :
          /\ filled' = filled \cup batch
          /\ pc' # "failed" => totalProcessed' = totalProcessed + Cardinality(batch)
          /\ pc' \in {"failed", "done_when", "cursor", "checkpoint"}
    BY <1>4 DEF ExecBatch
  <2>2. UNCHANGED <<fresh, rows, executions, nullAtStart, saved, joined>> /\ pc = "batch"
    BY <1>4 DEF ExecBatch, config, watch
  <2>3. batch \in SUBSET Remaining
    BY <2>1, Batch
  <2>4. Remaining' = Remaining \ batch
    BY <2>1, <2>2 DEF Remaining
  <2>5. Cardinality(Remaining') = Cardinality(Remaining) - Cardinality(batch)
    BY <2>3, <2>4, FillRows
  <2>6. Cardinality(batch) \in Nat /\ Cardinality(Remaining') \in Int
    <3>1. Cardinality(batch) \in Nat
      BY <2>3, RowsAreFinite DEF Remaining
    <3> QED
      BY <1>1, <2>5, <3>1
  <2>7. ASSUME NEW n \in Nat, NEW processed \in Nat, Covers(n, processed)
        PROVE  Cardinality(Remaining') <= n - processed - Cardinality(batch) + joined'
    BY <1>1, <2>2, <2>5, <2>6, <2>7 DEF Covers, TableInv
  <2>8. pc' # "failed" => Covers(nullAtStart, totalProcessed)'
    <3>1. Covers(nullAtStart, totalProcessed)
      BY <2>2 DEF ReportInv, Running
    <3>2. Cardinality(Remaining') <= nullAtStart - totalProcessed - Cardinality(batch) + joined'
      BY <2>7, <3>1 DEF TableInv
    <3> QED
      BY <2>1, <2>2, <2>6, <3>2 DEF Covers, TableInv
  <2>9. ASSUME NEW n \in Nat, NEW processed \in Nat, Covers(n, processed)
        PROVE  Cardinality(Remaining') <= n - processed + joined'
    <3>1. Cardinality(Remaining') <= n - processed - Cardinality(batch) + joined'
      BY <2>7, <2>9
    <3> QED
      BY <2>2, <2>6, <3>1 DEF TableInv
  <2>10. fresh /\ executions > 0 /\ saved[executions] # NoCheckpoint
           => Covers(saved[executions].nullAtStart, saved[executions].totalProcessed)'
    <3>1. executions > 0 => saved[executions] \in Checkpoints
      BY DEF TableInv
    <3> QED
      BY <2>2, <2>9, <3>1 DEF ReportInv, Covers, Checkpoints
  <2> QED
    BY <2>1, <2>2, <2>8, <2>10 DEF ReportInv, Running
<1>5. CASE InsertCheckpoint \/ FinalCheckpoint
  <2>1. executions > 0
    BY <1>5 DEF InsertCheckpoint, FinalCheckpoint, TableInv
  <2>2. saved' = saved \/ saved' \in Saves
    BY <1>5 DEF InsertCheckpoint, FinalCheckpoint
  <2>3. /\ UNCHANGED <<fresh, executions, nullAtStart, totalProcessed, joined>> /\ Remaining' = Remaining
        /\ pc \in Running \ {"start"} /\ pc' \in {"loop", "succeeded"}
    BY <1>5 DEF InsertCheckpoint, FinalCheckpoint, config, table, counts, watch, Remaining, Running
  <2>4. Covers(nullAtStart, totalProcessed)
    BY <2>3 DEF ReportInv
  <2>5. Covers(nullAtStart, totalProcessed)'
    BY <2>3, <2>4 DEF Covers
  <2>6. CASE saved' = saved
    BY <2>3, <2>5, <2>6 DEF ReportInv, Covers
  <2>7. CASE saved' # saved /\ fresh
    <3>1. /\ saved'[executions].nullAtStart = nullAtStart
          /\ saved'[executions].totalProcessed = totalProcessed
          /\ \A a \in 1 .. Executions : a # executions => saved'[a] = saved[a]
      BY <2>1, <2>2, <2>7, Saved DEF AttemptNumber
    <3>2. executions \in 1 .. Executions
      BY <2>1 DEF TableInv
    <3> QED
      BY <2>3, <2>5, <2>7, <3>1, <3>2 DEF ReportInv, Covers
  <2> QED
    BY <2>3, <2>5, <2>6, <2>7 DEF ReportInv
<1>6. CASE Insert
  <2>1. PICK i \in Ids \ rows :
          /\ rows' = rows \cup {i}
          /\ \/ filled' = filled \cup {i} /\ joined' = joined
             \/ filled' = filled /\ joined' = joined + 1
    BY <1>6 DEF Insert, watch
  <2>2. UNCHANGED <<pc, fresh, executions, nullAtStart, totalProcessed, saved>>
    BY <1>6 DEF Insert, config, counts
  <2>3. Cardinality(Remaining') <= Cardinality(Remaining) + (joined' - joined)
    <3>1. IsFiniteSet(Remaining)
      BY RowsAreFinite DEF Remaining
    <3>2. CASE filled' = filled \cup {i} /\ joined' = joined
      <4>1. Remaining' \in SUBSET Remaining
        BY <2>1, <3>2 DEF Remaining
      <4>2. Cardinality(Remaining') <= Cardinality(Remaining)
        BY <3>1, <4>1, FS_Subset
      <4> QED
        BY <1>1, <3>2, <4>2 DEF TableInv
    <3>3. CASE filled' = filled /\ joined' = joined + 1
      <4>1. Remaining' \in SUBSET (Remaining \cup {i})
        BY <2>1, <3>3 DEF Remaining
      <4>2. /\ IsFiniteSet(Remaining \cup {i})
            /\ Cardinality(Remaining \cup {i}) <= Cardinality(Remaining) + 1
        <5>1. /\ IsFiniteSet(Remaining \cup {i})
              /\ Cardinality(Remaining \cup {i})
                   = IF i \in Remaining THEN Cardinality(Remaining) ELSE Cardinality(Remaining) + 1
          BY <3>1, FS_AddElement
        <5> QED
          BY <1>1, <5>1
      <4>3. Cardinality(Remaining') <= Cardinality(Remaining \cup {i})
        BY <4>1, <4>2, FS_Subset
      <4>4. Cardinality(Remaining') \in Nat /\ Cardinality(Remaining \cup {i}) \in Nat
        BY <4>1, <4>2, FS_Subset, FS_CardinalityType
      <4> QED
        BY <1>1, <3>3, <4>2, <4>3, <4>4 DEF TableInv
    <3> QED
      BY <2>1, <3>2, <3>3
  <2>4. Cardinality(Remaining') \in Nat
    BY TableStep, IdsAreFinite DEF TableInv, Remaining
  <2>5. ASSUME NEW n \in Nat, NEW processed \in Nat, Covers(n, processed)
        PROVE  Cardinality(Remaining') <= n - processed + joined'
    BY <1>1, <2>1, <2>3, <2>4, <2>5 DEF Covers, TableInv
  <2>6. executions > 0 => saved[executions] \in Checkpoints
    BY DEF TableInv
  <2> QED
    BY <2>2, <2>5, <2>6 DEF ReportInv, Covers, Checkpoints, TableInv
<1>7. CASE AdvanceCursor
  BY <1>7 DEF AdvanceCursor, ReportInv, Covers, Remaining, Running, config, table, counts, watch
<1>8. CASE Unthrottled \/ Throttle \/ GoodReading \/ DoneWhen \/ Fail \/ Crash \/ UNCHANGED vars
  <2>1. Quiet
    BY <1>8, QuietSteps
  <2>2. /\ pc' \in Running \ {"start"} => pc \in Running \ {"start"}
        /\ pc' = "start" => pc = "start"
    BY <1>8 DEF Unthrottled, Throttle, GoodReading, DoneWhen, Fail, Crash, Running, vars
  <2> QED
    BY <2>1, <2>2 DEF Quiet, ReportInv, Covers, Remaining, config, table, counts
<1> QED
  BY <1>2, <1>3, <1>4, <1>5, <1>6, <1>7, <1>8 DEF Next, Execute

\* What status reports as left is all there is, but for what joined since.
THEOREM ReportCovers == Spec => []ReportedIsLeft
<1>1. Init => ReportInv
  BY DEF Init, ReportInv, Running
<1>2. TableInv /\ ReportInv => ReportedIsLeft
  <2> SUFFICES ASSUME TableInv, ReportInv, fresh, executions > 0, Reports(saved[AttemptNumber])
               PROVE  Cardinality(Remaining) <= NullRowsRemaining(saved[AttemptNumber]) + joined
    BY DEF ReportedIsLeft
  <2> DEFINE cp == saved[executions]
             left == cp.nullAtStart - cp.totalProcessed
  <2>1. AttemptNumber = executions /\ cp \in Checkpoints
    BY DEF AttemptNumber, TableInv
  <2>2. Covers(cp.nullAtStart, cp.totalProcessed)
    BY <2>1 DEF Reports, ReportInv, NoCheckpoint
  <2>3. left \in Int
    BY <2>1 DEF Checkpoints
  <2>4. Cardinality(Remaining) <= left + joined
    BY <2>2 DEF Covers
  <2>5. NullRowsRemaining(cp) = IF left <= 0 THEN 0 ELSE left
    <3>1. NullRowsRemaining(cp) = Max({0, left})
      BY DEF NullRowsRemaining
    <3> HIDE DEF left
    <3> QED
      BY <2>3, <3>1, Largest
  <2> HIDE DEF left
  <2>6. Cardinality(Remaining) \in Nat /\ joined \in Nat
    BY RowsAreFinite DEF Remaining, TableInv
  <2> QED
    BY <2>1, <2>3, <2>4, <2>5, <2>6
<1> QED
  BY <1>1, <1>2, TableInit, TableStep, ReportStep, PTL DEF Spec


-----------------------------------------------------------------------------
(* Every batch uses up rows                                                *)

LEMMA SmallestKey ==
    ASSUME NEW S \in SUBSET Nat, S # {} PROVE \E i \in S : \A j \in S : ~(j < i)
<1>1. IsWellFoundedOn(OpToRel(<, Nat), Nat)
  BY NatLessThanWellFounded
<1>2. PICK i \in S : \A j \in S : ~ <<j, i>> \in OpToRel(<, Nat)
  BY <1>1, WFMin
<1>3. \A j \in S : ~(j < i)
  BY <1>2 DEF OpToRel
<1> QED
  BY <1>3

LEMMA FirstOfSome ==
    ASSUME NEW S \in SUBSET Ids, S # {}
    PROVE  FirstOf(S) # {}
<1>1. S \in SUBSET Nat
  BY DEF Ids
<1>3. PICK i \in S : \A j \in S : ~(j < i)
  BY <1>1, SmallestKey
<1>4. {j \in S : j <= i} = {i}
  <2>1. i \in Nat /\ \A j \in S : j \in Nat
    BY <1>1
  <2>2. \A j \in S : j <= i <=> j = i
    BY <1>3, <2>1
  <2> QED
    BY <2>2
<1>5. Cardinality({i}) = 1
  BY FS_Singleton
<1>6. i \in FirstOf(S)
  BY <1>4, <1>5, NumbersAssumption DEF FirstOf
<1> QED
  BY <1>6

\* A batch is empty only when there is nothing left, unless a row is behind
\* the cursor.
LEMMA EmptyBatch ==
    ASSUME TableInv, CursorInv, ~raced, {} \in Batches
    PROVE  Remaining = {}
<1>1. Remaining \in SUBSET rows /\ rows \in SUBSET Ids
  BY DEF Remaining, TableInv
<1>2. CASE cursorMode
  <2>1. {i \in Remaining : i > lastPK} = Remaining
    BY <1>2 DEF CursorInv
  <2>2. FirstOf(Remaining) = {}
    BY <1>2, <2>1 DEF Batches
  <2> QED
    BY <1>1, <2>2, FirstOfSome
<1>3. CASE ~cursorMode
  <2>1. IsFiniteSet(Remaining) /\ Cardinality(Remaining) \in Nat
    BY <1>1, RowsAreFinite
  <2>2. Cardinality({}) = Min({Size, Cardinality(Remaining)})
    BY <1>3 DEF Batches, kSubset
  <2>3. Cardinality({}) = 0 /\ Size \in Nat \ {0}
    BY FS_EmptySet, NumbersAssumption
  <2>4. Cardinality(Remaining) = 0
    BY <2>1, <2>2, <2>3, Minimum
  <2> QED
    BY <2>1, <2>4, FS_EmptySet
<1> QED
  BY <1>2, <1>3

\* A step that leaves the table alone and goes to a place that is nearer.
LEMMA Nearer ==
    ASSUME TableInv, UNCHANGED table,
           \/ pc = "start" /\ pc' = "loop"
           \/ pc = "loop" /\ pc' = "batch"
           \/ pc = "cursor" /\ pc' = "checkpoint"
           \/ pc = "checkpoint" /\ pc' = "loop"
           \/ pc = "done_when" /\ pc' = "loop" /\ Remaining # {}
           \/ pc = "done_when" /\ pc' = "final" /\ Remaining = {}
           \/ pc = "final" /\ pc' = "succeeded"
           \/ pc \in Running /\ pc' = "failed"
    PROVE  StepsLeft' < StepsLeft
<1>1. Remaining' = Remaining /\ Cardinality(Remaining) \in Nat
  BY RowsAreFinite DEF Remaining, table
<1>2. ToTheEnd' = ToTheEnd
  BY <1>1 DEF ToTheEnd
<1>3. ToTheEnd[pc'] \in Nat /\ ToTheEnd[pc] \in Nat /\ ToTheEnd[pc'] < ToTheEnd[pc]
  BY DEF ToTheEnd, Running
<1>4. StepsLeft' = 10 * Cardinality(Remaining) + ToTheEnd[pc']
  BY <1>1, <1>2 DEF StepsLeft
<1> QED
  BY <1>1, <1>3, <1>4 DEF StepsLeft

LEMMA BatchUses ==
    ASSUME TableInv, CursorInv, ~raced, ExecBatch
    PROVE  StepsLeft' < StepsLeft
<1>1. PICK batch \in Batches :
        /\ filled' = filled \cup batch
        /\ \/ pc' = "failed"
           \/ batch = {} /\ pc' = "done_when"
           \/ batch # {} /\ pc' \in {"cursor", "checkpoint"}
  BY DEF ExecBatch
<1>2. batch \in SUBSET Remaining /\ Remaining' = Remaining \ batch
  BY <1>1, Batch DEF ExecBatch, Remaining
<1>3. /\ Cardinality(Remaining) \in Nat /\ Cardinality(batch) \in Nat /\ IsFiniteSet(batch)
      /\ Cardinality(Remaining') = Cardinality(Remaining) - Cardinality(batch)
  BY <1>2, FillRows, RowsAreFinite DEF Remaining
<1>4. StepsLeft = 10 * Cardinality(Remaining) + 9
  BY DEF ExecBatch, StepsLeft, ToTheEnd
<1>5. CASE pc' = "failed"
  <2>1. StepsLeft' = 10 * Cardinality(Remaining')
    BY <1>2, <1>3, <1>5 DEF StepsLeft, ToTheEnd
  <2> QED
    BY <1>3, <1>4, <2>1
<1>6. CASE batch = {} /\ pc' = "done_when"
  <2>1. Remaining = {} /\ Remaining' = {}
    BY <1>2, <1>6, EmptyBatch
  <2>2. StepsLeft' = 10 * Cardinality(Remaining') + 2
    BY <1>6, <2>1 DEF StepsLeft, ToTheEnd
  <2> QED
    BY <1>3, <1>4, <2>1, <2>2
<1>7. CASE batch # {} /\ pc' \in {"cursor", "checkpoint"}
  <2>1. Cardinality(batch) >= 1
    BY <1>3, <1>7, FS_EmptySet
  <2>2. StepsLeft' \in {10 * Cardinality(Remaining') + n : n \in {11, 12}}
    BY <1>7 DEF StepsLeft, ToTheEnd
  <2> QED
    BY <1>3, <1>4, <2>1, <2>2
<1> QED
  BY <1>1, <1>5, <1>6, <1>7

LEMMA ExecuteUses ==
    ASSUME TableInv, CursorInv, ~raced, Execute
    PROVE  StepsLeft' < StepsLeft
<1>1. CASE Start \/ Unthrottled \/ GoodReading \/ AdvanceCursor \/ InsertCheckpoint \/ FinalCheckpoint
           \/ Fail
  BY <1>1, Nearer DEF Start, Unthrottled, GoodReading, AdvanceCursor, InsertCheckpoint,
                      FinalCheckpoint, Fail
<1>2. CASE DoneWhen
  BY <1>2, Nearer DEF DoneWhen, IsDone
<1>3. CASE ExecBatch
  BY <1>3, BatchUses
<1> QED
  BY <1>1, <1>2, <1>3 DEF Execute

\* Without inserts and with good readings a backfill comes to an end, whatever
\* its table, batch size and mode, as long as no row is behind the cursor.
THEOREM BackfillRunsOut == Spec => BatchesRunOut
<1> DEFINE Uses == /\ Execute /\ ~raced => StepsLeft' < StepsLeft
                   /\ Throttle => StepsLeft' = StepsLeft
<1>1. TableInv /\ CursorInv /\ [Next]_vars => [Uses]_vars
  <2>1. Throttle => StepsLeft' = StepsLeft
    BY DEF Throttle, StepsLeft, ToTheEnd, Remaining, table
  <2> QED
    BY <2>1, ExecuteUses
<1>2. Spec => [](TableInv /\ CursorInv)
  BY TableInit, TableStep, CursorInit, CursorStep, PTL DEF Spec
<1> QED
  BY <1>1, <1>2, PTL DEF Spec, BatchesRunOut

=============================================================================
