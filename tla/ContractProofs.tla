--------------------------- MODULE ContractProofs ---------------------------
(***************************************************************************)
(* The contract executor for every script and every rollback script.       *)
(***************************************************************************)
EXTENDS Contract, FiniteSetTheorems, TLAPS

\* rollback_sql undoes a statement only after those behind it in the script.
UndoIsBackwards ==
    \A k \in DOMAIN UndoScript : \A j \in Statements :
        UndoScript[k] < j => \E h \in DOMAIN UndoScript : h < k /\ UndoScript[h] = j

TypeOK ==
    /\ fresh \in BOOLEAN /\ classified \in BOOLEAN
    /\ applied \in SUBSET Statements
    /\ covered \in [1 .. Executions -> Nat]
    /\ pc \in {"idle", "load", "loop", "ddl", "checkpoint", "rollback",
               "failed", "crashed", "succeeded"}
    /\ executions \in 0 .. Executions
    /\ pc # "idle" => executions # 0
    /\ pos \in Nat \ {0} /\ realIdx \in Nat /\ resumeFrom \in Nat

\* The statements that an index of n covers are in the schema.
Applied(n) == \A i \in Statements : IndexOf(i) < n => i \in applied

Walking == pc \in {"loop", "ddl", "checkpoint"}

\* While it walks the script, realIdx is the index of pos, and everything in
\* front of pos is applied.
WalkInv ==
    Walking =>
        /\ pos <= Len(Script) + 1
        /\ realIdx = IndexOf(pos)
        /\ \A j \in Statements : j < pos => j \in applied
        /\ Applied(resumeFrom)
        /\ pc \in {"ddl", "checkpoint"} => pos \in Statements
        /\ pc = "checkpoint" => pos \in applied

\* What an attempt that may still be resumed has covered is applied; a fresh
\* one has covered nothing.
CoveredInv ==
    /\ ~fresh => Applied(covered[1])
    /\ fresh => \A a \in 1 .. Executions :
                  a > executions \/ (pc = "load" /\ a = executions) => covered[a] = 0

\* What rollback_sql has gone through is not there any more.
RollbackInv ==
    pc = "rollback" =>
        /\ fresh
        /\ \A k \in DOMAIN UndoScript : k < pos => UndoScript[k] \notin applied

Inv == TypeOK /\ WalkInv /\ CoveredInv /\ RollbackInv /\ SuccessMeansAll

-----------------------------------------------------------------------------

LEMMA ScriptFacts ==
    /\ Len(Script) \in Nat /\ Positions = 1 .. Len(Script)
    /\ Statements \subseteq Positions
    /\ \A i \in Statements : i \in Nat /\ 1 <= i /\ i <= Len(Script)
    /\ Len(UndoScript) \in Nat /\ DOMAIN UndoScript = 1 .. Len(UndoScript)
    /\ \A k \in DOMAIN UndoScript : UndoScript[k] \in Statements
BY ScriptAssumption DEF Positions, Statements

LEMMA BelowIsFinite ==
    ASSUME NEW n \in Nat
    PROVE  IsFiniteSet({j \in Statements : j < n})
<1> DEFINE S == {j \in Statements : j < n}
<1>1. IsFiniteSet(Positions)
  BY ScriptFacts, FS_Interval
<1>2. S \in SUBSET Positions
  BY ScriptFacts
<1>3. IsFiniteSet(S)
  BY <1>1, <1>2, FS_Subset
<1> QED
  BY <1>3

LEMMA IndexType ==
    ASSUME NEW n \in Nat PROVE IndexOf(n) \in Nat
BY BelowIsFinite, FS_CardinalityType DEF IndexOf

\* The index of the next position, which is how NextIdx counts.
LEMMA IndexNext ==
    ASSUME NEW n \in Nat
    PROVE  IndexOf(n + 1) = IF n \in Statements THEN IndexOf(n) + 1 ELSE IndexOf(n)
<1> DEFINE S == {j \in Statements : j < n}
<1> DEFINE T == {j \in Statements : j < n + 1}
<1>1. IsFiniteSet(S) /\ n \notin S
  BY BelowIsFinite
<1>2. Statements \subseteq Nat
  BY ScriptFacts
<1>3. \A j \in Statements : j \in Nat /\ (j < n + 1 <=> j < n \/ j = n)
  BY <1>2
<1>4. CASE n \in Statements
  <2>1. T = S \cup {n}
    BY <1>3, <1>4
  <2>2. Cardinality(T) = Cardinality(S) + 1
    BY <1>1, <2>1, FS_AddElement, Zenon
  <2> QED
    BY <2>2, <1>4 DEF IndexOf
<1>5. CASE n \notin Statements
  <2>1. T = S
    BY <1>3, <1>5
  <2> QED
    BY <2>1, <1>5 DEF IndexOf
<1> QED
  BY <1>4, <1>5

\* A statement further on has a larger index.
LEMMA IndexGrows ==
    ASSUME NEW i \in Statements, NEW n \in Statements, i < n
    PROVE  IndexOf(i) + 1 <= IndexOf(n)
<1>1. i \in Nat /\ n \in Nat
  BY ScriptFacts
<1>2. {j \in Statements : j < i + 1} \in SUBSET {j \in Statements : j < n}
  <2>1. \A j \in Statements : j \in Nat /\ (j < i + 1 => j < n)
    <3>1. \A j \in Statements : j \in Nat
      BY ScriptFacts
    <3> QED
      BY <1>1, <3>1
  <2> QED
    BY <1>1, <2>1
<1>3. IndexOf(i + 1) <= IndexOf(n)
  BY <1>1, <1>2, BelowIsFinite, FS_Subset DEF IndexOf
<1> QED
  BY <1>1, <1>3, IndexNext

\* Conversely, an index below that of n lies in front of n.
LEMMA IndexBelow ==
    ASSUME NEW i \in Statements, NEW n \in Statements, IndexOf(i) < IndexOf(n) + 1
    PROVE  i <= n
<1>1. i \in Nat /\ n \in Nat
  BY ScriptFacts
<1>2. IndexOf(i) \in Nat /\ IndexOf(n) \in Nat
  BY <1>1, IndexType
<1>3. CASE n < i
  BY <1>2, <1>3, IndexGrows
<1> QED
  BY <1>1, <1>3

-----------------------------------------------------------------------------

LEMMA InitInv == Init => Inv
<1> SUFFICES ASSUME Init PROVE Inv
  OBVIOUS
<1> USE BoundsAssumption
<1>1. TypeOK
  BY DEF Init, TypeOK
<1>2. CoveredInv
  <2>1. covered = [a \in 1 .. Executions |-> 0] /\ 1 \in 1 .. Executions
    BY DEF Init
  <2>2. \A i \in Statements : IndexOf(i) \in Nat
    BY ScriptFacts, IndexType
  <2>3. covered[1] = 0 /\ \A a \in 1 .. Executions : covered[a] = 0
    BY <2>1
  <2> QED
    BY <2>2, <2>3 DEF CoveredInv, Applied
<1> QED
  BY <1>1, <1>2 DEF Init, Inv, WalkInv, Walking, RollbackInv, SuccessMeansAll

\* The latest checkpoint of this attempt, if it is read, covers what is applied.
LEMMA LoadIsApplied ==
    ASSUME Inv, pc = "load", NEW found \in BOOLEAN
    PROVE  Load(found) \in Nat /\ Applied(Load(found))
<1> USE BoundsAssumption DEF Inv, TypeOK
<1>1. Applied(0)
  BY ScriptFacts, IndexType DEF Applied
<1>2. AttemptNumber \in 1 .. Executions
  BY DEF AttemptNumber
<1>3. CASE found /\ fresh
  <2>1. covered[AttemptNumber] = 0
    BY <1>2, <1>3 DEF CoveredInv, AttemptNumber
  <2> QED
    BY <1>1, <1>3, <2>1 DEF Load
<1>4. CASE found /\ ~fresh
  BY <1>2, <1>4 DEF CoveredInv, AttemptNumber, Load
<1>5. CASE ~found
  BY <1>1, <1>5 DEF Load
<1> QED
  BY <1>3, <1>4, <1>5

\* Going past a position that is blank or applied.
LEMMA Advance ==
    ASSUME Inv, pos \in Positions, realIdx = IndexOf(pos), NEW A,
           \A j \in Statements : j < pos => j \in A,
           pos \in Statements => pos \in A
    PROVE  /\ pos + 1 \in Nat \ {0} /\ pos + 1 <= Len(Script) + 1
           /\ NextIdx = IndexOf(pos + 1) /\ NextIdx \in Nat
           /\ \A j \in Statements : j < pos + 1 => j \in A
<1>1. pos \in Nat \ {0} /\ pos <= Len(Script)
  BY ScriptFacts DEF Inv, TypeOK
<1>2. NextIdx = IndexOf(pos + 1)
  BY <1>1, IndexNext DEF NextIdx
<1>3. IndexOf(pos + 1) \in Nat
  BY <1>1, IndexType
<1>4. ASSUME NEW j \in Statements, j < pos + 1 PROVE j \in A
  <2>1. j \in Nat
    BY ScriptFacts
  <2>2. j < pos \/ j = pos
    BY <1>1, <1>4, <2>1
  <2> QED
    BY <2>2
<1> QED
  BY <1>1, <1>2, <1>3, <1>4, ScriptFacts

LEMMA StepInv ==
    ASSUME Inv, [Next]_vars PROVE Inv'
<1> USE BoundsAssumption, ScriptFacts
<1>1. CASE Begin
  BY <1>1 DEF Begin, Inv, TypeOK, WalkInv, Walking, CoveredInv, RollbackInv, SuccessMeansAll,
              Applied
<1>2. CASE LatestCheckpoint
  <2>1. PICK found \in BOOLEAN : resumeFrom' = Load(found)
    BY <1>2 DEF LatestCheckpoint
  <2>2. Load(found) \in Nat /\ Applied(Load(found))
    BY <1>2, LoadIsApplied DEF LatestCheckpoint
  <2>3. Applied(resumeFrom)'
    BY <1>2, <2>1, <2>2 DEF LatestCheckpoint, Applied
  <2>4. IndexOf(1) = 0
    <3>1. \A j \in Statements : ~(j < 1)
      BY ScriptFacts
    <3>2. {j \in Statements : j < 1} = {}
      BY <3>1
    <3> QED
      BY <3>2, FS_EmptySet DEF IndexOf
  <2>5. WalkInv'
    BY <1>2, <2>3, <2>4 DEF LatestCheckpoint, WalkInv, Walking
  <2> QED
    BY <1>2, <2>1, <2>2, <2>5 DEF LatestCheckpoint, Inv, TypeOK, CoveredInv, RollbackInv,
              SuccessMeansAll, Applied
<1>3. CASE Skip
  <2>1. /\ pos \in Positions /\ realIdx = IndexOf(pos)
        /\ \A j \in Statements : j < pos => j \in applied
        /\ pos \in Statements => pos \in applied
    <3>1. Walking /\ WalkInv
      BY <1>3 DEF Skip, Walking, Inv
    <3> QED
      BY <1>3, <3>1 DEF Skip, WalkInv, Applied
  <2>2. WalkInv'
    BY <1>3, <2>1, Advance DEF Skip, Inv, WalkInv, Walking, Applied
  <2>3. TypeOK'
    BY <1>3, <2>1, Advance DEF Skip, Inv, TypeOK
  <2> QED
    BY <1>3, <2>2, <2>3 DEF Skip, Inv, CoveredInv, RollbackInv, SuccessMeansAll, Applied
<1>4. CASE Finish
  <2>1. applied = Statements
    <3>1. pos \in Nat \ {0} /\ pos <= Len(Script) + 1 /\ pos \notin Positions
      BY <1>4 DEF Finish, Inv, TypeOK, WalkInv, Walking
    <3>2. \A j \in Statements : j < pos
      BY <3>1
    <3> QED
      BY <1>4, <3>2 DEF Finish, Inv, TypeOK, WalkInv, Walking
  <2> QED
    BY <1>4, <2>1 DEF Finish, Inv, TypeOK, WalkInv, Walking, CoveredInv, RollbackInv,
              SuccessMeansAll, Applied
<1>5. CASE Send
  BY <1>5 DEF Send, Inv, TypeOK, WalkInv, Walking, CoveredInv, RollbackInv, SuccessMeansAll,
              Applied
<1>6. CASE ExecDDL
  BY <1>6 DEF ExecDDL, AfterError, Inv, TypeOK, WalkInv, Walking, CoveredInv, RollbackInv,
              SuccessMeansAll, Applied
<1>7. CASE InsertCheckpoint
  <2>1. /\ pos \in Statements /\ pos \in applied /\ pos \in Positions
        /\ realIdx = IndexOf(pos) /\ realIdx \in Nat
        /\ \A j \in Statements : j < pos => j \in applied
    BY <1>7 DEF InsertCheckpoint, Inv, TypeOK, WalkInv, Walking
  <2>2. WalkInv'
    BY <1>7, <2>1, Advance DEF InsertCheckpoint, Inv, WalkInv, Walking, Applied
  <2>3. TypeOK'
    <3>1. covered' \in [1 .. Executions -> Nat]
      BY <1>7, <2>1 DEF InsertCheckpoint, Inv, TypeOK
    <3>2. pos' \in Nat \ {0} /\ realIdx' \in Nat
      BY <1>7, <2>1, Advance DEF InsertCheckpoint, Inv
    <3> QED
      BY <1>7, <3>1, <3>2 DEF InsertCheckpoint, Inv, TypeOK
  <2>4. Applied(realIdx + 1)
    <3> SUFFICES ASSUME NEW i \in Statements, IndexOf(i) < IndexOf(pos) + 1
                 PROVE  i \in applied
      BY <2>1 DEF Applied
    <3>1. i <= pos
      BY <2>1, IndexBelow
    <3> QED
      BY <2>1, <3>1
  <2>5. CoveredInv'
    <3>1. CASE fresh
      BY <1>7, <3>1 DEF InsertCheckpoint, AttemptNumber, Inv, TypeOK, CoveredInv
    <3>2. CASE ~fresh
      <4>1. covered'[1] = covered[1] \/ covered'[1] = realIdx + 1
        BY <1>7, <3>2 DEF InsertCheckpoint, AttemptNumber, Inv, TypeOK
      <4> QED
        BY <1>7, <2>4, <3>2, <4>1 DEF InsertCheckpoint, Inv, TypeOK, CoveredInv, Applied
    <3> QED
      BY <3>1, <3>2
  <2> QED
    BY <1>7, <2>2, <2>3, <2>5 DEF InsertCheckpoint, Inv, RollbackInv, SuccessMeansAll
<1>8. CASE StartRollback
  BY <1>8 DEF StartRollback, Inv, TypeOK, WalkInv, Walking, CoveredInv, RollbackInv,
              SuccessMeansAll, Applied
<1>9. CASE Rollback
  <2>1. TypeOK' /\ fresh' /\ ~Walking' /\ pc' # "succeeded" /\ pc' # "load"
    <3>1. fresh' /\ pc' \in {"rollback", "idle"}
      BY <1>9 DEF Rollback, Inv, RollbackInv
    <3>2. applied' \in SUBSET Statements
      <4>1. applied \in SUBSET Statements
        BY DEF Inv, TypeOK
      <4>2. \A x \in applied' : x \in applied
        BY <1>9 DEF Rollback
      <4> QED
        BY <4>1, <4>2
    <3>3. pos' \in Nat \ {0}
      BY <1>9 DEF Rollback, Inv, TypeOK
    <3>4. pc # "idle" /\ executions # 0
      BY <1>9 DEF Rollback, Inv, TypeOK
    <3>5. TypeOK'
      BY <1>9, <3>1, <3>2, <3>3, <3>4 DEF Rollback, Inv, TypeOK
    <3> QED
      BY <3>1, <3>5 DEF Walking
  <2>2. CoveredInv'
    BY <1>9, <2>1 DEF Rollback, Inv, TypeOK, CoveredInv
  <2>3. RollbackInv'
    <3>1. CASE pos' = pos + 1
      BY <1>9, <2>1, <3>1 DEF Rollback, Inv, TypeOK, RollbackInv
    <3>2. CASE pc' = "idle"
      BY <3>2 DEF RollbackInv
    <3> QED
      BY <1>9, <3>1, <3>2 DEF Rollback
  <2> QED
    BY <2>1, <2>2, <2>3 DEF Inv, WalkInv, SuccessMeansAll
<1>10. CASE Crash
  BY <1>10 DEF Crash, Inv, TypeOK, WalkInv, Walking, CoveredInv, RollbackInv,
               SuccessMeansAll, Applied
<1>11. CASE UNCHANGED vars
  BY <1>11 DEF vars, control, Inv, TypeOK, WalkInv, Walking, CoveredInv, RollbackInv, SuccessMeansAll,
               Applied
<1> QED
  BY <1>1, <1>2, <1>3, <1>4, <1>5, <1>6, <1>7, <1>8, <1>9, <1>10, <1>11 DEF Next

LEMMA InvHolds == Spec => []Inv
<1>1. Inv /\ [Next]_vars => Inv'
  BY StepInv
<1> QED
  BY InitInv, <1>1, PTL DEF Spec


\* Execute succeeds only with every statement of the script in the schema: the
\* loop ends past the last one, and whatever it skipped had been applied.
THEOREM SuccessIsAll == Spec => []SuccessMeansAll
<1>1. Inv => SuccessMeansAll
  BY DEF Inv
<1> QED
  BY InvHolds, <1>1, PTL

\* What the checkpoints of a resumed attempt cover is in the schema, however
\* many blank statements the script has and whichever checkpoints were lost.
THEOREM CheckpointsAreTruthful == Spec => []CheckpointsTruthful
<1>1. Inv => CheckpointsTruthful
  BY DEF Inv, CoveredInv, Applied, CheckpointsTruthful, AttemptNumber
<1> QED
  BY InvHolds, <1>1, PTL

LEMMA StepPrefix ==
    ASSUME UndoIsBackwards, Inv, AppliedIsPrefix, [Next]_vars
    PROVE  AppliedIsPrefix'
<1>1. CASE applied' = applied
  BY <1>1 DEF AppliedIsPrefix
<1>2. CASE ExecDDL
  <2>1. /\ pos \in Statements
        /\ \A j \in Statements : j < pos => j \in applied
        /\ applied' = applied \/ applied' = applied \cup {pos}
    BY <1>2 DEF ExecDDL, Inv, WalkInv, Walking
  <2> QED
    BY <2>1 DEF AppliedIsPrefix
<1>3. CASE Rollback /\ applied' # applied
  <2> DEFINE u == UndoScript[pos]
  <2>1. pos \in DOMAIN UndoScript /\ u \in applied /\ applied' = applied \ {u} /\ u \in Statements
    BY <1>3, ScriptFacts DEF Rollback
  <2>2. \A k \in DOMAIN UndoScript : k < pos => UndoScript[k] \notin applied
    BY <1>3 DEF Rollback, Inv, RollbackInv
  <2>3. \A j \in Statements : u < j => j \notin applied
    BY <2>1, <2>2 DEF UndoIsBackwards
  <2>4. ASSUME NEW i \in applied', NEW j \in Statements, j < i PROVE j \in applied'
    <3>1. i \in applied /\ i \in Statements /\ j \in applied
      BY <2>1, <2>4 DEF AppliedIsPrefix, Inv, TypeOK
    <3>2. j # u
      BY <2>3, <2>4, <3>1
    <3> QED
      BY <2>1, <3>1, <3>2
  <2> QED
    BY <2>4 DEF AppliedIsPrefix
<1> QED
  BY <1>1, <1>2, <1>3 DEF Next, vars, control, Begin, LatestCheckpoint, Skip, Finish, Send,
                         InsertCheckpoint, StartRollback, Crash

\* Under a rollback script that goes backwards, a statement is never in the
\* schema without those in front of it.
THEOREM AppliedInOrder == UndoIsBackwards => (Spec => []AppliedIsPrefix)
<1> SUFFICES ASSUME UndoIsBackwards PROVE Spec => []AppliedIsPrefix
  OBVIOUS
<1>1. Init => AppliedIsPrefix
  BY DEF Init, AppliedIsPrefix
<1>2. Inv /\ AppliedIsPrefix /\ [Next]_vars => AppliedIsPrefix'
  BY StepPrefix
<1> QED
  BY InvHolds, <1>1, <1>2, PTL DEF Spec

-----------------------------------------------------------------------------
(* The runner's view                                                       *)

\* Execute only adds to the schema, Rollback only takes from it, and without a
\* rollback script nothing.
Added == began \subseteq applied
Taken == applied \subseteq began /\ (UndoScript = << >> => applied = began)

CallInv ==
    /\ began \in SUBSET Statements
    /\ Walking \/ pc \in {"load", "failed", "succeeded"} => Added
    /\ pc \in {"rollback", "idle"} => Taken
    /\ pc = "crashed" => Added \/ Taken

LEMMA CallInit == Init => CallInv
  BY DEF Init, CallInv, Walking, Taken

LEMMA CallStep ==
    ASSUME Inv, CallInv, [Next]_vars PROVE CallInv'
<1>1. applied \in SUBSET Statements
  BY DEF Inv, TypeOK
<1>2. CASE (Begin \/ StartRollback) /\ began' = applied
  <2>1. applied' = applied /\ pc' \in {"load", "rollback"}
    BY <1>2 DEF Begin, StartRollback
  <2> QED
    BY <1>1, <1>2, <2>1 DEF CallInv, Walking, Added, Taken
<1>3. CASE (LatestCheckpoint \/ Skip \/ Finish \/ Send \/ InsertCheckpoint) /\ UNCHANGED began
  <2>1. /\ UNCHANGED <<began, applied>> /\ (Walking \/ pc = "load")
        /\ pc' \notin {"rollback", "idle", "crashed"}
    BY <1>3 DEF LatestCheckpoint, Skip, Finish, Send, InsertCheckpoint, Walking
  <2> QED
    BY <2>1 DEF CallInv, Added
<1>4. CASE ExecDDL /\ UNCHANGED began
  <2>1. /\ UNCHANGED began /\ applied \subseteq applied' /\ Walking
        /\ pc' \notin {"rollback", "idle", "crashed"}
    BY <1>4 DEF ExecDDL, AfterError, Walking
  <2> QED
    BY <2>1 DEF CallInv, Added
<1>5. CASE Rollback /\ UNCHANGED began
  <2>1. /\ UNCHANGED began /\ applied' \subseteq applied /\ pc = "rollback"
        /\ pc' \in {"rollback", "idle"}
    BY <1>5 DEF Rollback
  <2>2. UndoScript = << >> => applied' = applied
    BY <1>5 DEF Rollback
  <2> QED
    BY <2>1, <2>2 DEF CallInv, Taken, Walking
<1>6. CASE Crash /\ UNCHANGED began
  <2>1. /\ UNCHANGED <<began, applied>> /\ pc' = "crashed"
        /\ Walking \/ pc \in {"load", "rollback"}
    BY <1>6 DEF Crash, Walking
  <2> QED
    BY <2>1 DEF CallInv, Added, Taken, Walking
<1>7. CASE UNCHANGED vars
  BY <1>7 DEF vars, control, CallInv, Walking, Added, Taken
<1> QED
  BY <1>2, <1>3, <1>4, <1>5, <1>6, <1>7 DEF Next

LEMMA AddedResult ==
    ASSUME Added, Statements # {}, began \in SUBSET Statements, applied \in SUBSET Statements
    PROVE  /\ \E res \in ExecResults("contract", Effect(began)) : Effect(applied) = res[1]
           /\ applied = Statements
                => <<Effect(applied), "nil">> \in ExecResults("contract", Effect(began))
<1>1. CASE applied = Statements
  <2>1. Effect(applied) = "applied"
    BY <1>1 DEF Effect
  <2>2. <<"applied", "nil">> \in ExecResults("contract", Effect(began))
    BY DEF ExecResults
  <2> QED
    BY <2>1, <2>2
<1>2. CASE applied # Statements /\ began = {}
  <2>1. Effect(began) = "absent" /\ Effect(applied) \in {"absent", "partial"}
    BY <1>2 DEF Effect
  <2>2. <<"absent", "error">> \in ExecResults("contract", "absent")
        /\ <<"partial", "error">> \in ExecResults("contract", "absent")
    BY DEF ExecResults
  <2> QED
    BY <1>2, <2>1, <2>2
<1>3. CASE applied # Statements /\ began # {}
  <2>1. Effect(began) = "partial" /\ Effect(applied) = "partial"
    BY <1>3 DEF Effect, Added
  <2>2. <<"partial", "error">> \in ExecResults("contract", "partial")
    BY DEF ExecResults
  <2> QED
    BY <1>3, <2>1, <2>2
<1> QED
  BY <1>1, <1>2, <1>3

LEMMA TakenResult ==
    ASSUME Taken, Statements # {}, began \in SUBSET Statements
    PROVE  Effect(applied) \in RollbackResults(ThePhase, Effect(began))
<1>1. CASE applied = began
  BY <1>1 DEF RollbackResults
<1>2. CASE applied # began
  <2>1. UndoScript # << >> /\ began # {} /\ applied # Statements
    BY <1>2 DEF Taken
  <2>2. CASE applied = {}
    BY <2>1, <2>2 DEF Effect, RollbackResults, ThePhase
  <2>3. CASE applied # {} /\ began = Statements
    BY <2>1, <2>3 DEF Effect, RollbackResults, ThePhase
  <2>4. CASE applied # {} /\ began # Statements
    <3>1. Effect(applied) = "partial" /\ Effect(began) = "partial"
      BY <2>1, <2>4 DEF Effect
    <3> QED
      BY <3>1 DEF RollbackResults
  <2> QED
    BY <2>2, <2>3, <2>4
<1> QED
  BY <1>1, <1>2

\* Statement by statement the executor does what the runner's model takes it to
\* do in one step, for every script, every rollback script and all crashes: the
\* two models meet at Results.
THEOREM ContractDelivers == Spec => []DeliversResults
<1>1. Inv /\ CallInv => DeliversResults
  <2> SUFFICES ASSUME Inv, CallInv, Statements # {} PROVE DeliversResults
    BY DEF DeliversResults
  <2>1. began \in SUBSET Statements /\ applied \in SUBSET Statements
    BY DEF Inv, TypeOK, CallInv
  <2>2. pc = "succeeded" => Added /\ applied = Statements
    BY DEF Inv, SuccessMeansAll, CallInv
  <2>3. pc = "failed" => Added
    BY DEF CallInv
  <2>4. pc = "idle" => Taken
    BY DEF CallInv
  <2>5. pc = "crashed" => Added \/ Taken
    BY DEF CallInv
  <2> QED
    BY <2>1, <2>2, <2>3, <2>4, <2>5, AddedResult, TakenResult DEF DeliversResults
<1>2. Inv /\ CallInv /\ [Next]_vars => CallInv'
  BY CallStep
<1> QED
  BY <1>1, <1>2, CallInit, InvHolds, PTL DEF Spec

=============================================================================
