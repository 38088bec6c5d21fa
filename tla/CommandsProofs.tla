--------------------------- MODULE CommandsProofs ---------------------------
(***************************************************************************)
(* gc, status and rollback beside any number of invocations, for every     *)
(* migration and every set of faults: what gc keeps and what status finds  *)
(* with no assumption on the lock, the rest as far as the lock excludes.   *)
(***************************************************************************)
EXTENDS StoreProofs, Commands, FiniteSetTheorems

-----------------------------------------------------------------------------
(* gc                                                                      *)

\* Beside the invocations only rollback writes what they read, and only the schema.
LEMMA CommandCases ==
    ASSUME [CommandsNext]_commandVars PROVE [Next]_vars \/ RollbackPhase
<1>1. CASE \/ \E p \in Procs : Step(p) \/ Cancel(p) \/ Crash(p)
           \/ Expire
           \/ \E p \in Procs : RunHeartbeat(p)
  BY <1>1 DEF Next, RunHeartbeat
<1>2. CASE Gc \/ StatusReadEvent \/ StatusReadLock \/ RollbackBegin \/ RollbackEnd
           \/ UNCHANGED commandVars
  BY <1>2 DEF Gc, StatusReadEvent, StatusReadLock, RollbackBegin, RollbackEnd, commandVars
<1> QED
  BY <1>1, <1>2 DEF CommandsNext

\* The commands write nothing that an attempt depends on, so that what each
\* invocation knows about its attempt stays true beside them.
LEMMA CommandStep ==
    ASSUME AttemptInv, [CommandsNext]_commandVars PROVE AttemptInv'
<1>1. CASE [Next]_vars
  BY <1>1, StepAttemptInv
<1>2. CASE RollbackPhase
  <2>1. /\ UNCHANGED <<history, lock, pc, resume, idx, latest, attempt, outcome, cancelled, lockLost>>
        /\ \E i, left : /\ left \in RollbackResults(Migration[i], effect[i])
                        /\ effect' = [effect EXCEPT ![i] = left]
    BY <1>2 DEF RollbackPhase
  <2>2. PICK i, left : /\ left \in RollbackResults(Migration[i], effect[i])
                       /\ effect' = [effect EXCEPT ![i] = left]
    BY <2>1
  <2>3. TypeOK
    BY DEF AttemptInv, TypeInv
  <2>4. effect' \in [Phases -> {"absent", "partial", "applied"}]
    <3>1. CASE i \in Phases
      <4>1. left \in {"absent", "partial", "applied"}
        BY <2>2, <2>3, <3>1 DEF RollbackResults, TypeOK
      <4> QED
        BY <2>2, <2>3, <3>1, <4>1 DEF TypeOK
    <3>2. CASE i \notin Phases
      BY <2>2, <2>3, <3>2 DEF TypeOK
    <3> QED
      BY <3>1, <3>2
  <2>5. TypeInv'
    BY <2>1, <2>3, <2>4 DEF AttemptInv, TypeInv, TypeOK, Numbered
  <2> QED
    BY <2>1, <2>5, QuietStep DEF Stays
<1> QED
  BY <1>1, <1>2, CommandCases

\* An invocation that has no verdict yet is found by gc's subquery.
LEMMA UndecidedIsInProgress ==
    ASSUME AttemptInv, NEW p \in Procs, pc[p] \in {"exec", "guard", "terminal"}
    PROVE  InProgress(Phase(p).name)
<1> DEFINE name == Phase(p).name
<1>1. Recorded(Own(p, "PHASE_STARTED"))
  BY DEF AttemptInv, Knows, Owned, HeartbeatOn
<1>2. PICK n \in DOMAIN history : history[n] = Own(p, "PHASE_STARTED")
  BY <1>1 DEF Recorded
<1>3. /\ n \in RowsOf(name) /\ history[n].type = "PHASE_STARTED"
      /\ history[n].phase = name /\ history[n].attempt = attempt[p]
  BY <1>2 DEF RowsOf, Own, Event
<1>4. ASSUME NEW m \in RowsOfAttempt(name, attempt[p]), IsTerminal(history[m].type) PROVE FALSE
  <2>1. m \in DOMAIN history /\ history[m].phase = name /\ history[m].attempt = attempt[p]
    BY DEF RowsOfAttempt, RowsOf
  <2>2. history[m] = Own(p, history[m].type)
    BY <2>1, RecordedRow DEF AttemptInv, TypeInv, Own
  <2>3. history[m].type \in TerminalTypes /\ pc[p] \in Judging
    BY <1>4 DEF IsTerminal, Judging
  <2> QED
    BY <2>1, <2>2, <2>3 DEF AttemptInv, Knows, Undecided, Recorded
<1>5. ~Finished(n)
  BY <1>3, <1>4 DEF Finished
<1> HIDE DEF name
<1> QED
  BY <1>3, <1>5 DEF InProgress, name

\* gc deletes no heartbeat of an attempt that an invocation works on, whatever
\* happened to the lock and to earlier attempts.
THEOREM GcSparesTheLiving == CommandsSpec => GcKeepsLive
<1> DEFINE Kept(p) ==
      LET row == <<Phase(p).name, attempt[p]>> IN
      pc[p] \in {"exec", "guard", "terminal"} /\ row \in beats => row \in beats'
<1>1. CommandsInit => AttemptInv
  BY InitAttemptInv DEF CommandsInit
<1>2. AttemptInv /\ [CommandsNext]_commandVars => AttemptInv'
  BY CommandStep
<1>3. AttemptInv /\ [CommandsNext]_commandVars => [\A p \in Procs : Kept(p)]_commandVars
  <2> SUFFICES ASSUME AttemptInv, CommandsNext, NEW p \in Procs PROVE Kept(p)
    OBVIOUS
  <2>1. CASE Gc
    BY <2>1, UndecidedIsInProgress DEF Gc
  <2>2. CASE \E q \in Procs : RunHeartbeat(q)
    <3>1. beats \subseteq beats'
      BY <2>2 DEF RunHeartbeat
    <3> QED
      BY <3>1
  <2>3. ASSUME UNCHANGED beats PROVE Kept(p)
    BY <2>3
  <2>4. CASE ~Gc /\ ~(\E q \in Procs : RunHeartbeat(q))
    <3>1. UNCHANGED beats
      BY <2>4 DEF CommandsNext, StatusReadEvent, StatusReadLock, RollbackBegin, RollbackPhase,
                  RollbackEnd
    <3> QED
      BY <2>3, <3>1
  <2> QED
    BY <2>1, <2>2, <2>4
<1> QED
  BY <1>1, <1>2, <1>3, PTL DEF CommandsSpec, GcKeepsLive

LEMMA AttemptBeside == CommandsSpec => []AttemptInv
<1>1. CommandsInit => AttemptInv
  BY InitAttemptInv DEF CommandsInit
<1> QED
  BY <1>1, CommandStep, PTL DEF CommandsSpec

-----------------------------------------------------------------------------
(* status                                                                  *)

LEMMA HoldsBeside ==
    ASSUME AttemptInv, Holds, [CommandsNext]_commandVars PROVE Holds'
<1>1. CASE [Next]_vars
  BY <1>1, HoldsStep DEF AttemptInv, TypeInv
<1>2. CASE RollbackPhase
  BY <1>2 DEF RollbackPhase, Holds, Working
<1> QED
  BY <1>1, <1>2, CommandCases

\* With timely heartbeats a warning of status is never about an attempt that
\* somebody works on: whoever works has the row, and has it live, by the time
\* the row is read.
THEOREM WarningsAreTrue == CommandsSpec => []WarningIsTrue
<1>1. CommandsInit => Holds
  BY DEF CommandsInit, Init, Holds, Working, HeartbeatOn
<1>2. Holds => WarningIsTrue
  BY DEF Holds, WarningIsTrue, Warning, Working, NoLock
<1> QED
  BY <1>1, <1>2, HoldsBeside, AttemptBeside, PTL DEF CommandsSpec

-----------------------------------------------------------------------------
(* rollback                                                                *)

\* Executors lists the phases whose names BuildExecutors knows.
LEMMA ExecutorsType ==
    /\ Executors \in Seq(Phases)
    /\ Len(Executors) \in Nat
    /\ DOMAIN Executors = 1 .. Len(Executors)
    /\ \A a, b \in 1 .. Len(Executors) : Executors[a] = Executors[b] => a = b
<1> DEFINE n == Cardinality(Known)
           Upto(i) == {j \in Known : j <= i}
<1>1. IsFiniteSet(Known) /\ Known \subseteq Phases /\ Phases \subseteq Nat /\ n \in Nat
  <2>1. Known \subseteq Phases /\ Phases \subseteq Nat /\ IsFiniteSet(Phases)
    BY MigrationAssumption, FS_Interval DEF Known, Phases
  <2> QED
    BY <2>1, FS_Subset, FS_CardinalityType
<1>2. \A i : IsFiniteSet(Upto(i)) /\ Cardinality(Upto(i)) \in Nat
  BY <1>1, FS_Subset, FS_CardinalityType
<1>3. ASSUME NEW S \in SUBSET Known, S # {} PROVE \E m \in S : \A j \in S : j <= m
  <2>1. S \in SUBSET Nat /\ Len(Migration) \in Nat /\ \A x \in S : x <= Len(Migration)
    BY <1>1, MigrationAssumption DEF Phases
  <2> QED
    BY <1>3, <2>1, MaxOfBounded
<1>4. ASSUME NEW k \in 1 .. n PROVE \E i \in Known : Cardinality(Upto(i)) = k
  <2> DEFINE Reached == {i \in Known : Cardinality(Upto(i)) >= k}
  <2>1. Reached # {}
    <3>1. Known # {}
      BY <1>4, FS_EmptySet
    <3>2. PICK m \in Known : \A j \in Known : j <= m
      BY <1>3, <3>1
    <3>3. Upto(m) = Known
      BY <3>2
    <3> QED
      BY <1>1, <3>2, <3>3
  <2>2. PICK i \in Reached : \A j \in Reached : ~(j < i)
    BY <1>1, <2>1, LeastOf
  <2> DEFINE Below == {j \in Known : j < i}
  <2>3. i \in Known /\ \A j \in Known : j \in Nat /\ (j <= i <=> j < i \/ j = i) /\ ~(i < i)
    BY <1>1
  <2>4. Upto(i) = Below \cup {i} /\ i \notin Below
    BY <2>3
  <2>5. IsFiniteSet(Below) /\ Cardinality(Below) \in Nat
    BY <1>1, FS_Subset, FS_CardinalityType
  <2>6. Cardinality(Upto(i)) = Cardinality(Below) + 1
    BY <2>4, <2>5, FS_AddElement
  <2>7. Cardinality(Below) < k
    <3>1. CASE Below = {}
      BY <1>4, <3>1, FS_EmptySet
    <3>2. CASE Below # {}
      <4>1. PICK m \in Below : \A j \in Below : j <= m
        BY <1>3, <3>2
      <4>2. \A j \in Known : j <= m <=> j < i
        BY <2>3, <4>1
      <4>3. Upto(m) = Below
        BY <4>2
      <4>4. m \notin Reached
        BY <2>2, <4>1
      <4> QED
        BY <2>5, <4>1, <4>3, <4>4
    <3> QED
      BY <3>1, <3>2
  <2>8. Cardinality(Upto(i)) >= k
    BY <2>2
  <2>9. Cardinality(Upto(i)) = k
    BY <1>2, <1>4, <2>5, <2>6, <2>7, <2>8
  <2> QED
    BY <2>3, <2>9
<1>5. \A k \in 1 .. n : Executors[k] \in Phases
  BY <1>1, <1>4 DEF Executors
<1>6. Executors \in [1 .. n -> Phases]
  BY <1>5 DEF Executors
<1>7. \A k \in 1 .. n : Cardinality(Upto(Executors[k])) = k
  BY <1>4 DEF Executors
<1> HIDE DEF n, Upto
<1> QED
  BY <1>1, <1>6, <1>7

\* What a command keeps, and how far it can be.
CommandType ==
    [name : {"gc", "status", "rollback"}, target : Targets \cup {"none"}, running : BOOLEAN,
     at : Nat, since : Nat, alone : BOOLEAN, event : Events \cup {NoEvent}]

CommandInv ==
    /\ cmd \in CommandType
    /\ cmd.name = "rollback" => cmd.at <= Len(Executors)
    /\ cmd.name = "rollback" /\ cmd.at > 0 => TargetIndex(cmd.target) > 0
    /\ cmd.name = "status" => cmd.at <= Len(ReadOrder)

LEMMA TargetIndexType == ASSUME NEW target PROVE TargetIndex(target) \in Nat
<1> DEFINE matches == {k \in 1 .. Len(Executors) :
                         \/ TypeOfPhase[Migration[Executors[k]].name] = target
                         \/ Migration[k].name = target}
<1>1. CASE matches = {}
  BY <1>1 DEF TargetIndex
<1>2. CASE matches # {}
  <2>1. matches \in SUBSET Nat /\ Len(Executors) \in Nat /\ \A k \in matches : k <= Len(Executors)
    BY ExecutorsType
  <2>2. Max(matches) \in matches
    BY <1>2, <2>1, MaxOfBounded
  <2>3. TargetIndex(target) = Max(matches)
    BY <1>2 DEF TargetIndex
  <2> QED
    BY <2>1, <2>2, <2>3
<1> QED
  BY <1>1, <1>2

\* The last phase with an event among the first n rows.
LEMMA LastActiveIs ==
    ASSUME NEW n
    PROVE  /\ LastActive(n) \in 0 .. Len(ReadOrder)
           /\ LastActive(n) # 0 => \E m \in RowsOf(ReadOrder[LastActive(n)]) : m <= n
           /\ \A i \in DOMAIN ReadOrder :
                i > LastActive(n) => \A m \in RowsOf(ReadOrder[i]) : ~(m <= n)
<1> DEFINE Active == {i \in DOMAIN ReadOrder : \E m \in RowsOf(ReadOrder[i]) : m <= n}
           S == {0} \cup Active
<1>1. DOMAIN ReadOrder = 1 .. 4 /\ Len(ReadOrder) = 4
  BY DEF ReadOrder
<1>2. S \in SUBSET Nat /\ S # {} /\ \A x \in S : x <= 4
  BY <1>1
<1>3. Max(S) \in S /\ \A x \in S : x <= Max(S)
  BY <1>2, MaxOfBounded
<1>4. LastActive(n) = Max(S)
  BY DEF LastActive
<1> DEFINE top == Max(S)
<1> HIDE DEF top
<1>5. top \in S /\ (\A x \in S : x <= top) /\ LastActive(n) = top
  BY <1>3, <1>4 DEF top
<1>6. ASSUME NEW i \in DOMAIN ReadOrder, i > top, NEW m \in RowsOf(ReadOrder[i]), m <= n PROVE FALSE
  BY <1>1, <1>2, <1>5, <1>6
<1> QED
  BY <1>1, <1>5, <1>6

LEMMA CommandInvStep ==
    ASSUME AttemptInv, CommandInv, [CommandsNext]_commandVars
    PROVE  CommandInv' /\ cmd'.name = cmd.name /\ cmd'.target = cmd.target
<1> USE DEF CommandInv
<1>1. Len(Executors) \in Nat /\ Len(ReadOrder) = 4
  BY ExecutorsType DEF ReadOrder
<1>2. CASE Watch \/ UNCHANGED cmd
  BY <1>2 DEF Watch, CommandType
<1>3. CASE cmd' = Returned
  BY <1>1, <1>3 DEF Returned, Command, CommandType
<1>4. CASE StatusReadEvent /\ cmd' # Returned
  <2> DEFINE name == ReadOrder[cmd.at + 1]
  <2>1. cmd.name = "status" /\ cmd.at < 4
    BY <1>1, <1>4 DEF StatusReadEvent, Running
  <2>2. cmd' = [cmd EXCEPT
            !.at = cmd.at + 1,
            !.since = IF cmd.at = 0 THEN LastActive(Len(history)) ELSE @,
            !.event = IF RowsOf(name) = {} THEN @ ELSE history[Max(RowsOf(name))]]
    BY <1>4 DEF StatusReadEvent, NextToRead
  <2>3. LastActive(Len(history)) \in Nat
    BY <1>1, LastActiveIs
  <2>4. RowsOf(name) # {} => history[Max(RowsOf(name))] \in Events
    <3>1. TypeOK /\ RowsOf(name) \in SUBSET DOMAIN history
      BY DEF AttemptInv, TypeInv, RowsOf
    <3>2. RowsOf(name) # {} => Max(RowsOf(name)) \in DOMAIN history
      BY <3>1, LatestRow
    <3> QED
      BY <3>1, <3>2, RecordedRow
  <2>5. PICK since \in Nat, event \in Events \cup {NoEvent} :
          cmd' = [cmd EXCEPT !.at = cmd.at + 1, !.since = since, !.event = event]
    <3> DEFINE s == IF cmd.at = 0 THEN LastActive(Len(history)) ELSE cmd.since
               e == IF RowsOf(name) = {} THEN cmd.event ELSE history[Max(RowsOf(name))]
    <3>1. s \in Nat /\ e \in Events \cup {NoEvent}
      BY <2>3, <2>4 DEF CommandType
    <3>2. cmd' = [cmd EXCEPT !.at = cmd.at + 1, !.since = s, !.event = e]
      BY <2>2
    <3> HIDE DEF s, e
    <3> QED
      BY <3>1, <3>2
  <2>6. cmd' \in CommandType /\ cmd'.name = cmd.name /\ cmd'.target = cmd.target
        /\ cmd'.at = cmd.at + 1 /\ cmd.at \in Nat
    <3> DEFINE next == cmd.at + 1
               moved == [cmd EXCEPT !.at = next, !.since = since]
    <3>1. cmd \in CommandType /\ cmd.at \in Nat /\ next \in Nat
      BY DEF CommandType
    <3> HIDE DEF next
    <3>2. moved \in CommandType /\ moved.name = cmd.name /\ moved.target = cmd.target
          /\ moved.at = next
      BY <3>1 DEF CommandType
    <3>3. cmd' = [moved EXCEPT !.event = event]
      BY <2>5 DEF next
    <3> HIDE DEF moved
    <3> QED
      BY <3>1, <3>2, <3>3 DEF CommandType, next
  <2> QED
    BY <1>1, <2>1, <2>6
<1>5. CASE RollbackBegin /\ cmd' # Returned
  <2>1. PICK b \in BOOLEAN : /\ cmd.name = "rollback" /\ TargetIndex(cmd.target) # 0
                             /\ cmd' = [cmd EXCEPT !.at = Len(Executors), !.alone = b]
    BY <1>5 DEF RollbackBegin, Running
  <2>2. cmd' \in CommandType /\ cmd'.name = cmd.name /\ cmd'.target = cmd.target
        /\ cmd'.at = Len(Executors)
    BY <1>1, <2>1 DEF CommandType
  <2> QED
    BY <1>1, <2>1, <2>2, TargetIndexType
<1>6. CASE RollbackPhase
  <2>1. PICK ok \in BOOLEAN :
          /\ cmd.name = "rollback" /\ cmd.at > 0
          /\ cmd' = [cmd EXCEPT !.at = cmd.at - 1, !.running = ok]
    BY <1>6 DEF RollbackPhase, Running, StopsAtError
  <2>2. PICK next \in Nat : next = cmd.at - 1
    BY <2>1 DEF CommandType
  <2>3. cmd' \in CommandType /\ cmd'.name = cmd.name /\ cmd'.target = cmd.target
        /\ cmd'.at = next
    BY <2>1, <2>2 DEF CommandType
  <2>4. cmd.at \in Nat
    BY DEF CommandType
  <2> QED
    BY <1>1, <2>1, <2>2, <2>3, <2>4
<1>7. CASE RollbackEnd
  <2>1. cmd' = [cmd EXCEPT !.running = FALSE]
    BY <1>7 DEF RollbackEnd
  <2> QED
    BY <1>1, <2>1 DEF CommandType
<1> QED
  BY <1>2, <1>3, <1>4, <1>5, <1>6, <1>7
     DEF CommandsNext, RunHeartbeat, Gc, StatusReadEvent, StatusReadLock, RollbackBegin,
         RollbackPhase, RollbackEnd, commandVars

LEMMA CommandInvariance == CommandsSpec => [](AttemptInv /\ CommandInv)
<1>1. CommandsInit => CommandInv
  <2> SUFFICES ASSUME CommandsInit PROVE CommandInv
    OBVIOUS
  <2>1. Len(Executors) \in Nat /\ Len(ReadOrder) = 4
    BY ExecutorsType DEF ReadOrder
  <2>2. \E name \in {"gc", "status", "rollback"}, target \in Targets \cup {"none"} :
          cmd = Command(name, target, TRUE)
    <3>1. CASE \E target \in Targets : cmd = Command("rollback", target, TRUE)
      BY <3>1, Zenon
    <3>2. CASE cmd = Command("gc", "none", TRUE) \/ cmd = Command("status", "none", TRUE)
      BY <3>2, Zenon
    <3> QED
      BY <3>1, <3>2 DEF CommandsInit
  <2> QED
    BY <2>1, <2>2 DEF CommandInv, Command, CommandType
<1> QED
  BY <1>1, CommandInvStep, AttemptBeside, PTL DEF CommandsSpec

\* Where the command has been alone since it began, it still is, and everything
\* behind the phase in hand, or behind the one at which it stopped, is undone.
Lone ==
    cmd.name = "rollback" /\ cmd.alone =>
      /\ \A p \in Procs : pc[p] \notin HeartbeatOn
      /\ UndoneFrom(IF cmd.running THEN cmd.at + 1 ELSE cmd.at + 2)

LEMMA UndoneStep ==
    ASSUME AttemptInv, CommandInv, Lone, [CommandsNext]_commandVars
    PROVE  Lone'
<1>1. /\ TypeOK /\ cmd \in CommandType /\ Len(Executors) \in Nat
      /\ cmd.name = "rollback" => cmd.at <= Len(Executors)
  BY ExecutorsType DEF AttemptInv, TypeInv, CommandInv
<1>2. cmd'.name = cmd.name
  BY CommandInvStep
<1> SUFFICES ASSUME cmd.name = "rollback", cmd'.alone PROVE Lone'
  BY <1>2 DEF Lone
<1>3. CASE \E p \in Procs : (Step(p) \/ Cancel(p) \/ Crash(p)) /\ Watch
  <2>1. /\ cmd' = [cmd EXCEPT !.alone = cmd'.alone] /\ cmd.alone
        /\ \A p \in Procs : pc'[p] \notin HeartbeatOn
    BY <1>1, <1>3 DEF Watch, CommandType
  <2>2. cmd'.at = cmd.at /\ cmd'.running = cmd.running
    BY <1>1, <2>1 DEF CommandType
  <2>3. \A p \in Procs : pc[p] \notin HeartbeatOn
    BY <2>1 DEF Lone
  <2>4. UNCHANGED effect
    <3>1. \A p \in Procs : ~Execute(p) /\ ~Rollback(p)
      BY <2>3 DEF Execute, Rollback, HeartbeatOn
    <3> QED
      BY <1>3, <3>1, SchemaWriters DEF Next
  <2> QED
    BY <2>1, <2>2, <2>4 DEF Lone, UndoneFrom
<1>4. ASSUME UNCHANGED <<pc, effect, cmd>> PROVE Lone'
  BY <1>4 DEF Lone, UndoneFrom
<1>5. CASE (Expire /\ UNCHANGED <<beats, cmd>>) \/ (\E p \in Procs : RunHeartbeat(p)) \/ Gc
             \/ UNCHANGED commandVars
  <2>1. UNCHANGED <<pc, effect, cmd>>
    BY <1>5 DEF Expire, RunHeartbeat, Heartbeat, Gc, vars, commandVars
  <2> QED
    BY <1>4, <2>1
<1>6. CASE StatusReadEvent \/ StatusReadLock
  BY <1>6 DEF StatusReadEvent, StatusReadLock, Running
<1>7. CASE RollbackBegin
  <2>1. /\ cmd' = [cmd EXCEPT !.at = Len(Executors), !.alone = cmd'.alone] /\ cmd.running
        /\ UNCHANGED <<pc, effect>> /\ \A p \in Procs : pc[p] \notin HeartbeatOn
    BY <1>1, <1>7 DEF RollbackBegin, Running, Returned, Command, CommandType, vars
  <2>2. cmd'.at = Len(Executors) /\ cmd'.running
    BY <1>1, <2>1 DEF CommandType
  <2> QED
    BY <1>1, <2>1, <2>2 DEF Lone, UndoneFrom
<1>8. CASE RollbackPhase
  <2> DEFINE i == Executors[cmd.at]
             Undone(k) == HasRollback(Migration[Executors[k]]) => effect[Executors[k]] = "absent"
  <2>1. PICK left \in RollbackResults(Migration[i], effect[i]), ok \in BOOLEAN :
          /\ ok /\ HasRollback(Migration[i]) => left = "absent"
          /\ effect' = [effect EXCEPT ![i] = left]
          /\ cmd' = [cmd EXCEPT !.at = cmd.at - 1, !.running = ok]
    BY <1>8 DEF RollbackPhase, StopsAtError
  <2>2. /\ cmd.running /\ cmd.at > 0 /\ cmd.at \in Nat /\ UNCHANGED pc
        /\ cmd'.at = cmd.at - 1 /\ cmd'.alone = cmd.alone /\ cmd'.running = ok
    BY <1>1, <1>8, <2>1 DEF RollbackPhase, Running, CommandType
  <2>3. cmd.at \in 1 .. Len(Executors) /\ i \in Phases
    BY <1>1, <2>2, ExecutorsType
  <2>4. \A j \in Phases : effect'[j] = IF j = i THEN left ELSE effect[j]
    BY <1>1, <2>1 DEF TypeOK
  <2>5. \A k \in (cmd.at + 1) .. Len(Executors) : Undone(k)
    BY <2>2 DEF Lone, UndoneFrom
  <2>6. ASSUME NEW k \in cmd.at .. Len(Executors), ok \/ k # cmd.at PROVE Undone(k)'
    <3>1. k \in 1 .. Len(Executors) /\ Executors[k] \in Phases
      BY <1>1, <2>2, ExecutorsType
    <3>2. CASE k = cmd.at
      BY <2>1, <2>3, <2>4, <2>6, <3>2
    <3>3. CASE k # cmd.at
      <4>1. k \in (cmd.at + 1) .. Len(Executors)
        BY <1>1, <2>2, <2>6, <3>3
      <4>2. Executors[k] # i
        BY <1>1, <2>2, <2>3, <3>1, <4>1, ExecutorsType
      <4> QED
        BY <2>4, <2>5, <3>1, <4>1, <4>2
    <3> QED
      BY <3>2, <3>3
  <2>7. \A k \in (IF ok THEN cmd'.at + 1 ELSE cmd'.at + 2) .. Len(Executors) :
          k \in cmd.at .. Len(Executors) /\ (ok \/ k # cmd.at)
    BY <1>1, <2>2
  <2> QED
    BY <2>2, <2>6, <2>7 DEF Lone, UndoneFrom
<1>9. CASE RollbackEnd
  <2>1. cmd' = [cmd EXCEPT !.running = FALSE] /\ cmd.running /\ UNCHANGED <<pc, effect>>
    BY <1>9 DEF RollbackEnd, Running, vars
  <2>2. cmd'.at = cmd.at /\ cmd'.alone = cmd.alone /\ ~cmd'.running /\ cmd.at \in Nat
    BY <1>1, <2>1 DEF CommandType
  <2> QED
    BY <1>1, <2>1, <2>2 DEF Lone, UndoneFrom
<1> QED
  BY <1>3, <1>5, <1>6, <1>7, <1>8, <1>9 DEF CommandsNext

LEMMA LoneBeside == CommandsSpec => []Lone
<1>1. CommandsInit => Lone
  BY DEF CommandsInit, Init, Lone, HeartbeatOn, Command
<1> QED
  BY <1>1, UndoneStep, CommandInvariance, PTL DEF CommandsSpec

\* A rollback that nobody runs beside undoes from the end, and leaves nothing
\* undone behind it wherever it stops, whatever its target and the migration.
THEOREM RollbackUndoesFromTheEnd == CommandsSpec => []UndoneFromTheEnd
<1>1. Lone => UndoneFromTheEnd
  BY DEF Lone, UndoneFromTheEnd, Running
<1> QED
  BY <1>1, LoneBeside, PTL

\* The phases that a rollback has got to.
Touched ==
    IF cmd.name = "rollback" /\ cmd.at > 0
      THEN {Executors[k] : k \in (cmd.at + 1) .. Len(Executors)}
      ELSE {}

\* They only get more.
LEMMA TouchedGrows ==
    ASSUME AttemptInv, CommandInv, [CommandsNext]_commandVars
    PROVE  /\ Touched \subseteq Touched'
           /\ RollbackPhase => Executors[cmd.at] \in Touched'
<1>1. cmd \in CommandType /\ Len(Executors) \in Nat /\ cmd'.name = cmd.name
  BY ExecutorsType, CommandInvStep DEF CommandInv
<1> SUFFICES ASSUME cmd.name = "rollback" PROVE /\ Touched \subseteq Touched'
                                                /\ RollbackPhase => Executors[cmd.at] \in Touched'
  BY <1>1 DEF Touched, RollbackPhase, Running
<1>2. CASE Watch \/ UNCHANGED cmd \/ RollbackEnd
  <2>1. cmd'.at = cmd.at /\ ~RollbackPhase
    <3>1. CASE Watch \/ UNCHANGED cmd
      <4>1. cmd'.at = cmd.at /\ (cmd.at \in Nat)
        BY <1>1, <3>1 DEF Watch, CommandType
      <4>2. RollbackPhase => cmd'.at = cmd.at - 1
        BY <1>1 DEF RollbackPhase, StopsAtError, CommandType
      <4> QED
        BY <4>1, <4>2
    <3>2. CASE RollbackEnd
      BY <1>1, <3>2 DEF RollbackEnd, RollbackPhase, CommandType
    <3> QED
      BY <1>2, <3>1, <3>2
  <2> QED
    BY <1>1, <2>1 DEF Touched
<1>3. CASE RollbackBegin
  BY <1>3 DEF RollbackBegin, RollbackPhase, Touched
<1>4. CASE RollbackPhase
  <2>1. /\ cmd.at \in Nat /\ cmd.at > 0 /\ cmd.at <= Len(Executors)
        /\ cmd.at > TargetIndex(cmd.target) /\ TargetIndex(cmd.target) > 0
    BY <1>1, <1>4 DEF RollbackPhase, BehindTarget, CommandInv, CommandType
  <2>2. cmd'.at = cmd.at - 1
    BY <1>1, <1>4 DEF RollbackPhase, StopsAtError, CommandType
  <2>3. cmd'.at > 0 /\ (cmd'.at + 1) .. Len(Executors) = {cmd.at} \cup (cmd.at + 1) .. Len(Executors)
    BY <1>1, <2>1, <2>2, TargetIndexType
  <2> QED
    BY <1>1, <2>3 DEF Touched
<1>5. CASE StatusReadEvent \/ StatusReadLock
  BY <1>5 DEF StatusReadEvent, StatusReadLock, Running
<1> QED
  BY <1>2, <1>3, <1>4, <1>5 DEF CommandsNext, RunHeartbeat, Gc, commandVars

OthersInv == Holds /\ Newest /\ LatestIsNewest /\ Fulfilled(Touched) /\ AppliedBut(Touched)

LEMMA OthersStep ==
    ASSUME TimelyHeartbeats, DistinctNames, AttemptInv, CommandInv, OthersInv,
           [CommandsNext]_commandVars
    PROVE  OthersInv'
<1> USE DEF OthersInv
<1>1. PICK others : others = Touched'
  OBVIOUS
<1>2. Fulfilled(others) /\ AppliedBut(others)
  BY <1>1, TouchedGrows DEF Fulfilled, AppliedBut
<1>3. SUFFICES Newest' /\ LatestIsNewest' /\ Fulfilled(others)' /\ AppliedBut(others)'
  BY <1>1, HoldsBeside
<1>4. CASE [Next]_vars
  BY <1>2, <1>4, NewestStep, AppliedStep
<1>5. CASE RollbackPhase
  <2>1. UNCHANGED <<history, pc, idx, attempt, outcome>>
    BY <1>5 DEF RollbackPhase
  <2>2. \A i \in Phases \ others : effect'[i] = effect[i]
    <3>1. Executors[cmd.at] \in others
      BY <1>1, <1>5, TouchedGrows
    <3>2. \E left : effect' = [effect EXCEPT ![Executors[cmd.at]] = left]
      BY <1>5 DEF RollbackPhase
    <3> QED
      BY <3>1, <3>2 DEF AttemptInv, TypeInv, TypeOK
  <2>3. Newest' /\ LatestIsNewest'
    BY <2>1, SameMax DEF Newest, LatestIsNewest, RowsOf, Phase
  <2>4. AppliedBut(others)'
    BY <1>2, <2>1, <2>2, SameLatest DEF AppliedBut
  <2>5. Fulfilled(others)'
    <3>1. \A q \in Procs : idx[q] \in Phases /\ Phase(q)' = Phase(q)
      BY <2>1 DEF AttemptInv, TypeInv, TypeOK, Phase
    <3> QED
      BY <1>2, <2>1, <2>2, <3>1 DEF Fulfilled
  <2> QED
    BY <2>3, <2>4, <2>5
<1> QED
  BY <1>4, <1>5, CommandCases

\* With timely heartbeats a phase that the history calls completed is missing
\* only if a rollback has got to it, and then what is behind it is undone: the
\* invocations beside it and after it take nothing that it leaves for a verdict.
THEOREM MissingHasBeenUndone == CommandsSpec => []MissingIsUndone
<1>1. CASE TimelyHeartbeats /\ DistinctNames
  <2>1. CommandsInit => OthersInv
    BY DEF CommandsInit, Init, OthersInv, Holds, Newest, LatestIsNewest, Fulfilled, AppliedBut,
           Working, HeartbeatOn, LatestEvent, LatestOf, RowsOf
  <2>2. AttemptInv /\ CommandInv /\ OthersInv /\ [CommandsNext]_commandVars => OthersInv'
    BY <1>1, OthersStep
  <2>3. CommandInv /\ OthersInv /\ Lone => MissingIsUndone
    <3> SUFFICES ASSUME CommandInv, OthersInv, Lone, NEW i \in Phases,
                        effect[i] # "applied", Migration[i].name # "gate",
                        LatestEvent(Migration[i].name) = "PHASE_COMPLETED"
                 PROVE  /\ cmd.name = "rollback" /\ cmd.at > 0
                        /\ \E k \in (cmd.at + 1) .. Len(Executors) :
                             Executors[k] = i /\ (cmd.alone => UndoneFrom(k + 1))
      BY DEF MissingIsUndone
    <3>1. i \in Touched
      BY DEF OthersInv, AppliedBut
    <3>2. /\ cmd.name = "rollback" /\ cmd.at > 0 /\ cmd.at \in Nat
          /\ \E k \in (cmd.at + 1) .. Len(Executors) : Executors[k] = i
      BY <3>1 DEF Touched, CommandInv, CommandType
    <3>3. PICK k \in (cmd.at + 1) .. Len(Executors) : Executors[k] = i
      BY <3>2
    <3>4. ASSUME cmd.alone PROVE UndoneFrom(k + 1)
      <4>1. \A j \in (k + 1) .. Len(Executors) :
              j \in (IF cmd.running THEN cmd.at + 1 ELSE cmd.at + 2) .. Len(Executors)
        BY <3>2, ExecutorsType
      <4> QED
        BY <3>2, <3>4, <4>1 DEF Lone, UndoneFrom
    <3> QED
      BY <3>2, <3>3, <3>4
  <2> QED
    BY <2>1, <2>2, <2>3, LoneBeside, CommandInvariance, PTL DEF CommandsSpec
<1>2. CASE ~(TimelyHeartbeats /\ DistinctNames)
  <2>1. MissingIsUndone
    BY <1>2 DEF MissingIsUndone
  <2> QED
    BY <2>1, PTL
<1> QED
  BY <1>1, <1>2

-----------------------------------------------------------------------------
(* The moment of status                                                    *)

\* Rows are only added, behind the ones that are there.
Grows ==
    /\ Len(history) \in Nat /\ Len(history') \in Nat /\ Len(history) <= Len(history')
    /\ \A m \in DOMAIN history : m \in DOMAIN history' /\ history'[m] = history[m]
    /\ \A m \in DOMAIN history' : m \in DOMAIN history \/ m > Len(history)

LEMMA HistoryGrows ==
    ASSUME AttemptInv, [CommandsNext]_commandVars PROVE Grows
<1>1. TypeOK /\ Len(history) \in Nat
  BY DEF AttemptInv, TypeInv, TypeOK
<1>2. CASE UNCHANGED history
  BY <1>1, <1>2 DEF Grows
<1>3. CASE \E p \in Procs : \E t \in EventTypes : Appends(Own(p, t)) /\ Own(p, t) \in Events
  <2>1. PICK e \in Events : Appends(e)
    BY <1>3
  <2>2. /\ Len(history') = Len(history) + 1
        /\ DOMAIN history' = DOMAIN history \cup {Len(history) + 1}
        /\ \A n \in DOMAIN history : history'[n] = history[n]
    BY <1>1, <2>1, AppendsRows
  <2> QED
    BY <1>1, <2>2 DEF Grows
<1>4. CASE [Next]_vars
  BY <1>2, <1>3, <1>4, StepWrites
<1>5. CASE RollbackPhase
  BY <1>2, <1>5 DEF RollbackPhase
<1> QED
  BY <1>4, <1>5, CommandCases

\* What has been found after the first `at` reads is what the first n rows say of
\* these phases: j is the last of them with an event there, and the event kept is
\* the latest of phase j.
Found(at, since, event, j, n) ==
    /\ \A k \in (j + 1) .. at : \A m \in RowsOf(ReadOrder[k]) : ~(m <= n)
    /\ j = 0 => event = NoEvent
    /\ j # 0 => \E top \in RowsOf(ReadOrder[j]) :
                  /\ top <= n /\ event = history[top]
                  /\ \A m \in RowsOf(ReadOrder[j]) : m <= n => m <= top
    /\ since <= j \/ since > at
    /\ since # 0 => RowsOf(ReadOrder[since]) # {}

Moment ==
    Running("status") =>
      /\ cmd.since \in 0 .. Len(ReadOrder)
      /\ \E j \in 0 .. cmd.at, n \in 0 .. Len(history) : Found(cmd.at, cmd.since, cmd.event, j, n)

\* The rows that come later do not change it.
LEMMA FoundStays ==
    ASSUME TypeOK, Grows, NEW at \in 0 .. 4, NEW since \in 0 .. 4, NEW event, NEW j \in 0 .. at,
           NEW n \in 0 .. Len(history), Found(at, since, event, j, n)
    PROVE  Found(at, since, event, j, n)'
<1>1. DOMAIN history = 1 .. Len(history) /\ Len(history) \in Nat
  BY DEF TypeOK
<1>2. ASSUME NEW name
      PROVE  /\ RowsOf(name) \subseteq RowsOf(name)'
             /\ \A m \in RowsOf(name)' : m <= n => m \in RowsOf(name)
  BY <1>1 DEF Grows, RowsOf
<1>3. \A name : \A m \in RowsOf(name) : history'[m] = history[m]
  BY DEF Grows, RowsOf
<1> QED
  BY <1>2, <1>3 DEF Found

LEMMA MomentStep ==
    ASSUME AttemptInv, CommandInv, Moment, [CommandsNext]_commandVars PROVE Moment'
<1>1. TypeOK /\ cmd \in CommandType /\ Len(ReadOrder) = 4 /\ Len(history) \in Nat
  BY DEF AttemptInv, TypeInv, CommandInv, ReadOrder, TypeOK
<1>2. Grows
  BY HistoryGrows
<1> SUFFICES ASSUME Running("status")' PROVE Moment'
  BY DEF Moment
<1>3. CASE UNCHANGED <<cmd.name, cmd.running, cmd.at, cmd.since, cmd.event>>
  <2>1. Running("status") /\ cmd.at \in 0 .. 4 /\ cmd.since \in 0 .. 4
    BY <1>1, <1>3 DEF Running, CommandInv, CommandType, Moment
  <2>2. PICK j \in 0 .. cmd.at, n \in 0 .. Len(history) :
          Found(cmd.at, cmd.since, cmd.event, j, n)
    BY <2>1 DEF Moment
  <2>3. PICK at, since, event : at = cmd.at /\ since = cmd.since /\ event = cmd.event
    OBVIOUS
  <2>4. Found(at, since, event, j, n)'
    BY <1>1, <1>2, <2>1, <2>2, <2>3, FoundStays
  <2>5. at = cmd'.at /\ since = cmd'.since /\ event = cmd'.event
    BY <1>3, <2>3
  <2>6. Found(cmd.at, cmd.since, cmd.event, j, n)'
    BY <2>4, <2>5 DEF Found
  <2>7. n \in 0 .. Len(history')
    BY <1>1, <1>2 DEF Grows
  <2> QED
    BY <1>1, <2>1, <2>3, <2>5, <2>6, <2>7 DEF Moment
<1>4. CASE StatusReadEvent
  <2> DEFINE name == ReadOrder[cmd.at + 1]
             next == cmd.at + 1
             seen == IF cmd.at = 0 THEN LastActive(Len(history)) ELSE cmd.since
             kept == IF RowsOf(name) = {} THEN cmd.event ELSE history[Max(RowsOf(name))]
  <2>1. /\ Running("status") /\ cmd.at \in 0 .. 3 /\ cmd.since \in 0 .. 4 /\ UNCHANGED history
    BY <1>1, <1>4 DEF StatusReadEvent, CommandType, Moment, vars
  <2>2. cmd' = [cmd EXCEPT !.at = next, !.since = seen, !.event = kept]
    BY <1>1, <1>4 DEF StatusReadEvent, NextToRead, Returned, Command, Running
  <2>3. next \in 1 .. 4 /\ name = ReadOrder[next] /\ next \in DOMAIN ReadOrder
    BY <2>1 DEF ReadOrder
  <2>4. LastActive(Len(history)) \in 0 .. 4
    BY <1>1, LastActiveIs
  <2>5. seen \in 0 .. 4
    BY <2>1, <2>4
  <2>6. cmd'.at = next /\ cmd'.since = seen /\ cmd'.event = kept
    <3> HIDE DEF next, seen, kept
    <3> QED
      BY <1>1, <2>2 DEF CommandType
  <2>7. PICK j \in 0 .. cmd.at, n \in 0 .. Len(history) :
          Found(cmd.at, cmd.since, cmd.event, j, n)
    BY <2>1 DEF Moment
  <2>8. seen # 0 => RowsOf(ReadOrder[seen]) # {}
    BY <2>7, LastActiveIs DEF Found
  <2>9. \E i \in 0 .. next, l \in 0 .. Len(history) : Found(next, seen, kept, i, l)
    <3>1. CASE RowsOf(name) # {}
      <4> DEFINE N == Len(history)
                 top == Max(RowsOf(name))
      <4>1. RowsOf(name) \in SUBSET DOMAIN history
        BY DEF RowsOf
      <4>2. top \in RowsOf(name) /\ \A m \in RowsOf(name) : m <= top
        BY <1>1, <3>1, <4>1, LatestRow
      <4>3. top <= N
        BY <1>1, <4>1, <4>2 DEF TypeOK
      <4>4. kept = history[top] /\ next # 0
        BY <2>1, <3>1
      <4>5. seen <= next \/ seen > next
        BY <2>3, <2>5
      <4>6. (next + 1) .. next = {}
        BY <2>3
      <4> HIDE DEF top, seen, kept, next
      <4>7. Found(next, seen, kept, next, N)
        BY <2>3, <2>8, <4>2, <4>3, <4>4, <4>5, <4>6 DEF Found
      <4> QED
        BY <1>1, <2>3, <4>7
    <3>2. CASE RowsOf(name) = {} /\ cmd.at # 0
      <4>1. kept = cmd.event /\ seen = cmd.since
        BY <3>2
      <4>2. \A k \in (j + 1) .. next : \A m \in RowsOf(ReadOrder[k]) : ~(m <= n)
        <5>1. \A k \in (j + 1) .. next : k \in (j + 1) .. cmd.at \/ k = next
          BY <2>1
        <5> QED
          BY <2>3, <2>7, <3>2, <5>1 DEF Found
      <4>3. seen # next
        BY <2>3, <2>8, <3>2
      <4>4. seen <= j \/ seen > next
        <5>1. seen <= j \/ seen > cmd.at
          BY <2>7, <4>1 DEF Found
        <5> QED
          BY <2>1, <2>5, <4>3, <5>1
      <4>5. Found(next, seen, kept, j, n)
        BY <2>7, <2>8, <4>1, <4>2, <4>4 DEF Found
      <4> QED
        BY <2>1, <2>7, <4>5
    <3>3. CASE RowsOf(name) = {} /\ cmd.at = 0
      <4>1. j = 0 /\ kept = NoEvent /\ next = 1
        BY <2>7, <3>3 DEF Found
      <4>2. \A k \in 1 .. 1 : RowsOf(ReadOrder[k]) = {}
        BY <2>3, <3>3
      <4>3. seen <= 0 \/ seen > 1
        BY <2>3, <2>5, <2>8, <3>3
      <4>4. Found(1, seen, kept, 0, 0)
        BY <2>8, <4>1, <4>2, <4>3 DEF Found
      <4> QED
        BY <1>1, <4>1, <4>4
    <3> QED
      BY <3>1, <3>2, <3>3
  <2> HIDE DEF next, seen, kept
  <2>10. PICK i \in 0 .. next, l \in 0 .. Len(history) : Found(next, seen, kept, i, l)
    BY <2>9
  <2>11. Found(cmd.at, cmd.since, cmd.event, i, l)'
    BY <2>1, <2>6, <2>10 DEF Found, RowsOf
  <2> QED
    BY <1>1, <2>1, <2>3, <2>5, <2>6, <2>10, <2>11 DEF Moment
<1>5. CASE Watch
  <2>1. cmd' = [cmd EXCEPT !.alone = cmd'.alone]
    BY <1>1, <1>5 DEF Watch, CommandType
  <2> QED
    BY <1>1, <1>3, <2>1 DEF CommandType
<1>6. CASE UNCHANGED cmd
  BY <1>3, <1>6
<1>7. CASE StatusReadLock \/ RollbackBegin \/ RollbackPhase \/ RollbackEnd
  <2>1. cmd.name = "rollback" \/ cmd' = Returned
    BY <1>7 DEF StatusReadLock, RollbackBegin, RollbackPhase, RollbackEnd, Running
  <2>2. cmd'.name = cmd.name
    BY CommandInvStep
  <2> QED
    BY <2>1, <2>2 DEF Running, Returned, Command
<1> QED
  BY <1>4, <1>5, <1>6, <1>7 DEF CommandsNext, RunHeartbeat, Gc, commandVars

\* What status reports was so at one single moment, though it reads one phase
\* after the other: the phases are read in an order, and rows are only added.
THEOREM StatusHasItsMoment == CommandsSpec => []StatusIsOfOneMoment
<1>1. CommandsInit => Moment
  <2> SUFFICES ASSUME CommandsInit PROVE Moment
    OBVIOUS
  <2>1. history = << >> /\ Len(ReadOrder) = 4
    BY DEF CommandsInit, Init, ReadOrder
  <2>2. \E name, target : cmd = Command(name, target, TRUE)
    BY Zenon DEF CommandsInit
  <2>3. cmd.at = 0 /\ cmd.since = 0 /\ cmd.event = NoEvent
    BY <2>2 DEF Command
  <2>4. Found(0, 0, NoEvent, 0, 0)
    BY DEF Found
  <2> QED
    BY <2>1, <2>3, <2>4 DEF Moment
<1>2. AttemptInv /\ CommandInv /\ Moment /\ [CommandsNext]_commandVars => Moment'
  BY MomentStep
<1>3. AttemptInv /\ CommandInv /\ Moment => StatusIsOfOneMoment
  <2> SUFFICES ASSUME AttemptInv, CommandInv, Moment, Running("status"), cmd.at = Len(ReadOrder)
               PROVE  \E n \in 0 .. Len(history) :
                        LET i == LastActive(n) IN
                        /\ i >= cmd.since
                        /\ cmd.event = IF i = 0 THEN NoEvent
                              ELSE history[Max({m \in RowsOf(ReadOrder[i]) : m <= n})]
    BY DEF StatusIsOfOneMoment
  <2>1. Len(ReadOrder) = 4 /\ DOMAIN ReadOrder = 1 .. 4 /\ cmd.since \in 0 .. 4 /\ cmd.at = 4
    BY DEF Moment, ReadOrder
  <2>2. PICK j \in 0 .. 4, n \in 0 .. Len(history) : Found(4, cmd.since, cmd.event, j, n)
    BY <2>1 DEF Moment
  <2>3. LastActive(n) = j
    <3>1. LastActive(n) \in 0 .. 4
      BY <2>1, LastActiveIs
    <3>2. ~(LastActive(n) > j)
      <4> SUFFICES ASSUME LastActive(n) > j PROVE FALSE
        OBVIOUS
      <4>1. LastActive(n) \in (j + 1) .. 4 /\ LastActive(n) # 0
        BY <3>1
      <4>2. \E m \in RowsOf(ReadOrder[LastActive(n)]) : m <= n
        BY <4>1, LastActiveIs
      <4> QED
        BY <2>2, <4>1, <4>2 DEF Found
    <3>3. ~(j > LastActive(n))
      <4> SUFFICES ASSUME j > LastActive(n) PROVE FALSE
        OBVIOUS
      <4>1. j \in DOMAIN ReadOrder /\ j # 0
        BY <2>1, <3>1
      <4>2. \A m \in RowsOf(ReadOrder[j]) : ~(m <= n)
        BY <4>1, LastActiveIs
      <4> QED
        BY <2>2, <4>1, <4>2 DEF Found
    <3> QED
      BY <3>1, <3>2, <3>3
  <2>4. j >= cmd.since
    BY <2>1, <2>2 DEF Found
  <2>5. CASE j = 0
    BY <2>2, <2>3, <2>4, <2>5 DEF Found
  <2>6. CASE j # 0
    <3> DEFINE rows == {m \in RowsOf(ReadOrder[j]) : m <= n}
    <3>1. PICK top \in RowsOf(ReadOrder[j]) :
            /\ top <= n /\ cmd.event = history[top]
            /\ \A m \in RowsOf(ReadOrder[j]) : m <= n => m <= top
      BY <2>2, <2>6 DEF Found
    <3>2. rows \in SUBSET DOMAIN history /\ rows # {} /\ TypeOK
      BY <3>1 DEF RowsOf, AttemptInv, TypeInv
    <3>3. Max(rows) \in rows /\ \A m \in rows : m <= Max(rows)
      BY <3>2, LatestRow
    <3> DEFINE last == Max(rows)
    <3>4. last = top
      <4>1. last \in DOMAIN history /\ top \in DOMAIN history /\ top \in rows
        BY <3>1, <3>2, <3>3
      <4>2. last \in Nat /\ top \in Nat
        BY <3>2, <4>1 DEF TypeOK
      <4>3. last <= top /\ top <= last
        BY <3>1, <3>3, <4>1
      <4> HIDE DEF last
      <4> QED
        BY <4>2, <4>3
    <3> QED
      BY <2>3, <2>4, <2>6, <3>1, <3>4
  <2> QED
    BY <2>5, <2>6
<1> QED
  BY <1>1, <1>2, <1>3, CommandInvariance, PTL DEF CommandsSpec

-----------------------------------------------------------------------------
(* The invocations beside the commands                                     *)

\* rollback writes the schema and nothing else that an invocation reads.
LEMMA RollbackWritesSchema ==
    ASSUME RollbackPhase
    PROVE  UNCHANGED <<history, lock, pc, resume, idx, latest, attempt, outcome, cancelled, lockLost>>
  BY DEF RollbackPhase

LEMMA OrderBeside ==
    ASSUME OrderInv, [CommandsNext]_commandVars PROVE OrderInv'
<1>1. AttemptInv'
  BY CommandStep DEF OrderInv
<1>2. CASE [Next]_vars
  BY <1>1, <1>2, PhaseOrderStep, PassedStep DEF OrderInv
<1>3. CASE RollbackPhase
  <2>1. Passed' /\ DoneMeansCompleted'
    BY <1>3, RollbackWritesSchema DEF OrderInv, Passed, DoneMeansCompleted, Completed, RowsOf, Phase
  <2>2. PhaseOrder'
    BY <1>3, RollbackWritesSchema DEF OrderInv, PhaseOrder, RowsOf
  <2> QED
    BY <1>1, <2>1, <2>2 DEF OrderInv
<1> QED
  BY <1>2, <1>3, CommandCases

LEMMA NewestBeside ==
    ASSUME TimelyHeartbeats, AttemptInv, Holds, Newest, LatestIsNewest,
           [CommandsNext]_commandVars
    PROVE  Newest' /\ LatestIsNewest'
<1>1. CASE [Next]_vars
  BY <1>1, NewestStep
<1>2. CASE RollbackPhase
  <2>1. Newest'
    BY <1>2, RollbackWritesSchema DEF Newest, MaxAttemptNumber, RowsOf, Phase
  <2>2. LatestIsNewest'
    BY <1>2, RollbackWritesSchema DEF LatestIsNewest, MaxAttemptNumber, RowsOf
  <2> QED
    BY <2>1, <2>2
<1> QED
  BY <1>1, <1>2, CommandCases

LEMMA TidyBeside ==
    ASSUME AttemptInv, Tidy, [CommandsNext]_commandVars PROVE Tidy'
<1>1. CASE [Next]_vars
  BY <1>1, TidyStep
<1>2. CASE RollbackPhase
  BY <1>2, RollbackWritesSchema DEF Tidy
<1> QED
  BY <1>1, <1>2, CommandCases

\* Beside gc, status and rollback the invocations keep all that they keep by
\* themselves: no two own an attempt, the history is numbered and ordered, who
\* reports success has completed every phase and left no lock, the lock
\* excludes, and the newest attempt has the last word.
THEOREM CommandsDisturbNothing ==
    CommandsSpec =>
      []( /\ TypeOK
          /\ OneOwnerPerAttempt /\ AttemptLifecycle /\ AttemptsDense
          /\ PhaseOrder /\ DoneMeansCompleted
          /\ MutualExclusion /\ DoneLeavesNoLock
          /\ LatestIsNewest)
<1> DEFINE Undisturbed == /\ TypeOK
                         /\ OneOwnerPerAttempt /\ AttemptLifecycle /\ AttemptsDense
                         /\ PhaseOrder /\ DoneMeansCompleted
                         /\ MutualExclusion /\ DoneLeavesNoLock
                         /\ LatestIsNewest
<1>1. CommandsInit => OrderInv /\ Holds /\ Tidy
  BY InitOrderInv, NobodyAssumption DEF CommandsInit, Init, Holds, Working, HeartbeatOn, Tidy, NoLock
<1>2. OrderInv /\ [CommandsNext]_commandVars => OrderInv'
  BY OrderBeside
<1>3. AttemptInv /\ Holds /\ [CommandsNext]_commandVars => Holds'
  BY HoldsBeside
<1>4. AttemptInv /\ Tidy /\ [CommandsNext]_commandVars => Tidy'
  BY TidyBeside
<1>5. CommandsSpec => []LatestIsNewest
  <2>1. CASE TimelyHeartbeats
    <3>1. CommandsInit => Holds /\ Newest /\ LatestIsNewest
      BY DEF CommandsInit, Init, Holds, Newest, LatestIsNewest, Working, HeartbeatOn
    <3>2. /\ AttemptInv /\ Holds /\ Newest /\ LatestIsNewest /\ [CommandsNext]_commandVars
          => Newest' /\ LatestIsNewest'
      BY <2>1, NewestBeside
    <3> QED
      BY <1>3, <3>1, <3>2, AttemptBeside, PTL DEF CommandsSpec
  <2>2. CASE ~TimelyHeartbeats
    <3>1. LatestIsNewest
      BY <2>2 DEF LatestIsNewest
    <3> QED
      BY <3>1, PTL
  <2> QED
    BY <2>1, <2>2
<1>6. OrderInv /\ Holds /\ Tidy /\ LatestIsNewest => Undisturbed
  BY DEF OrderInv, AttemptInv, Holds, MutualExclusion, Tidy, DoneLeavesNoLock, Holding, HeartbeatOn,
         TypeInv
<1> QED
  BY <1>1, <1>2, <1>3, <1>4, <1>5, <1>6, AttemptBeside, PTL DEF CommandsSpec

\* The history is a ledger of attempts beside the commands too: gc, status and
\* rollback open, settle and undo nothing in it.
THEOREM LedgerBesideCommands == CommandsSpec => ImplementsLedger
<1>1. CommandsInit => OrderInv /\ Positive /\ Abstract!Init
  BY InitOrderInv, LedgerInit DEF CommandsInit
<1>2. OrderInv /\ [CommandsNext]_commandVars => OrderInv'
  BY OrderBeside
<1>3. OrderInv /\ Positive /\ [CommandsNext]_commandVars => Positive'
  <2>1. RollbackPhase /\ Positive => Positive'
    BY RollbackWritesSchema DEF Positive
  <2> QED
    BY <2>1, CommandCases, PositiveStep DEF OrderInv
<1>4. OrderInv /\ Positive /\ [CommandsNext]_commandVars => [Abstract!Next]_ledgerOfHistory
  <2>1. RollbackPhase => ledgerOfHistory' = ledgerOfHistory
    BY RollbackWritesSchema, SameLedger
  <2> QED
    BY <2>1, CommandCases, LedgerStep
<1> QED
  BY <1>1, <1>2, <1>3, <1>4, PTL DEF CommandsSpec, ImplementsLedger, Abstract!Spec

\* And with timely heartbeats the lock is the lock of Lock beside them.
THEOREM LockBesideCommands == TimelyHeartbeats => (CommandsSpec => ImplementsLock)
<1> SUFFICES ASSUME TimelyHeartbeats PROVE CommandsSpec => ImplementsLock
  OBVIOUS
<1>1. CommandsInit => Holds /\ LockView!Init
  BY DEF CommandsInit, Init, Holds, LockView!Init, LockView!NoRow, NoLock, Working, HeartbeatOn
<1>2. AttemptInv /\ Holds /\ [CommandsNext]_commandVars => Holds'
  BY HoldsBeside
<1>3. AttemptInv /\ Holds /\ [CommandsNext]_commandVars
        => [LockView!Next]_<<lock, {p \in Procs : Working(p)}>>
  <2>1. RollbackPhase => UNCHANGED <<lock, {p \in Procs : Working(p)}>>
    BY RollbackWritesSchema DEF Working
  <2>2. AttemptInv /\ Holds /\ [Next]_vars => [LockView!Next]_<<lock, {p \in Procs : Working(p)}>>
    BY LockStep DEF AttemptInv, TypeInv, Workers
  <2> QED
    BY <2>1, <2>2, CommandCases
<1> QED
  BY <1>1, <1>2, <1>3, AttemptBeside, PTL DEF CommandsSpec, ImplementsLock, LockView!Spec

=============================================================================
