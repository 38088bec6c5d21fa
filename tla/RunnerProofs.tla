---------------------------- MODULE RunnerProofs ----------------------------
(***************************************************************************)
(* Theorems about Runner, for every migration, every set of invocations    *)
(* and every set of faults.                                                *)
(***************************************************************************)
EXTENDS Runner, TLAPS, WellFoundedInduction, SequenceTheorems

-----------------------------------------------------------------------------
(* The largest element of a bounded set of numbers                         *)

LEMMA LeastOf ==
    ASSUME NEW S \in SUBSET Nat, S # {} PROVE \E u \in S : \A v \in S : ~(v < u)
<1>1. IsWellFoundedOn(OpToRel(<, Nat), Nat)
  BY NatLessThanWellFounded
<1>2. PICK u \in S : \A v \in S : ~ <<v, u>> \in OpToRel(<, Nat)
  BY <1>1, WFMin
<1>3. \A v \in S : ~(v < u)
  BY <1>2 DEF OpToRel
<1> QED
  BY <1>3

\* A non-empty set of numbers below a bound has a largest element, which is
\* what ORDER BY ID DESC LIMIT 1 and MAX(ATTEMPT_NUMBER) return.
LEMMA MaxOfBounded ==
    ASSUME NEW S \in SUBSET Nat, S # {}, NEW b \in Nat, \A x \in S : x <= b
    PROVE  Max(S) \in S /\ \A x \in S : x <= Max(S)
<1> DEFINE Bounds == {u \in Nat : \A x \in S : x <= u}
<1>1. Bounds # {}
  OBVIOUS
<1>3. PICK u \in Bounds : \A v \in Bounds : ~(v < u)
  BY <1>1, LeastOf
<1>4. u \in S
  <2>1. SUFFICES ASSUME u \notin S PROVE FALSE
    OBVIOUS
  <2>2. \A x \in S : x <= u - 1
    BY <2>1
  <2>3. PICK x \in S : x <= u - 1
    BY <2>2
  <2>4. u - 1 \in Nat
    BY <2>3
  <2> QED
    BY <1>3, <2>2, <2>4
<1>5. \E m \in S : \A x \in S : m >= x
  BY <1>4
<1> QED
  BY <1>5 DEF Max

-----------------------------------------------------------------------------
(* Types                                                                   *)

\* Attempt numbers never run ahead of the number of rows, so the rows of a
\* phase always have a largest one.
Numbered ==
    /\ \A n \in DOMAIN history : history[n].attempt <= Len(history)
    /\ \A p \in Procs : attempt[p] <= Len(history) + 1

TypeInv == TypeOK /\ Numbered

LEMMA PhaseType ==
    ASSUME TypeOK, NEW p \in Procs
    PROVE  /\ idx[p] \in Phases
           /\ Phase(p) \in [name : STRING, onFailure : STRING, rollbackSQL : BOOLEAN]
           /\ Phase(p).name \in STRING
<1>1. idx[p] \in 1 .. Len(Migration)
  BY DEF TypeOK, Phases
<1>2. Migration[idx[p]] \in [name : STRING, onFailure : STRING, rollbackSQL : BOOLEAN]
  BY <1>1, MigrationAssumption, ElementOfSeq
<1> QED
  BY <1>1, <1>2 DEF Phase, Phases

LEMMA LatestRow ==
    ASSUME TypeOK, NEW rows \in SUBSET DOMAIN history, rows # {}
    PROVE  Max(rows) \in rows /\ \A n \in rows : n <= Max(rows)
<1>1. rows \in SUBSET Nat /\ Len(history) \in Nat /\ \A n \in rows : n <= Len(history)
  BY DEF TypeOK
<1> QED
  BY <1>1, MaxOfBounded

LEMMA LatestType ==
    ASSUME TypeOK, NEW rows \in SUBSET DOMAIN history
    PROVE  /\ LatestOf(rows) \in EventTypes \cup {"none"}
           /\ LatestOf(rows) # "none" => \E n \in rows : LatestOf(rows) = history[n].type
<1>1. CASE rows = {}
  BY <1>1 DEF LatestOf
<1>2. CASE rows # {}
  <2>1. Max(rows) \in rows
    BY <1>2, LatestRow
  <2>2. history[Max(rows)] \in Events
    BY <2>1 DEF TypeOK
  <2> QED
    BY <1>2, <2>1, <2>2 DEF LatestOf, Events
<1> QED
  BY <1>1, <1>2

LEMMA MaxAttempt ==
    ASSUME TypeInv, NEW name
    PROVE  /\ MaxAttemptNumber(name) \in 0 .. Len(history)
           /\ \A n \in RowsOf(name) : history[n].attempt <= MaxAttemptNumber(name)
           /\ RowsOf(name) # {} =>
                \E n \in RowsOf(name) : history[n].attempt = MaxAttemptNumber(name)
           /\ RowsOf(name) = {} => MaxAttemptNumber(name) = 0
<1> DEFINE S == {history[n].attempt : n \in RowsOf(name)}
<1>1. CASE RowsOf(name) = {}
  BY <1>1 DEF MaxAttemptNumber, TypeInv, TypeOK
<1>2. CASE RowsOf(name) # {}
  <2>1. \A n \in RowsOf(name) : history[n] \in Events /\ history[n].attempt <= Len(history)
    BY DEF TypeInv, TypeOK, Numbered, RowsOf
  <2>2. S \in SUBSET Nat /\ S # {} /\ Len(history) \in Nat /\ \A x \in S : x <= Len(history)
    BY <1>2, <2>1 DEF TypeInv, TypeOK, Events
  <2>3. Max(S) \in S /\ \A x \in S : x <= Max(S)
    BY <2>2, MaxOfBounded
  <2>4. MaxAttemptNumber(name) = Max(S)
    BY <1>2 DEF MaxAttemptNumber
  <2>5. PICK n \in RowsOf(name) : history[n].attempt = Max(S)
    BY <2>3
  <2>6. Max(S) \in 0 .. Len(history)
    BY <2>2, <2>3
  <2> QED
    BY <1>2, <2>3, <2>4, <2>5, <2>6
<1> QED
  BY <1>1, <1>2

\* The three ways an INSERT of an event can go: recorded and answered, recorded
\* with the answer lost, refused or failed.
Appends(e) == ~Recorded(e) /\ history' = Append(history, e)

LEMMA InsertEventCases ==
    ASSUME NEW p, NEW e, NEW okay, NEW bad, InsertEvent(p, e, okay, bad)
    PROVE  \/ Appends(e) /\ (Goto(p, okay) \/ Goto(p, bad))
           \/ history' = history /\ Goto(p, bad)
BY DEF InsertEvent, Appends, Replies

LEMMA AppendsRows ==
    ASSUME TypeOK, NEW e \in Events, Appends(e)
    PROVE  /\ history' \in Seq(Events)
           /\ Len(history') = Len(history) + 1
           /\ DOMAIN history' = DOMAIN history \cup {Len(history) + 1}
           /\ \A n \in DOMAIN history : history'[n] = history[n] /\ n < Len(history) + 1
           /\ history'[Len(history) + 1] = e
           /\ Len(history) + 1 \notin DOMAIN history
BY DEF TypeOK, Appends

LEMMA EventType ==
    ASSUME TypeOK, NEW p \in Procs, NEW type \in EventTypes
    PROVE  Event(Phase(p).name, attempt[p], type) \in Events
BY PhaseType DEF TypeOK, Event, Events

\* An invocation's INSERT keeps the table well formed.
LEMMA InsertEventType ==
    ASSUME TypeInv, NEW p \in Procs, NEW type \in EventTypes,
           NEW okay \in Labels, NEW bad \in Labels,
           InsertEvent(p, Event(Phase(p).name, attempt[p], type), okay, bad),
           UNCHANGED attempt
    PROVE  history' \in Seq(Events) /\ pc' \in [Procs -> Labels] /\ Numbered'
<1> DEFINE e == Event(Phase(p).name, attempt[p], type)
<1>1. e \in Events /\ e.attempt = attempt[p]
  BY EventType DEF TypeInv, Event
<1>2. pc' \in [Procs -> Labels]
  <2>1. Goto(p, okay) \/ Goto(p, bad)
    BY InsertEventCases
  <2> QED
    BY <2>1 DEF TypeInv, TypeOK, Goto
<1>3. CASE history' = history
  BY <1>2, <1>3 DEF TypeInv, TypeOK, Numbered
<1>4. CASE Appends(e)
  <2>1. \A n \in DOMAIN history : history[n] \in Events
    BY DEF TypeInv, TypeOK
  <2>2. history' \in Seq(Events) /\ Len(history') = Len(history) + 1
    BY <1>1, <1>4, AppendsRows DEF TypeInv
  <2>3. ASSUME NEW n \in DOMAIN history' PROVE history'[n].attempt <= Len(history')
    BY <1>1, <1>4, <2>1, <2>2, <2>3, AppendsRows DEF TypeInv, TypeOK, Numbered, Events
  <2>4. \A q \in Procs : attempt'[q] <= Len(history') + 1
    BY <2>2 DEF TypeInv, TypeOK, Numbered
  <2> QED
    BY <1>2, <2>2, <2>3, <2>4 DEF Numbered
<1> QED
  BY <1>3, <1>4, InsertEventCases

LEMMA NextPhaseType ==
    ASSUME TypeOK, NEW p \in Procs, NextPhase(p)
    PROVE  pc' \in [Procs -> Labels] /\ idx' \in [Procs -> Phases]
<1>1. Len(Migration) \in Nat
  BY MigrationAssumption
<1>2. CASE idx[p] < Len(Migration)
  <2>1. idx[p] + 1 \in Phases
    BY <1>1, <1>2 DEF TypeOK, Phases
  <2> QED
    BY <1>2, <2>1 DEF TypeOK, NextPhase, Goto, Labels
<1>3. CASE ~(idx[p] < Len(Migration))
  BY <1>3 DEF TypeOK, NextPhase, Goto, Labels, Ended
<1> QED
  BY <1>2, <1>3

LEMMA InitTypeInv == Init => TypeInv
<1> SUFFICES ASSUME Init PROVE TypeInv
  OBVIOUS
<1>1. Len(Migration) \in Nat /\ Len(Migration) >= 1
  BY MigrationAssumption
<1> QED
  BY <1>1 DEF Init, TypeInv, TypeOK, Numbered, NoLock, Phases, Labels, EventTypes

\* Every step keeps the types and the numbering.
LEMMA StepTypeInv ==
    ASSUME TypeInv, [Next]_vars PROVE TypeInv'
<1> USE DEF TypeInv
<1>1. ASSUME NEW p \in Procs, Start(p) PROVE TypeInv'
  BY <1>1 DEF TypeOK, Numbered, Start, Goto, Labels, Ended
<1>2. ASSUME NEW p \in Procs, ReadLatest(p) PROVE TypeInv'
  <2>1. LatestEvent(Phase(p).name) \in EventTypes \cup {"none"}
    BY LatestType DEF LatestEvent, RowsOf
  <2> QED
    BY <1>2, <2>1 DEF TypeOK, Numbered, ReadLatest, Goto, Labels, Ended
<1>3. ASSUME NEW p \in Procs, ReadLock(p) PROVE TypeInv'
  <2>1. pc' \in [Procs -> Labels] /\ idx' \in [Procs -> Phases]
    BY <1>3, NextPhaseType DEF ReadLock, TypeOK, Goto, Labels, Ended
  <2> QED
    BY <1>3, <2>1 DEF TypeOK, Numbered, ReadLock
<1>4. ASSUME NEW p \in Procs, AcquireInsert(p) PROVE TypeInv'
  <2>1. \E label \in Labels : Goto(p, label)
    BY <1>4 DEF AcquireInsert, Labels, Ended
  <2>2. lock' \in [holder : Procs \cup {Nobody}, live : BOOLEAN]
    <3>1. lock' = lock \/ lock' = [holder |-> p, live |-> TRUE]
      BY <1>4 DEF AcquireInsert
    <3>2. [holder |-> p, live |-> TRUE] \in [holder : Procs \cup {Nobody}, live : BOOLEAN]
      OBVIOUS
    <3>3. lock \in [holder : Procs \cup {Nobody}, live : BOOLEAN]
      BY DEF TypeOK
    <3> QED
      BY <3>1, <3>2, <3>3
  <2> QED
    BY <1>4, <2>1, <2>2 DEF TypeOK, Numbered, AcquireInsert, Goto
<1>5. ASSUME NEW p \in Procs, AcquireSteal(p) PROVE TypeInv'
  BY <1>5 DEF TypeOK, Numbered, AcquireSteal, Goto, Labels, Ended
<1>6. ASSUME NEW p \in Procs, ReadMaxAttempt(p) PROVE TypeInv'
  <2>1. MaxAttemptNumber(Phase(p).name) \in 0 .. Len(history) /\ Len(history) \in Nat
    BY MaxAttempt DEF TypeOK
  <2> QED
    BY <1>6, <2>1 DEF TypeOK, Numbered, ReadMaxAttempt, Goto, Labels, Ended
<1>7. ASSUME NEW p \in Procs, InsertStarted(p) PROVE TypeInv'
  <2>1. history' \in Seq(Events) /\ pc' \in [Procs -> Labels] /\ Numbered'
    BY <1>7, InsertEventType DEF InsertStarted, Labels, HeartbeatOn, EventTypes
  <2> QED
    BY <1>7, <2>1 DEF TypeOK, InsertStarted
<1>8. ASSUME NEW p \in Procs, Execute(p) PROVE TypeInv'
  <2>1. ASSUME NEW name, NEW was \in {"absent", "partial", "applied"},
               NEW res \in ExecResults(name, was)
        PROVE  res[1] \in {"absent", "partial", "applied"} /\ res[2] \in {"nil", "error", "timeout"}
    BY <2>1 DEF ExecResults
  <2>2. effect[idx[p]] \in {"absent", "partial", "applied"}
    BY DEF TypeOK
  <2>3. effect' \in [Phases -> {"absent", "partial", "applied"}]
        /\ outcome' \in [Procs -> {"nil", "error", "timeout"}]
    BY <1>8, <2>1, <2>2 DEF Execute, TypeOK
  <2> QED
    BY <1>8, <2>3 DEF TypeOK, Numbered, Execute, Goto, Labels, HeartbeatOn
<1>9. ASSUME NEW p \in Procs, TerminalGuard(p) PROVE TypeInv'
  <2>1. pc' \in [Procs -> Labels] /\ idx' \in [Procs -> Phases]
    BY <1>9, NextPhaseType DEF TerminalGuard, TypeOK, Goto, Labels, Ended, HeartbeatOn
  <2> QED
    BY <1>9, <2>1 DEF TypeOK, Numbered, TerminalGuard
<1>10. ASSUME NEW p \in Procs, InsertTerminal(p) PROVE TypeInv'
  <2>1. Verdict(outcome[p]) \in EventTypes
    BY DEF TypeOK, Verdict, EventTypes, TerminalTypes
  <2>2. history' \in Seq(Events) /\ pc' \in [Procs -> Labels] /\ Numbered'
    BY <1>10, <2>1, InsertEventType DEF InsertTerminal, Labels, HeartbeatOn, Ended
  <2> QED
    BY <1>10, <2>2 DEF TypeOK, InsertTerminal
<1>11. ASSUME NEW p \in Procs, Rollback(p) PROVE TypeInv'
  <2>1. effect' \in [Phases -> {"absent", "partial", "applied"}]
    BY <1>11 DEF Rollback, RollbackResults, TypeOK
  <2> QED
    BY <1>11, <2>1 DEF TypeOK, Numbered, Rollback, Goto, Labels, HeartbeatOn
<1>12. ASSUME NEW p \in Procs, InsertRolledBack(p) PROVE TypeInv'
  <2>1. history' \in Seq(Events) /\ pc' \in [Procs -> Labels] /\ Numbered'
    BY <1>12, InsertEventType DEF InsertRolledBack, Labels, Ended, EventTypes, TerminalTypes
  <2> QED
    BY <1>12, <2>1 DEF TypeOK, InsertRolledBack
<1>13. ASSUME NEW p \in Procs, ReleaseLock(p) PROVE TypeInv'
  <2>1. pc' \in [Procs -> Labels] /\ idx' \in [Procs -> Phases]
    BY <1>13, NextPhaseType DEF ReleaseLock, TypeOK, Goto, Labels, Ended
  <2>2. lock' \in [holder : Procs \cup {Nobody}, live : BOOLEAN]
    BY <1>13 DEF ReleaseLock, RowDeleted, NoLock, TypeOK
  <2> QED
    BY <1>13, <2>1, <2>2 DEF TypeOK, Numbered, ReleaseLock
<1>14. ASSUME NEW p \in Procs, Heartbeat(p) PROVE TypeInv'
  BY <1>14 DEF TypeOK, Numbered, Heartbeat
<1>15. CASE Expire
  BY <1>15 DEF TypeOK, Numbered, Expire
<1>16. ASSUME NEW p \in Procs, Cancel(p) PROVE TypeInv'
  BY <1>16 DEF TypeOK, Numbered, Cancel
<1>17. ASSUME NEW p \in Procs, Crash(p) PROVE TypeInv'
  BY <1>17 DEF TypeOK, Numbered, Crash, Goto, Labels, Ended
<1>18. CASE UNCHANGED vars
  BY <1>18 DEF vars, TypeOK, Numbered
<1> QED
  BY <1>1, <1>2, <1>3, <1>4, <1>5, <1>6, <1>7, <1>8, <1>9, <1>10, <1>11, <1>12, <1>13,
     <1>14, <1>15, <1>16, <1>17, <1>18 DEF Next, Step

LEMMA TypeInvariance == Spec => []TypeInv
BY InitTypeInv, StepTypeInv, PTL DEF Spec

\* Every variable keeps its type, for every migration and every fault.
THEOREM TypeCorrect == Spec => []TypeOK
<1>1. TypeInv => TypeOK
  BY DEF TypeInv
<1> QED
  BY <1>1, TypeInvariance, PTL

-----------------------------------------------------------------------------
(* The life of an attempt                                                  *)
(*                                                                         *)
(* The properties of the table are not inductive by themselves: they hold  *)
(* because of what each invocation knows about its own attempt at the      *)
(* statement it is about to send, which is the four conjuncts of Knows.    *)

Own(p, type) == Event(Phase(p).name, attempt[p], type)

Judging == {"exec", "guard", "terminal"}
Reverting == {"rollback", "rolledback"}

\* Whoever executes, judges or reverts an attempt has its PHASE_STARTED on record.
Owned == \A p \in Procs : pc[p] \in HeartbeatOn => Recorded(Own(p, "PHASE_STARTED"))

\* An attempt still to be judged has no terminal event.
Undecided ==
    \A p \in Procs : pc[p] \in Judging => \A t \in TerminalTypes : ~Recorded(Own(p, t))

\* An attempt being rolled back has failed, and is not rolled back yet.
Undoing ==
    \A p \in Procs : pc[p] \in Reverting =>
      /\ Recorded(Own(p, "PHASE_FAILED")) \/ Recorded(Own(p, "PHASE_TIMED_OUT"))
      /\ ~Recorded(Own(p, "PHASE_ROLLED_BACK"))

\* The attempts below the number computed for the next one have all started.
NextNumber ==
    \A p \in Procs : pc[p] = "start" =>
      /\ attempt[p] >= 1
      /\ \A k \in 1 .. (attempt[p] - 1) : Recorded(Event(Phase(p).name, k, "PHASE_STARTED"))

Knows == Owned /\ Undecided /\ Undoing /\ NextNumber

AttemptInv == TypeInv /\ AttemptLifecycle /\ AttemptsDense /\ OneOwnerPerAttempt /\ Knows

LEMMA RecordedAfter ==
    ASSUME TypeOK, NEW e \in Events, Appends(e)
    PROVE  \A x : Recorded(x)' <=> Recorded(x) \/ x = e
BY AppendsRows DEF Recorded

LEMMA RecordedSame ==
    ASSUME UNCHANGED history PROVE \A x : Recorded(x)' <=> Recorded(x)
BY DEF Recorded

LEMMA RecordedRow ==
    ASSUME TypeOK, NEW n \in DOMAIN history
    PROVE  /\ history[n] \in Events
           /\ Recorded(history[n])
           /\ history[n] = Event(history[n].phase, history[n].attempt, history[n].type)
<1>1. history[n] \in Events
  BY DEF TypeOK
<1> QED
  BY <1>1 DEF Events, Event, Recorded

\* A terminal event on record has the PHASE_STARTED of its attempt before it.
LEMMA TerminalStarted ==
    ASSUME TypeOK, AttemptLifecycle, NEW name, NEW k, NEW t \in TerminalTypes,
           Recorded(Event(name, k, t))
    PROVE  Recorded(Event(name, k, "PHASE_STARTED"))
<1> DEFINE Before(n, types) == \E m \in RowsOfAttempt(history[n].phase, history[n].attempt) :
                                 m < n /\ history[m].type \in types
<1>1. ASSUME NEW n \in DOMAIN history, NEW m \in RowsOfAttempt(history[n].phase, history[n].attempt)
      PROVE  /\ m \in DOMAIN history
             /\ history[m] = Event(history[n].phase, history[n].attempt, history[m].type)
  BY <1>1, RecordedRow DEF RowsOfAttempt, RowsOf, Event
<1>2. ASSUME NEW n \in DOMAIN history, Before(n, {"PHASE_STARTED"})
      PROVE  Recorded(Event(history[n].phase, history[n].attempt, "PHASE_STARTED"))
  BY <1>1, <1>2 DEF Recorded
<1>3. PICK n \in DOMAIN history : history[n] = Event(name, k, t)
  BY DEF Recorded
<1>4. history[n].phase = name /\ history[n].attempt = k /\ history[n].type = t
  BY <1>3 DEF Event
<1>5. CASE t = "PHASE_ROLLED_BACK"
  <2>1. Before(n, {"PHASE_FAILED", "PHASE_TIMED_OUT"})
    BY <1>4, <1>5 DEF AttemptLifecycle
  <2>2. PICK m \in RowsOfAttempt(name, k) : history[m].type \in {"PHASE_FAILED", "PHASE_TIMED_OUT"}
    BY <1>4, <2>1
  <2>3. m \in DOMAIN history /\ history[m].phase = name /\ history[m].attempt = k
    BY <2>2 DEF RowsOfAttempt, RowsOf
  <2>4. Before(m, {"PHASE_STARTED"})
    BY <2>2, <2>3 DEF AttemptLifecycle
  <2> QED
    BY <1>2, <2>3, <2>4
<1>6. CASE t # "PHASE_ROLLED_BACK"
  <2>1. t # "PHASE_STARTED"
    BY DEF TerminalTypes
  <2>2. Before(n, {"PHASE_STARTED"})
    BY <1>4, <1>6, <2>1 DEF AttemptLifecycle
  <2> QED
    BY <1>2, <1>4, <2>2
<1> QED
  BY <1>5, <1>6

\* A started attempt has all the lower numbers started.
LEMMA LowerStarted ==
    ASSUME TypeOK, AttemptsDense, NEW name, NEW k \in Nat, NEW j \in 1 .. k,
           Recorded(Event(name, k, "PHASE_STARTED"))
    PROVE  Recorded(Event(name, j, "PHASE_STARTED"))
<1>1. CASE j = k
  BY <1>1
<1>2. CASE j # k
  <2>1. PICK n \in DOMAIN history : history[n] = Event(name, k, "PHASE_STARTED")
    BY DEF Recorded
  <2>2. j \in 1 .. (history[n].attempt - 1) /\ history[n].type = "PHASE_STARTED" /\ history[n].phase = name
    BY <1>2, <2>1 DEF Event
  <2>3. PICK m \in RowsOf(name) : history[m].type = "PHASE_STARTED" /\ history[m].attempt = j
    BY <2>2 DEF AttemptsDense
  <2>4. m \in DOMAIN history /\ history[m] = Event(name, j, "PHASE_STARTED")
    BY <2>3, RecordedRow DEF RowsOf
  <2> QED
    BY <2>4 DEF Recorded
<1> QED
  BY <1>1, <1>2

\* What a new row must satisfy for the table to stay as promised.
Fits(e) ==
    CASE e.type = "PHASE_STARTED" ->
           \A t \in EventTypes : ~Recorded(Event(e.phase, e.attempt, t))
      [] e.type = "PHASE_ROLLED_BACK" ->
           /\ \E t \in {"PHASE_FAILED", "PHASE_TIMED_OUT"} : Recorded(Event(e.phase, e.attempt, t))
           /\ ~Recorded(Event(e.phase, e.attempt, "PHASE_ROLLED_BACK"))
      [] OTHER ->
           /\ Recorded(Event(e.phase, e.attempt, "PHASE_STARTED"))
           /\ \A t \in TerminalTypes : ~Recorded(Event(e.phase, e.attempt, t))

Follows(e) ==
    e.type = "PHASE_STARTED" =>
      /\ e.attempt >= 1
      /\ \A k \in 1 .. (e.attempt - 1) : Recorded(Event(e.phase, k, "PHASE_STARTED"))

LEMMA AppendsNew ==
    ASSUME TypeOK, NEW e \in Events, Appends(e)
    PROVE  \E L \in Nat :
             /\ DOMAIN history' = DOMAIN history \cup {L} /\ L \notin DOMAIN history
             /\ \A n \in DOMAIN history : n \in Nat /\ n < L /\ history'[n] = history[n]
             /\ history'[L] = e
<1>1. Len(history) + 1 \in Nat /\ \A n \in DOMAIN history : n \in Nat
  BY DEF TypeOK
<1> QED
  BY <1>1, AppendsRows

\* A row of a newer attempt than any makes its own the newest of the phase.
LEMMA MaxAfter ==
    ASSUME TypeInv, NEW e \in Events, Appends(e), NEW name
    PROVE  MaxAttemptNumber(name)' =
             IF name = e.phase /\ e.attempt >= MaxAttemptNumber(name)
               THEN e.attempt ELSE MaxAttemptNumber(name)
<1>1. PICK L \in Nat :
        /\ DOMAIN history' = DOMAIN history \cup {L} /\ L \notin DOMAIN history
        /\ \A n \in DOMAIN history : n \in Nat /\ n < L /\ history'[n] = history[n]
        /\ history'[L] = e
  BY AppendsNew DEF TypeInv
<1>2. CASE name # e.phase
  <2>1. RowsOf(name)' = RowsOf(name)
    BY <1>1, <1>2 DEF RowsOf
  <2>2. {history'[n].attempt : n \in RowsOf(name)} = {history[n].attempt : n \in RowsOf(name)}
    BY <1>1 DEF RowsOf
  <2> QED
    BY <1>2, <2>1, <2>2 DEF MaxAttemptNumber
<1>3. CASE name = e.phase
  <2> DEFINE S == {history'[n].attempt : n \in RowsOf(name) \cup {L}}
  <2>1. RowsOf(name)' = RowsOf(name) \cup {L}
    BY <1>1, <1>3 DEF RowsOf
  <2>2. \A n \in RowsOf(name) : /\ history'[n].attempt = history[n].attempt
                                /\ history[n].attempt \in Nat
                                /\ history[n].attempt <= MaxAttemptNumber(name)
    <3>1. \A n \in RowsOf(name) : history'[n] = history[n] /\ history[n] \in Events
      BY <1>1 DEF RowsOf, TypeInv, TypeOK
    <3>2. \A n \in RowsOf(name) : history[n].attempt <= MaxAttemptNumber(name)
      BY MaxAttempt
    <3> QED
      BY <3>1, <3>2 DEF Events
  <2>3. e.attempt \in Nat /\ MaxAttemptNumber(name) \in Nat
    BY MaxAttempt DEF Events, TypeInv, TypeOK
  <2>4. /\ e.attempt \in S /\ S \in SUBSET Nat
        /\ \A x \in S : x = e.attempt \/ x <= MaxAttemptNumber(name)
        /\ RowsOf(name) # {} => MaxAttemptNumber(name) \in S
    BY <1>1, <1>3, <2>2, <2>3, MaxAttempt
  <2>5. PICK b \in Nat : b >= e.attempt /\ b >= MaxAttemptNumber(name)
    BY <2>3
  <2>6. Max(S) \in S /\ \A x \in S : x <= Max(S)
    <3>1. \A x \in S : x <= b
      BY <2>3, <2>4, <2>5
    <3> QED
      BY <2>4, <3>1, MaxOfBounded
  <2>7. RowsOf(name) = {} => MaxAttemptNumber(name) = 0
    BY MaxAttempt
  <2>8. MaxAttemptNumber(name)' = Max(S)
    BY <2>1 DEF MaxAttemptNumber
  <2> HIDE DEF S
  <2>9. CASE e.attempt >= MaxAttemptNumber(name)
    <3>1. Max(S) = e.attempt
      <4>1. e.attempt <= Max(S) /\ Max(S) \in Nat
        BY <2>4, <2>6
      <4>2. Max(S) = e.attempt \/ Max(S) <= MaxAttemptNumber(name)
        BY <2>4, <2>6
      <4> QED
        BY <2>3, <2>9, <4>1, <4>2
    <3> QED
      BY <1>3, <2>8, <2>9, <3>1
  <2>10. CASE ~(e.attempt >= MaxAttemptNumber(name))
    <3>1. MaxAttemptNumber(name) # 0
      BY <2>3, <2>10
    <3>2. MaxAttemptNumber(name) \in S
      BY <2>4, <2>7, <3>1
    <3>3. Max(S) = MaxAttemptNumber(name)
      <4>1. MaxAttemptNumber(name) <= Max(S) /\ Max(S) \in Nat
        BY <2>4, <2>6, <3>2
      <4>2. Max(S) = e.attempt \/ Max(S) <= MaxAttemptNumber(name)
        BY <2>4, <2>6
      <4> QED
        BY <2>3, <2>10, <4>1, <4>2
    <3> QED
      BY <1>3, <2>8, <2>10, <3>3
  <2> QED
    BY <2>9, <2>10
<1> QED
  BY <1>2, <1>3

LEMMA LifecycleExtends ==
    ASSUME TypeOK, AttemptLifecycle, NEW e \in Events, Appends(e), Fits(e)
    PROVE  AttemptLifecycle'
<1>1. PICK L :
        /\ L \in Nat /\ DOMAIN history' = DOMAIN history \cup {L} /\ L \notin DOMAIN history
        /\ \A n \in DOMAIN history : n \in Nat /\ n < L /\ history'[n] = history[n]
        /\ history'[L] = e
  BY AppendsNew
<1> DEFINE Before(n, types) == \E m \in RowsOfAttempt(history[n].phase, history[n].attempt) :
                                 m < n /\ history[m].type \in types
           Good(n) == CASE history[n].type = "PHASE_STARTED" -> ~Before(n, EventTypes)
                        [] history[n].type = "PHASE_ROLLED_BACK" ->
                             /\ Before(n, {"PHASE_FAILED", "PHASE_TIMED_OUT"})
                             /\ ~Before(n, {"PHASE_ROLLED_BACK"})
                        [] OTHER -> Before(n, {"PHASE_STARTED"}) /\ ~Before(n, TerminalTypes)
<1>2. ASSUME NEW n \in DOMAIN history, NEW types PROVE Before(n, types)' <=> Before(n, types)
  <2>1. history'[n] = history[n]
    BY <1>1
  <2>2. ASSUME NEW m, m < n
        PROVE  m \in RowsOfAttempt(history[n].phase, history[n].attempt)'
                 <=> m \in RowsOfAttempt(history[n].phase, history[n].attempt)
    BY <1>1, <2>2 DEF RowsOfAttempt, RowsOf
  <2>3. ASSUME NEW m \in RowsOfAttempt(history[n].phase, history[n].attempt)
        PROVE  history'[m] = history[m]
    BY <1>1 DEF RowsOfAttempt, RowsOf
  <2> QED
    BY <2>1, <2>2, <2>3
<1>3. ASSUME NEW types \in SUBSET EventTypes
      PROVE  Before(L, types)' <=> \E t \in types : Recorded(Event(e.phase, e.attempt, t))
  <2>1. ASSUME NEW m PROVE m \in RowsOfAttempt(history[L].phase, history[L].attempt)' /\ m < L
                             <=> m \in RowsOfAttempt(e.phase, e.attempt)
    BY <1>1 DEF RowsOfAttempt, RowsOf
  <2>2. Before(L, types)' <=> \E m \in RowsOfAttempt(e.phase, e.attempt) : history[m].type \in types
    BY <1>1, <2>1 DEF RowsOfAttempt, RowsOf
  <2>3. ASSUME NEW m \in RowsOfAttempt(e.phase, e.attempt), history[m].type \in types
        PROVE  \E t \in types : Recorded(Event(e.phase, e.attempt, t))
    <3>1. m \in DOMAIN history /\ history[m] = Event(e.phase, e.attempt, history[m].type)
      BY RecordedRow DEF RowsOfAttempt, RowsOf
    <3> QED
      BY <2>3, <3>1 DEF Recorded
  <2>4. ASSUME NEW t \in types, Recorded(Event(e.phase, e.attempt, t))
        PROVE  \E m \in RowsOfAttempt(e.phase, e.attempt) : history[m].type \in types
    BY <2>4 DEF Recorded, Event, RowsOfAttempt, RowsOf
  <2> QED
    BY <2>2, <2>3, <2>4
<1>4. ASSUME NEW n \in DOMAIN history PROVE Good(n)'
  <2>1. Good(n)
    BY DEF AttemptLifecycle
  <2>2. history'[n] = history[n]
    BY <1>1
  <2> HIDE DEF Before
  <2> QED
    BY <1>2, <2>1, <2>2
<1>5. Good(L)'
  <2>1. history'[L].type = e.type
    BY <1>1
  <2>2. /\ EventTypes \in SUBSET EventTypes /\ TerminalTypes \in SUBSET EventTypes
        /\ {"PHASE_FAILED", "PHASE_TIMED_OUT"} \in SUBSET EventTypes
        /\ {"PHASE_ROLLED_BACK"} \in SUBSET EventTypes /\ {"PHASE_STARTED"} \in SUBSET EventTypes
    BY DEF EventTypes, TerminalTypes
  <2> HIDE DEF Before
  <2> QED
    BY <1>3, <2>1, <2>2 DEF Fits
<1> QED
  BY <1>1, <1>4, <1>5 DEF AttemptLifecycle

LEMMA DenseExtends ==
    ASSUME TypeOK, AttemptsDense, NEW e \in Events, Appends(e), Follows(e)
    PROVE  AttemptsDense'
<1>1. PICK L :
        /\ L \in Nat /\ DOMAIN history' = DOMAIN history \cup {L} /\ L \notin DOMAIN history
        /\ \A n \in DOMAIN history : n \in Nat /\ n < L /\ history'[n] = history[n]
        /\ history'[L] = e
  BY AppendsNew
<1> DEFINE Earlier(n) == {m \in RowsOf(history[n].phase) : m < n /\ history[m].type = "PHASE_STARTED"}
           Good(n) == history[n].type = "PHASE_STARTED" =>
                        /\ \A m \in Earlier(n) : history[m].attempt < history[n].attempt
                        /\ \A k \in 1 .. (history[n].attempt - 1) :
                             \E m \in Earlier(n) : history[m].attempt = k
<1>2. ASSUME NEW n \in DOMAIN history PROVE Good(n)'
  <2>1. Good(n) /\ history'[n] = history[n]
    BY <1>1 DEF AttemptsDense
  <2>2. Earlier(n)' = Earlier(n)
    BY <1>1 DEF RowsOf
  <2>3. \A m \in Earlier(n) : history'[m] = history[m]
    BY <1>1 DEF RowsOf
  <2> HIDE DEF Earlier
  <2> QED
    BY <2>1, <2>2, <2>3
<1>3. ASSUME e.type = "PHASE_STARTED" PROVE Good(L)'
  <2>1. /\ history'[L] = e /\ e.attempt \in Nat
        /\ Earlier(L)' = {m \in RowsOf(e.phase) : history[m].type = "PHASE_STARTED"}
    BY <1>1 DEF RowsOf, Events
  <2>2. ASSUME NEW m \in Earlier(L)' PROVE history'[m].attempt < e.attempt
    <3>1. /\ m \in DOMAIN history /\ history'[m] = history[m] /\ history[m].attempt \in Nat
          /\ history[m] = Event(e.phase, history[m].attempt, "PHASE_STARTED")
      BY <1>1, <2>1, RecordedRow DEF RowsOf, Events
    <3>2. Recorded(Event(e.phase, history[m].attempt, "PHASE_STARTED"))
      BY <3>1, RecordedRow
    <3>3. ~Recorded(Event(e.phase, e.attempt, "PHASE_STARTED"))
      BY <1>3 DEF Appends, Event, Events
    <3>4. e.attempt >= 1
      BY <1>3 DEF Follows
    <3> QED
      BY <2>1, <3>1, <3>2, <3>3, <3>4, LowerStarted
  <2>3. ASSUME NEW k \in 1 .. (e.attempt - 1) PROVE \E m \in Earlier(L)' : history'[m].attempt = k
    <3>1. PICK m \in DOMAIN history : history[m] = Event(e.phase, k, "PHASE_STARTED")
      BY <1>3, <2>3 DEF Follows, Recorded
    <3> QED
      BY <1>1, <2>1, <3>1 DEF Event, RowsOf
  <2> HIDE DEF Earlier
  <2> QED
    BY <2>1, <2>2, <2>3
<1>4. CASE e.type # "PHASE_STARTED"
  BY <1>1, <1>2, <1>4 DEF AttemptsDense
<1>5. CASE e.type = "PHASE_STARTED"
  BY <1>1, <1>2, <1>3, <1>5 DEF AttemptsDense
<1> QED
  BY <1>4, <1>5

\* The stages of an attempt that Knows and OneOwnerPerAttempt speak about.
Stages == {HeartbeatOn, Judging, Reverting, {"start"}}

\* An invocation that stays within its stages, or leaves them all.
Stays(q) ==
    \/ /\ idx'[q] = idx[q] /\ attempt'[q] = attempt[q]
       /\ \A stage \in Stages : pc'[q] \in stage => pc[q] \in stage
    \/ \A stage \in Stages : pc'[q] \notin stage

\* A step that writes no event and takes no invocation into a new stage.
LEMMA QuietStep ==
    ASSUME AttemptInv, TypeInv', UNCHANGED history, \A q \in Procs : Stays(q)
    PROVE  AttemptInv'
<1>1. AttemptLifecycle'
  BY DEF AttemptInv, AttemptLifecycle, RowsOfAttempt, RowsOf
<1>2. AttemptsDense'
  BY DEF AttemptInv, AttemptsDense, RowsOf
<1>3. \A x : Recorded(x)' <=> Recorded(x)
  BY RecordedSame
<1>4. ASSUME NEW q \in Procs, NEW stage \in Stages, pc'[q] \in stage
      PROVE  /\ pc[q] \in stage /\ Phase(q)' = Phase(q) /\ attempt'[q] = attempt[q]
             /\ \A t : Own(q, t)' = Own(q, t)
  <2>1. idx'[q] = idx[q] /\ attempt'[q] = attempt[q] /\ pc[q] \in stage
    BY <1>4 DEF Stays
  <2> QED
    BY <2>1 DEF Phase, Own, Event
<1>5. /\ HeartbeatOn \in Stages /\ Judging \in Stages /\ Reverting \in Stages
      /\ {"start"} \in Stages
  BY DEF Stages
<1>6. OneOwnerPerAttempt'
  BY <1>4, <1>5 DEF AttemptInv, OneOwnerPerAttempt
<1>7. Owned'
  BY <1>3, <1>4, <1>5 DEF AttemptInv, Knows, Owned
<1>8. Undecided'
  BY <1>3, <1>4, <1>5 DEF AttemptInv, Knows, Undecided
<1>9. Undoing'
  BY <1>3, <1>4, <1>5 DEF AttemptInv, Knows, Undoing
<1>10. NextNumber'
  BY <1>3, <1>4, <1>5 DEF AttemptInv, Knows, NextNumber
<1> QED
  BY <1>1, <1>2, <1>6, <1>7, <1>8, <1>9, <1>10 DEF AttemptInv, Knows

\* One invocation moves to a label and touches nothing of the others.
LEMMA OthersStay ==
    ASSUME TypeInv, NEW p \in Procs, NEW label, Goto(p, label), UNCHANGED <<idx, attempt>>,
           \A stage \in Stages : label \in stage => pc[p] \in stage
    PROVE  \A q \in Procs : Stays(q)
BY DEF TypeInv, TypeOK, Goto, Stays

LEMMA NextPhaseStays ==
    ASSUME TypeInv, NEW p \in Procs, NextPhase(p), UNCHANGED attempt
    PROVE  \A q \in Procs : Stays(q)
<1>1. \A stage \in Stages : "latest" \notin stage /\ "done" \notin stage
  BY DEF Stages, HeartbeatOn, Judging, Reverting
<1>2. pc'[p] \in {"latest", "done"}
  BY DEF NextPhase, Goto, TypeInv, TypeOK
<1>3. ASSUME NEW q \in Procs, q # p PROVE Stays(q)
  BY <1>3 DEF NextPhase, Goto, TypeInv, TypeOK, Stays
<1> QED
  BY <1>1, <1>2, <1>3 DEF Stays

\* The number read for the next attempt: all the numbers up to it have started.
LEMMA MaxStarted ==
    ASSUME AttemptInv, NEW name
    PROVE  \A k \in 1 .. MaxAttemptNumber(name) : Recorded(Event(name, k, "PHASE_STARTED"))
<1> USE DEF AttemptInv
<1>1. CASE RowsOf(name) = {}
  BY <1>1, MaxAttempt
<1>2. CASE RowsOf(name) # {}
  <2>1. PICK n \in RowsOf(name) : history[n].attempt = MaxAttemptNumber(name)
    BY <1>2, MaxAttempt
  <2>2. /\ history[n] \in Events
        /\ Recorded(Event(name, MaxAttemptNumber(name), history[n].type))
        /\ history[n].type \in EventTypes
    BY <2>1, RecordedRow DEF RowsOf, TypeInv, Events
  <2>3. Recorded(Event(name, MaxAttemptNumber(name), "PHASE_STARTED"))
    BY <2>2, TerminalStarted DEF EventTypes, TypeInv
  <2>4. MaxAttemptNumber(name) \in Nat
    BY MaxAttempt DEF TypeInv, TypeOK
  <2> QED
    BY <2>3, <2>4, LowerStarted DEF TypeInv
<1> QED
  BY <1>1, <1>2

\* The INSERT of one's own event, when it takes effect: what remains to be shown
\* of each statement is that its event fits, that only its owner knows of it,
\* and what the owner knows afterwards.
LEMMA OwnInsert ==
    ASSUME AttemptInv, TypeInv', NEW p \in Procs, NEW type \in EventTypes, NEW label,
           Appends(Own(p, type)), Goto(p, label), UNCHANGED <<idx, attempt>>,
           Fits(Own(p, type)), Follows(Own(p, type)),
           \A q \in Procs : q # p /\ pc[q] \in HeartbeatOn
             => <<Phase(p).name, attempt[p]>> # <<Phase(q).name, attempt[q]>>,
           label \in HeartbeatOn => Recorded(Own(p, "PHASE_STARTED")) \/ type = "PHASE_STARTED",
           label \in Judging => type \notin TerminalTypes
                                /\ \A t \in TerminalTypes : ~Recorded(Own(p, t)),
           label \in Reverting =>
             /\ type \in {"PHASE_FAILED", "PHASE_TIMED_OUT"}
             /\ ~Recorded(Own(p, "PHASE_ROLLED_BACK")),
           label # "start"
    PROVE  AttemptInv'
<1> DEFINE e == Own(p, type)
<1> USE DEF AttemptInv
<1>1. e \in Events
  BY EventType DEF Own, TypeInv
<1>2. AttemptLifecycle' /\ AttemptsDense'
  BY <1>1, LifecycleExtends, DenseExtends DEF TypeInv
<1>3. \A x : Recorded(x)' <=> Recorded(x) \/ x = e
  BY <1>1, RecordedAfter DEF TypeInv
<1>4. \A q \in Procs : \A t : Own(q, t)' = Own(q, t) /\ Phase(q)' = Phase(q) /\ attempt'[q] = attempt[q]
  BY DEF Own, Phase, Event
<1>5. \A q \in Procs : pc'[q] = IF q = p THEN label ELSE pc[q]
  BY DEF TypeInv, TypeOK, Goto
<1>6. /\ Judging \subseteq HeartbeatOn /\ Reverting \subseteq HeartbeatOn
      /\ "PHASE_ROLLED_BACK" \in TerminalTypes
  BY DEF Judging, Reverting, HeartbeatOn, TerminalTypes
<1>7. ASSUME NEW q \in Procs, q # p, pc[q] \in HeartbeatOn
      PROVE  \A t : Own(q, t) # e
  BY <1>7 DEF Own, Event
<1>8. \A t : Own(p, t) = e => t = type
  BY DEF Own, Event
<1> HIDE DEF e
<1>9. OneOwnerPerAttempt'
  BY <1>4, <1>5 DEF OneOwnerPerAttempt
<1>10. Owned'
  BY <1>3, <1>4, <1>5, <1>8 DEF Knows, Owned, e
<1>11. Undecided'
  BY <1>3, <1>4, <1>5, <1>6, <1>7, <1>8 DEF Knows, Undecided
<1>12. Undoing'
  <2>1. ASSUME NEW q \in Procs, q # p, pc'[q] \in Reverting
        PROVE  /\ Recorded(Own(q, "PHASE_FAILED"))' \/ Recorded(Own(q, "PHASE_TIMED_OUT"))'
               /\ ~Recorded(Own(q, "PHASE_ROLLED_BACK"))'
    BY <1>3, <1>4, <1>5, <1>6, <1>7, <2>1 DEF Knows, Undoing
  <2>2. ASSUME pc'[p] \in Reverting
        PROVE  /\ Recorded(Own(p, "PHASE_FAILED"))' \/ Recorded(Own(p, "PHASE_TIMED_OUT"))'
               /\ ~Recorded(Own(p, "PHASE_ROLLED_BACK"))'
    BY <1>3, <1>4, <1>5, <1>8, <2>2 DEF e
  <2> QED
    BY <2>1, <2>2 DEF Undoing
<1>13. NextNumber'
  BY <1>3, <1>4, <1>5 DEF Knows, NextNumber
<1> QED
  BY <1>2, <1>9, <1>10, <1>11, <1>12, <1>13 DEF Knows

LEMMA StartedStep ==
    ASSUME AttemptInv, TypeInv', NEW p \in Procs, InsertStarted(p) PROVE AttemptInv'
<1> DEFINE e == Own(p, "PHASE_STARTED")
<1> USE DEF AttemptInv
<1>1. \/ Appends(e) /\ (Goto(p, "exec") \/ Goto(p, "abort"))
      \/ history' = history /\ Goto(p, "abort")
  BY InsertEventCases DEF InsertStarted, Own
<1>2. pc[p] = "start" /\ UNCHANGED <<idx, attempt>>
  BY DEF InsertStarted
<1>3. CASE history' = history /\ Goto(p, "abort")
  <2>1. \A stage \in Stages : "abort" \notin stage
    BY DEF Stages, HeartbeatOn, Judging, Reverting
  <2> QED
    BY <1>2, <1>3, <2>1, OthersStay, QuietStep
<1>4. CASE Appends(e) /\ (Goto(p, "exec") \/ Goto(p, "abort"))
  <2>1. e.phase = Phase(p).name /\ e.attempt = attempt[p] /\ e.type = "PHASE_STARTED"
    BY DEF Own, Event
  <2>2. ASSUME NEW t \in EventTypes PROVE ~Recorded(Own(p, t))
    <3>1. ~Recorded(Own(p, "PHASE_STARTED"))
      BY <1>4 DEF Appends
    <3>2. CASE t \in TerminalTypes
      BY <3>1, <3>2, TerminalStarted DEF Own, TypeInv
    <3> QED
      BY <3>1, <3>2 DEF EventTypes
  <2>3. Fits(e) /\ Follows(e)
    BY <1>2, <2>1, <2>2 DEF Fits, Follows, Own, Knows, NextNumber
  <2>4. ASSUME NEW q \in Procs, pc[q] \in HeartbeatOn
        PROVE  <<Phase(p).name, attempt[p]>> # <<Phase(q).name, attempt[q]>>
    <3>1. Recorded(Own(q, "PHASE_STARTED")) /\ ~Recorded(Own(p, "PHASE_STARTED"))
      BY <1>4, <2>4 DEF Knows, Owned, Appends
    <3> QED
      BY <3>1 DEF Own, Event
  <2>5. /\ "exec" \in Judging /\ "exec" \notin Reverting /\ "PHASE_STARTED" \notin TerminalTypes
        /\ "abort" \notin HeartbeatOn /\ "abort" \notin Judging /\ "abort" \notin Reverting
        /\ "PHASE_STARTED" \in EventTypes /\ TerminalTypes \subseteq EventTypes
    BY DEF HeartbeatOn, Judging, Reverting, TerminalTypes, EventTypes
  <2> HIDE DEF AttemptInv, e
  <2>6. CASE Goto(p, "exec")
    BY <1>2, <1>4, <2>2, <2>3, <2>4, <2>5, <2>6, OwnInsert DEF e
  <2>7. CASE Goto(p, "abort")
    BY <1>2, <1>4, <2>2, <2>3, <2>4, <2>5, <2>7, OwnInsert DEF e
  <2> QED
    BY <1>4, <2>6, <2>7
<1> QED
  BY <1>1, <1>3, <1>4

LEMMA TerminalStep ==
    ASSUME AttemptInv, TypeInv', NEW p \in Procs, InsertTerminal(p) PROVE AttemptInv'
<1> DEFINE v == Verdict(outcome[p])
           e == Own(p, v)
           okay == IF outcome[p] = "nil" THEN "release"
                     ELSE IF Phase(p).onFailure = "rollback" THEN "rollback" ELSE "failed"
<1> USE DEF AttemptInv
<1>1. \/ Appends(e) /\ (Goto(p, okay) \/ Goto(p, "failed"))
      \/ history' = history /\ Goto(p, "failed")
  BY InsertEventCases DEF InsertTerminal, Own
<1>2. /\ pc[p] = "terminal" /\ UNCHANGED <<idx, attempt>>
      /\ pc[p] \in HeartbeatOn /\ pc[p] \in Judging
  BY DEF InsertTerminal, HeartbeatOn, Judging
<1>3. /\ v \in {"PHASE_COMPLETED", "PHASE_FAILED", "PHASE_TIMED_OUT"}
      /\ outcome[p] # "nil" => v \in {"PHASE_FAILED", "PHASE_TIMED_OUT"}
  BY DEF TypeInv, TypeOK, Verdict
<1>4. CASE history' = history /\ Goto(p, "failed")
  <2>1. \A stage \in Stages : "failed" \notin stage
    BY DEF Stages, HeartbeatOn, Judging, Reverting
  <2> QED
    BY <1>2, <1>4, <2>1, OthersStay, QuietStep
<1>5. CASE Appends(e) /\ (Goto(p, okay) \/ Goto(p, "failed"))
  <2>1. e.phase = Phase(p).name /\ e.attempt = attempt[p] /\ e.type = v
    BY DEF Own, Event
  <2>2. Recorded(Own(p, "PHASE_STARTED")) /\ \A t \in TerminalTypes : ~Recorded(Own(p, t))
    BY <1>2 DEF Knows, Owned, Undecided
  <2>3. Fits(e) /\ Follows(e)
    BY <1>3, <2>1, <2>2 DEF Fits, Follows, Own
  <2>4. ASSUME NEW q \in Procs, q # p, pc[q] \in HeartbeatOn
        PROVE  <<Phase(p).name, attempt[p]>> # <<Phase(q).name, attempt[q]>>
    BY <1>2, <2>4 DEF OneOwnerPerAttempt
  <2>5. /\ v \in EventTypes /\ "PHASE_ROLLED_BACK" \in TerminalTypes
        /\ "release" \notin Judging \cup Reverting /\ "rollback" \notin Judging
        /\ "failed" \notin Judging \cup Reverting
    BY <1>3 DEF Judging, Reverting, TerminalTypes, EventTypes
  <2> HIDE DEF AttemptInv, v, e
  <2>6. CASE Goto(p, okay)
    <3>1. okay \in Reverting => outcome[p] # "nil"
      BY <2>5
    <3>2. okay \notin Judging /\ okay # "start"
      BY <2>5
    <3> QED
      BY <1>2, <1>3, <1>5, <2>2, <2>3, <2>4, <2>5, <2>6, <3>1, <3>2, OwnInsert DEF e
  <2>7. CASE Goto(p, "failed")
    BY <1>2, <1>5, <2>2, <2>3, <2>4, <2>5, <2>7, OwnInsert DEF e
  <2> QED
    BY <1>5, <2>6, <2>7
<1> QED
  BY <1>1, <1>4, <1>5

LEMMA RolledBackStep ==
    ASSUME AttemptInv, TypeInv', NEW p \in Procs, InsertRolledBack(p) PROVE AttemptInv'
<1> DEFINE e == Own(p, "PHASE_ROLLED_BACK")
<1> USE DEF AttemptInv
<1>1. (Appends(e) \/ history' = history) /\ Goto(p, "failed")
  BY InsertEventCases DEF InsertRolledBack, Own
<1>2. /\ pc[p] = "rolledback" /\ UNCHANGED <<idx, attempt>>
      /\ pc[p] \in HeartbeatOn /\ pc[p] \in Reverting
  BY DEF InsertRolledBack, HeartbeatOn, Reverting
<1>3. \A stage \in Stages : "failed" \notin stage
  BY DEF Stages, HeartbeatOn, Judging, Reverting
<1>4. CASE history' = history
  BY <1>1, <1>2, <1>3, <1>4, OthersStay, QuietStep
<1>5. CASE Appends(e)
  <2>1. e.phase = Phase(p).name /\ e.attempt = attempt[p] /\ e.type = "PHASE_ROLLED_BACK"
    BY DEF Own, Event
  <2>2. /\ Recorded(Own(p, "PHASE_FAILED")) \/ Recorded(Own(p, "PHASE_TIMED_OUT"))
        /\ ~Recorded(Own(p, "PHASE_ROLLED_BACK"))
    BY <1>2 DEF Knows, Undoing
  <2>3. Fits(e) /\ Follows(e)
    BY <2>1, <2>2 DEF Fits, Follows, Own
  <2>4. ASSUME NEW q \in Procs, q # p, pc[q] \in HeartbeatOn
        PROVE  <<Phase(p).name, attempt[p]>> # <<Phase(q).name, attempt[q]>>
    BY <1>2, <2>4 DEF OneOwnerPerAttempt
  <2>5. /\ "failed" \notin HeartbeatOn /\ "failed" \notin Judging /\ "failed" \notin Reverting
        /\ "PHASE_ROLLED_BACK" \in EventTypes
    BY DEF HeartbeatOn, Judging, Reverting, EventTypes, TerminalTypes
  <2> HIDE DEF AttemptInv, e
  <2> QED
    BY <1>1, <1>2, <1>5, <2>3, <2>4, <2>5, OwnInsert DEF e
<1> QED
  BY <1>1, <1>4, <1>5

LEMMA MaxAttemptStep ==
    ASSUME AttemptInv, TypeInv', NEW p \in Procs, ReadMaxAttempt(p) PROVE AttemptInv'
<1> DEFINE name == Phase(p).name
<1> USE DEF AttemptInv
<1>1. /\ pc' = [pc EXCEPT ![p] = pc'[p]] /\ pc'[p] \in {"start", "abort"}
      /\ attempt' = [attempt EXCEPT ![p] = MaxAttemptNumber(name) + 1]
      /\ UNCHANGED <<history, idx>>
  BY DEF ReadMaxAttempt, Goto, TypeInv, TypeOK
<1>2. \A x : Recorded(x)' <=> Recorded(x)
  BY <1>1, RecordedSame
<1>3. ASSUME NEW q \in Procs, q # p
      PROVE  /\ pc'[q] = pc[q] /\ attempt'[q] = attempt[q] /\ Phase(q)' = Phase(q)
             /\ \A t : Own(q, t)' = Own(q, t)
  <2>1. pc'[q] = pc[q] /\ attempt'[q] = attempt[q] /\ idx'[q] = idx[q]
    BY <1>1, <1>3 DEF TypeInv, TypeOK
  <2> QED
    BY <2>1 DEF Own, Phase, Event
<1>4. pc'[p] \notin HeartbeatOn /\ pc'[p] \notin Judging /\ pc'[p] \notin Reverting
  BY <1>1 DEF HeartbeatOn, Judging, Reverting
<1>5. AttemptLifecycle' /\ AttemptsDense'
  BY <1>1 DEF AttemptLifecycle, AttemptsDense, RowsOfAttempt, RowsOf
<1>6. OneOwnerPerAttempt'
  BY <1>3, <1>4 DEF OneOwnerPerAttempt
<1>7. Owned' /\ Undecided' /\ Undoing'
  BY <1>2, <1>3, <1>4 DEF Knows, Owned, Undecided, Undoing
<1>8. NextNumber'
  <2>1. ASSUME NEW q \in Procs, q # p, pc'[q] = "start"
        PROVE  /\ attempt'[q] >= 1
               /\ \A k \in 1 .. (attempt'[q] - 1) : Recorded(Event(Phase(q).name, k, "PHASE_STARTED"))'
    BY <1>2, <1>3, <2>1 DEF Knows, NextNumber, Event
  <2>2. /\ attempt'[p] >= 1
        /\ \A k \in 1 .. (attempt'[p] - 1) : Recorded(Event(Phase(p).name, k, "PHASE_STARTED"))'
    <3>1. MaxAttemptNumber(name) \in Nat /\ attempt'[p] = MaxAttemptNumber(name) + 1
      BY <1>1, MaxAttempt DEF TypeInv, TypeOK
    <3>2. Phase(p)' = Phase(p)
      BY <1>1 DEF Phase
    <3> QED
      BY <1>2, <3>1, <3>2, MaxStarted DEF Event
  <2> QED
    BY <2>1, <2>2 DEF NextNumber
<1> QED
  BY <1>5, <1>6, <1>7, <1>8 DEF Knows

LEMMA InitAttemptInv == Init => AttemptInv
<1> SUFFICES ASSUME Init PROVE AttemptInv
  OBVIOUS
<1>1. history = << >> /\ \A p \in Procs : pc[p] = "idle"
  BY DEF Init
<1>2. "idle" \notin HeartbeatOn \cup Judging \cup Reverting
  BY DEF HeartbeatOn, Judging, Reverting
<1>3. DOMAIN history = {}
  BY <1>1
<1>4. AttemptLifecycle /\ AttemptsDense
  BY <1>3 DEF AttemptLifecycle, AttemptsDense
<1>5. OneOwnerPerAttempt /\ Knows
  BY <1>1, <1>2 DEF OneOwnerPerAttempt, Knows, Owned, Undecided, Undoing, NextNumber
<1> QED
  BY <1>4, <1>5, InitTypeInv DEF AttemptInv

\* The statements that concern an attempt.
AttemptStep(p) == ReadMaxAttempt(p) \/ InsertStarted(p) \/ InsertTerminal(p) \/ InsertRolledBack(p)

LEMMA OtherStep ==
    ASSUME TypeInv, [Next]_vars, \A p \in Procs : ~AttemptStep(p)
    PROVE  UNCHANGED history /\ \A q \in Procs : Stays(q)
<1> DEFINE Quiet == UNCHANGED history /\ \A q \in Procs : Stays(q)
<1>a. \A stage \in Stages :
        /\ \A label \in {"latest", "getlock", "acquire", "steal", "maxattempt", "failed", "dead"} :
             label \notin stage
        /\ "guard" \in stage => "exec" \in stage
        /\ "terminal" \in stage => "guard" \in stage
        /\ "rolledback" \in stage => "rollback" \in stage
  BY DEF Stages, HeartbeatOn, Judging, Reverting
<1>b. ASSUME NEW p \in Procs, NEW label, Goto(p, label), UNCHANGED <<history, idx, attempt>>,
             \A stage \in Stages : label \in stage => pc[p] \in stage
      PROVE  Quiet
  BY <1>b, OthersStay
<1>c. ASSUME UNCHANGED <<history, pc, idx, attempt>> PROVE Quiet
  BY <1>c DEF Stays
<1>d. ASSUME NEW p \in Procs, NextPhase(p), UNCHANGED <<history, attempt>> PROVE Quiet
  BY <1>d, NextPhaseStays
<1>1. ASSUME NEW p \in Procs, Start(p) \/ ReadLatest(p) \/ AcquireInsert(p) \/ AcquireSteal(p)
      PROVE  Quiet
  <2>1. /\ UNCHANGED <<history, idx, attempt>>
        /\ \E label \in {"latest", "getlock", "steal", "maxattempt", "failed"} : Goto(p, label)
    BY <1>1 DEF Start, ReadLatest, AcquireInsert, AcquireSteal
  <2> QED
    BY <1>a, <1>b, <2>1
<1>2. ASSUME NEW p \in Procs, ReadLock(p) PROVE Quiet
  <2>1. /\ UNCHANGED <<history, attempt>>
        /\ \/ NextPhase(p)
           \/ UNCHANGED idx /\ \E label \in {"acquire", "failed"} : Goto(p, label)
    BY <1>2 DEF ReadLock
  <2> QED
    BY <1>a, <1>b, <1>d, <2>1
<1>3. ASSUME NEW p \in Procs, Execute(p) PROVE Quiet
  BY <1>3, <1>a, <1>b DEF Execute
<1>4. ASSUME NEW p \in Procs, TerminalGuard(p) PROVE Quiet
  <2>1. /\ UNCHANGED <<history, attempt>> /\ pc[p] = "guard"
        /\ \/ NextPhase(p)
           \/ UNCHANGED idx /\ \E label \in {"failed", "terminal"} : Goto(p, label)
    BY <1>4 DEF TerminalGuard
  <2> QED
    BY <1>a, <1>b, <1>d, <2>1
<1>5. ASSUME NEW p \in Procs, Rollback(p) PROVE Quiet
  BY <1>5, <1>a, <1>b DEF Rollback
<1>6. ASSUME NEW p \in Procs, ReleaseLock(p) PROVE Quiet
  <2>1. /\ UNCHANGED <<history, attempt>>
        /\ NextPhase(p) \/ (UNCHANGED idx /\ Goto(p, "failed"))
    BY <1>6 DEF ReleaseLock
  <2> QED
    BY <1>a, <1>b, <1>d, <2>1
<1>7. ASSUME NEW p \in Procs, Crash(p) PROVE Quiet
  BY <1>7, <1>a, <1>b DEF Crash
<1>8. ASSUME NEW p \in Procs, Heartbeat(p) \/ Cancel(p) PROVE Quiet
  BY <1>8, <1>c DEF Heartbeat, Cancel
<1>9. CASE Expire \/ UNCHANGED vars
  BY <1>9, <1>c DEF Expire, vars
<1> QED
  BY <1>1, <1>2, <1>3, <1>4, <1>5, <1>6, <1>7, <1>8, <1>9 DEF Next, Step, AttemptStep

LEMMA StepAttemptInv ==
    ASSUME AttemptInv, [Next]_vars PROVE AttemptInv'
<1>1. TypeInv /\ TypeInv'
  BY StepTypeInv DEF AttemptInv
<1>2. CASE \E p \in Procs : AttemptStep(p)
  BY <1>1, <1>2, MaxAttemptStep, StartedStep, TerminalStep, RolledBackStep DEF AttemptStep
<1>3. CASE \A p \in Procs : ~AttemptStep(p)
  BY <1>1, <1>3, OtherStep, QuietStep
<1> QED
  BY <1>2, <1>3

LEMMA AttemptInvariance == Spec => []AttemptInv
BY InitAttemptInv, StepAttemptInv, PTL DEF Spec

\* No two invocations ever work on the same attempt, whatever happens to the
\* lock: the unique key of the history table decides.
THEOREM AttemptsAreOwned == Spec => []OneOwnerPerAttempt
<1>1. AttemptInv => OneOwnerPerAttempt
  BY DEF AttemptInv
<1> QED
  BY <1>1, AttemptInvariance, PTL

\* Every attempt starts, then has one verdict, then at most one rollback, for
\* every number of invocations and through every fault.
THEOREM AttemptsHaveOneVerdict == Spec => []AttemptLifecycle
<1>1. AttemptInv => AttemptLifecycle
  BY DEF AttemptInv
<1> QED
  BY <1>1, AttemptInvariance, PTL

\* The attempts of a phase are numbered without gaps in the order they start.
THEOREM AttemptsAreDense == Spec => []AttemptsDense
<1>1. AttemptInv => AttemptsDense
  BY DEF AttemptInv
<1> QED
  BY <1>1, AttemptInvariance, PTL

-----------------------------------------------------------------------------
(* The order of the phases                                                 *)

\* What lies behind an invocation has completed: the phases it has passed, the
\* phase it is about to skip, and the phase whose lock it is about to release.
Passed ==
    \A p \in Procs :
      /\ \A j \in 1 .. (idx[p] - 1) : Completed(Migration[j].name)
      /\ pc[p] = "getlock" /\ latest[p] = "PHASE_COMPLETED" => Completed(Phase(p).name)
      /\ pc[p] = "release" => Completed(Phase(p).name)

OrderInv == AttemptInv /\ Passed /\ DoneMeansCompleted /\ PhaseOrder

LEMMA CompletedStays ==
    ASSUME TypeOK, UNCHANGED history \/ \E e \in Events : Appends(e), NEW name, Completed(name)
    PROVE  Completed(name)'
<1>1. CASE UNCHANGED history
  BY <1>1 DEF Completed, RowsOf
<1>2. CASE \E e \in Events : Appends(e)
  <2>1. PICK e \in Events : Appends(e)
    BY <1>2
  <2> QED
    BY <2>1, AppendsRows DEF Completed, RowsOf
<1> QED
  BY <1>1, <1>2

\* An event a step writes is about the phase its invocation is in.
LEMMA StepWrites ==
    ASSUME AttemptInv, [Next]_vars
    PROVE  \/ UNCHANGED history
           \/ \E p \in Procs : \E t \in EventTypes : Appends(Own(p, t)) /\ Own(p, t) \in Events
<1> USE DEF AttemptInv
<1>1. ASSUME NEW p \in Procs, InsertStarted(p) \/ InsertTerminal(p) \/ InsertRolledBack(p)
      PROVE  UNCHANGED history \/ \E t \in EventTypes : Appends(Own(p, t))
  <2>1. Verdict(outcome[p]) \in EventTypes /\ "PHASE_STARTED" \in EventTypes
        /\ "PHASE_ROLLED_BACK" \in EventTypes
    BY DEF TypeInv, TypeOK, Verdict, EventTypes, TerminalTypes
  <2>2. PICK t \in EventTypes : \E okay, bad : InsertEvent(p, Own(p, t), okay, bad)
    BY <1>1, <2>1 DEF InsertStarted, InsertTerminal, InsertRolledBack, Own
  <2> QED
    BY <2>2, InsertEventCases
<1>2. ASSUME NEW p \in Procs, NEW t \in EventTypes PROVE Own(p, t) \in Events
  BY EventType DEF TypeInv, Own
<1>3. CASE \E p \in Procs : InsertStarted(p) \/ InsertTerminal(p) \/ InsertRolledBack(p)
  BY <1>1, <1>2, <1>3
<1>4. CASE ~ \E p \in Procs : InsertStarted(p) \/ InsertTerminal(p) \/ InsertRolledBack(p)
  BY <1>4 DEF Next, Step, Start, ReadLatest, ReadLock, AcquireInsert, AcquireSteal, ReadMaxAttempt,
              Execute, TerminalGuard, Rollback, ReleaseLock, Heartbeat, Expire, Cancel, Crash, vars
<1> QED
  BY <1>3, <1>4

LEMMA PhaseOrderStep ==
    ASSUME OrderInv, [Next]_vars PROVE PhaseOrder'
<1> USE DEF OrderInv
<1>1. CASE UNCHANGED history
  BY <1>1 DEF PhaseOrder, RowsOf
<1>2. ASSUME NEW p \in Procs, NEW t \in EventTypes, Appends(Own(p, t)), Own(p, t) \in Events
      PROVE  PhaseOrder'
  <2> SUFFICES ASSUME DistinctNames, NEW i \in Phases, NEW j \in Phases, j < i,
                      NEW n \in RowsOf(Migration[i].name)'
               PROVE  \E m \in RowsOf(Migration[j].name)' :
                        m < n /\ history'[m].type = "PHASE_COMPLETED"
    BY DEF PhaseOrder, DistinctNames, Phases
  <2>1. PICK L \in Nat :
          /\ DOMAIN history' = DOMAIN history \cup {L} /\ L \notin DOMAIN history
          /\ \A m \in DOMAIN history : m \in Nat /\ m < L /\ history'[m] = history[m]
          /\ history'[L] = Own(p, t)
    BY <1>2, AppendsNew DEF AttemptInv, TypeInv
  <2>2. CASE n \in DOMAIN history
    <3>1. n \in RowsOf(Migration[i].name)
      BY <2>1, <2>2 DEF RowsOf
    <3>2. PICK m \in RowsOf(Migration[j].name) : m < n /\ history[m].type = "PHASE_COMPLETED"
      BY <3>1 DEF PhaseOrder
    <3> QED
      BY <2>1, <3>2 DEF RowsOf
  <2>3. CASE n = L
    <3>1. Migration[i].name = Migration[idx[p]].name /\ idx[p] \in Phases
      BY <2>1, <2>3 DEF RowsOf, Own, Event, Phase, AttemptInv, TypeInv, TypeOK
    <3>2. i = idx[p]
      BY <3>1 DEF DistinctNames
    <3>3. j \in 1 .. (idx[p] - 1)
      BY <3>1, <3>2 DEF Phases
    <3>4. PICK m \in RowsOf(Migration[j].name) : history[m].type = "PHASE_COMPLETED"
      BY <3>3 DEF Passed, Completed
    <3> QED
      BY <2>1, <2>3, <3>4 DEF RowsOf
  <2> QED
    BY <2>1, <2>2, <2>3 DEF RowsOf
<1> QED
  BY <1>1, <1>2, StepWrites

\* The label an invocation reaches and how it passes to the next phase.
LEMMA PassedStep ==
    ASSUME OrderInv, [Next]_vars PROVE Passed' /\ DoneMeansCompleted'
<1> USE DEF OrderInv
<1>1. \A name : Completed(name) => Completed(name)'
  BY StepWrites, CompletedStays DEF AttemptInv, TypeInv
<1>2. TypeOK /\ TypeOK' /\ Len(Migration) \in Nat
  BY StepTypeInv, MigrationAssumption DEF AttemptInv, TypeInv
<1>3. ASSUME NEW q \in Procs, idx'[q] = idx[q],
             pc'[q] = "getlock" /\ latest'[q] = "PHASE_COMPLETED" => Completed(Phase(q).name)',
             pc'[q] = "release" => Completed(Phase(q).name)',
             pc'[q] = "done" => \A i \in Phases : Completed(Migration[i].name)'
      PROVE  /\ \A j \in 1 .. (idx'[q] - 1) : Completed(Migration[j].name)'
             /\ pc'[q] = "getlock" /\ latest'[q] = "PHASE_COMPLETED" => Completed(Phase(q).name)'
             /\ pc'[q] = "release" => Completed(Phase(q).name)'
             /\ pc'[q] = "done" => \A i \in Phases : Completed(Migration[i].name)'
  BY <1>1, <1>3 DEF Passed
<1> DEFINE Fine(q) ==
             /\ \A j \in 1 .. (idx'[q] - 1) : Completed(Migration[j].name)'
             /\ pc'[q] = "getlock" /\ latest'[q] = "PHASE_COMPLETED" => Completed(Phase(q).name)'
             /\ pc'[q] = "release" => Completed(Phase(q).name)'
             /\ pc'[q] = "done" => \A i \in Phases : Completed(Migration[i].name)'
<1>4. ASSUME NEW q \in Procs, pc'[q] = pc[q], idx'[q] = idx[q], latest'[q] = latest[q]
      PROVE  Fine(q)
  <2>1. Phase(q)' = Phase(q)
    BY <1>4 DEF Phase
  <2> QED
    BY <1>1, <1>4, <2>1 DEF Passed, DoneMeansCompleted
<1>5. ASSUME NEW q \in Procs, idx'[q] = idx[q], pc'[q] \notin {"getlock", "release", "done"}
      PROVE  Fine(q)
  BY <1>3, <1>5
<1>6. ASSUME NEW q \in Procs, NextPhase(q), Completed(Phase(q).name) PROVE Fine(q)
  <2>1. idx[q] \in 1 .. Len(Migration)
    BY <1>2 DEF TypeOK, Phases
  <2>2. \A j \in 1 .. idx[q] : Completed(Migration[j].name)'
    BY <1>1, <1>6, <2>1 DEF Passed, Phase
  <2>3. CASE idx[q] < Len(Migration)
    <3>1. idx'[q] = idx[q] + 1 /\ pc'[q] = "latest"
      BY <1>2, <1>6, <2>3 DEF NextPhase, Goto, TypeOK
    <3> QED
      BY <2>1, <2>2, <3>1
  <2>4. CASE ~(idx[q] < Len(Migration))
    <3>1. idx'[q] = idx[q] /\ pc'[q] = "done" /\ idx[q] = Len(Migration)
      BY <1>2, <1>6, <2>1, <2>4 DEF NextPhase, Goto, TypeOK
    <3> QED
      BY <2>1, <2>2, <3>1 DEF Phases
  <2> QED
    BY <2>3, <2>4
<1>7. ASSUME NEW p \in Procs, Step(p) \/ Heartbeat(p) \/ Cancel(p) \/ Crash(p),
             NEW q \in Procs, q # p
      PROVE  pc'[q] = pc[q] /\ idx'[q] = idx[q] /\ latest'[q] = latest[q]
  BY <1>2, <1>7 DEF Step, Start, ReadLatest, ReadLock, AcquireInsert, AcquireSteal, ReadMaxAttempt,
       InsertStarted, InsertTerminal, InsertRolledBack, InsertEvent, Execute, TerminalGuard, Rollback,
       ReleaseLock, Heartbeat, Cancel, Crash, NextPhase, Goto, TypeOK
<1>8. ASSUME NEW p \in Procs, ReadLatest(p) PROVE Fine(p)
  <2>1. ASSUME LatestEvent(Phase(p).name) = "PHASE_COMPLETED" PROVE Completed(Phase(p).name)
    BY <1>2, <2>1, LatestType DEF LatestEvent, RowsOf, Completed
  <2>2. latest'[p] = LatestEvent(Phase(p).name) /\ idx'[p] = idx[p] /\ Phase(p)' = Phase(p)
        /\ pc'[p] \in {"getlock", "failed"}
    BY <1>2, <1>8 DEF ReadLatest, Goto, Phase, TypeOK
  <2> QED
    BY <1>1, <1>3, <2>1, <2>2
<1>9. ASSUME NEW p \in Procs, ReadLock(p) PROVE Fine(p)
  <2>1. \/ NextPhase(p) /\ DetermineState(latest[p], lock) = "Completed" /\ pc[p] = "getlock"
        \/ idx' = idx /\ (Goto(p, "acquire") \/ Goto(p, "failed"))
    BY <1>9 DEF ReadLock
  <2>2. CASE NextPhase(p) /\ DetermineState(latest[p], lock) = "Completed" /\ pc[p] = "getlock"
    <3>1. latest[p] = "PHASE_COMPLETED"
      BY <1>2, <2>2 DEF DetermineState, TypeOK, EventTypes, TerminalTypes
    <3> QED
      BY <1>6, <2>2, <3>1 DEF Passed
  <2>3. CASE idx' = idx /\ (Goto(p, "acquire") \/ Goto(p, "failed"))
    BY <1>2, <1>5, <2>3 DEF Goto, TypeOK
  <2> QED
    BY <2>1, <2>2, <2>3
<1>10. ASSUME NEW p \in Procs, TerminalGuard(p) PROVE Fine(p)
  <2>1. ~IsTerminal(LatestEventForAttempt(Phase(p).name, attempt[p]))
    <3>1. SUFFICES ASSUME IsTerminal(LatestEventForAttempt(Phase(p).name, attempt[p])) PROVE FALSE
      OBVIOUS
    <3>2. PICK n \in RowsOfAttempt(Phase(p).name, attempt[p]) : history[n].type \in TerminalTypes
      BY <1>2, <3>1, LatestType DEF LatestEventForAttempt, IsTerminal, TerminalTypes, RowsOfAttempt, RowsOf
    <3>3. Recorded(Own(p, history[n].type))
      BY <1>2, <3>2, RecordedRow DEF RowsOfAttempt, RowsOf, Own
    <3>4. pc[p] \in Judging
      BY <1>10 DEF TerminalGuard, Judging
    <3> QED
      BY <3>2, <3>3, <3>4 DEF AttemptInv, Knows, Undecided
  <2>2. idx' = idx /\ Goto(p, "terminal")
    BY <1>10, <2>1 DEF TerminalGuard
  <2> QED
    BY <1>2, <1>5, <2>2 DEF Goto, TypeOK
<1>11. ASSUME NEW p \in Procs, InsertTerminal(p) PROVE Fine(p)
  <2>1. idx' = idx /\ pc'[p] \in {"release", "rollback", "failed"}
        /\ (pc'[p] = "release" => outcome[p] = "nil" /\ Recorded(Own(p, "PHASE_COMPLETED"))')
    <3> DEFINE e == Own(p, Verdict(outcome[p]))
               okay == IF outcome[p] = "nil" THEN "release"
                         ELSE IF Phase(p).onFailure = "rollback" THEN "rollback" ELSE "failed"
    <3>1. \/ Appends(e) /\ (Goto(p, okay) \/ Goto(p, "failed"))
          \/ history' = history /\ Goto(p, "failed")
      BY <1>11, InsertEventCases DEF InsertTerminal, Own
    <3>2. idx' = idx /\ attempt' = attempt /\ e \in Events
      BY <1>2, <1>11, EventType DEF InsertTerminal, Own, Verdict, TypeOK, EventTypes, TerminalTypes
    <3>3. pc'[p] = "release" => outcome[p] = "nil" /\ Appends(e)
      BY <1>2, <3>1 DEF Goto, TypeOK
    <3>4. outcome[p] = "nil" => e = Own(p, "PHASE_COMPLETED")
      BY DEF Verdict
    <3>5. Own(p, "PHASE_COMPLETED")' = Own(p, "PHASE_COMPLETED")
      BY <3>2 DEF Own, Event, Phase
    <3>6. Appends(e) => \E n \in DOMAIN history' : history'[n] = e
      BY <1>2, <3>2, AppendsRows
    <3>7. pc'[p] \in {"release", "rollback", "failed"}
      BY <1>2, <3>1 DEF Goto, TypeOK
    <3> HIDE DEF e
    <3> QED
      BY <3>2, <3>3, <3>4, <3>5, <3>6, <3>7 DEF Recorded
  <2>2. ASSUME Recorded(Own(p, "PHASE_COMPLETED"))' PROVE Completed(Phase(p).name)'
    BY <2>2 DEF Recorded, Own, Event, Completed, RowsOf
  <2> QED
    BY <1>3, <2>1, <2>2
<1>12. ASSUME NEW p \in Procs, ReleaseLock(p) PROVE Fine(p)
  <2>1. CASE pc[p] = "release"
    BY <1>6, <1>12, <2>1 DEF ReleaseLock, Passed
  <2>2. CASE pc[p] # "release"
    BY <1>2, <1>5, <1>12, <2>2 DEF ReleaseLock, Goto, TypeOK
  <2> QED
    BY <2>1, <2>2
<1>13. ASSUME NEW p \in Procs,
              \/ Start(p) \/ AcquireInsert(p) \/ AcquireSteal(p) \/ ReadMaxAttempt(p)
              \/ InsertStarted(p) \/ Execute(p) \/ Rollback(p) \/ InsertRolledBack(p) \/ Crash(p)
       PROVE  Fine(p)
  <2>1. idx' = idx /\ \E label \in Labels \ {"getlock", "release", "done"} : Goto(p, label)
    BY <1>13 DEF Start, AcquireInsert, AcquireSteal, ReadMaxAttempt, InsertStarted, Execute, Rollback,
                 InsertRolledBack, InsertEvent, Crash, Labels, Ended, HeartbeatOn
  <2> QED
    BY <1>2, <1>5, <2>1 DEF Goto, TypeOK
<1>14. ASSUME NEW p \in Procs, Heartbeat(p) \/ Cancel(p) PROVE Fine(p)
  BY <1>4, <1>14 DEF Heartbeat, Cancel
<1>15. ASSUME NEW q \in Procs PROVE Fine(q)
  <2>1. CASE Expire \/ UNCHANGED vars
    BY <1>4, <2>1 DEF Expire, vars
  <2>2. ASSUME NEW p \in Procs, Step(p) \/ Heartbeat(p) \/ Cancel(p) \/ Crash(p), q # p PROVE Fine(q)
    BY <1>4, <1>7, <2>2
  <2>3. ASSUME Step(q) \/ Heartbeat(q) \/ Cancel(q) \/ Crash(q) PROVE Fine(q)
    BY <1>8, <1>9, <1>10, <1>11, <1>12, <1>13, <1>14, <2>3 DEF Step
  <2> QED
    BY <2>1, <2>2, <2>3 DEF Next
<1> QED
  BY <1>15 DEF Passed, DoneMeansCompleted

LEMMA InitOrderInv == Init => OrderInv
<1> SUFFICES ASSUME Init PROVE OrderInv
  OBVIOUS
<1>1. /\ history = << >> /\ DOMAIN history = {}
      /\ \A p \in Procs : pc[p] = "idle" /\ idx[p] = 1
  BY DEF Init
<1>2. PhaseOrder /\ Passed /\ DoneMeansCompleted
  BY <1>1 DEF PhaseOrder, RowsOf, Passed, DoneMeansCompleted
<1> QED
  BY <1>2, InitAttemptInv DEF OrderInv

LEMMA OrderInvariance == Spec => []OrderInv
<1>1. OrderInv /\ [Next]_vars => OrderInv'
  BY StepAttemptInv, PhaseOrderStep, PassedStep DEF OrderInv
<1> QED
  BY <1>1, InitOrderInv, PTL DEF Spec

\* No phase has an event before every earlier phase has a PHASE_COMPLETED,
\* even when invocations overtake each other or lose the lock.
THEOREM PhasesInOrder == Spec => []PhaseOrder
<1>1. OrderInv => PhaseOrder
  BY DEF OrderInv
<1> QED
  BY <1>1, OrderInvariance, PTL

\* A command that returns success leaves a completed attempt of every phase.
THEOREM DoneIsCompleted == Spec => []DoneMeansCompleted
<1>1. OrderInv => DoneMeansCompleted
  BY DEF OrderInv
<1> QED
  BY <1>1, OrderInvariance, PTL

-----------------------------------------------------------------------------
(* The lock                                                                *)

\* A working invocation has the live row, as long as heartbeats are timely.
Holds == TimelyHeartbeats => \A p \in Procs : Working(p) => lock.holder = p /\ lock.live

LEMMA HoldsStep ==
    ASSUME TypeOK, Holds, [Next]_vars PROVE Holds'
<1> SUFFICES ASSUME TimelyHeartbeats, NEW q \in Procs, Working(q)'
             PROVE  lock'.holder = q /\ lock'.live
  BY DEF Holds, Working
<1>1. ASSUME lock' = lock, Working(q) PROVE lock'.holder = q /\ lock'.live
  BY <1>1 DEF Holds
<1>2. ASSUME NEW p \in Procs, p # q, Working(q)
      PROVE  lock # NoLock /\ ~Stealable /\ ~Working(p)
  BY <1>2, NobodyAssumption DEF Holds, NoLock, Stealable
<1>3. ASSUME NEW p \in Procs, AcquireInsert(p) \/ AcquireSteal(p) PROVE lock'.holder = q /\ lock'.live
  <2>1. CASE q = p
    BY <1>3, <2>1 DEF AcquireInsert, AcquireSteal, Goto, TypeOK, Working, HeartbeatOn
  <2>2. CASE q # p
    <3>1. Working(q)
      BY <1>3, <2>2 DEF AcquireInsert, AcquireSteal, Goto, TypeOK, Working
    <3> QED
      BY <1>1, <1>2, <1>3, <2>2, <3>1 DEF AcquireInsert, AcquireSteal
  <2> QED
    BY <2>1, <2>2
<1>4. ASSUME NEW p \in Procs, ReleaseLock(p) PROVE lock'.holder = q /\ lock'.live
  <2>1. Working(p)
    BY <1>4 DEF ReleaseLock, Working, HeartbeatOn
  <2>2. q # p
    BY <1>4 DEF ReleaseLock, NextPhase, Goto, TypeOK, Working, HeartbeatOn
  <2>3. Working(q)
    BY <1>4, <2>2 DEF ReleaseLock, NextPhase, Goto, TypeOK, Working
  <2> QED
    BY <1>2, <2>1, <2>2, <2>3
<1>5. ASSUME NEW p \in Procs, Heartbeat(p) PROVE lock'.holder = q /\ lock'.live
  <2>1. Working(q)
    BY <1>5 DEF Heartbeat, Working
  <2> QED
    BY <1>1, <1>5, <2>1 DEF Heartbeat, Holds, TypeOK
<1>6. CASE Expire
  <2>1. Working(q)
    BY <1>6 DEF Expire, Working
  <2> QED
    BY <1>6, <2>1 DEF Expire, Holds
<1>7. ASSUME NEW p \in Procs,
             \/ Start(p) \/ ReadLatest(p) \/ ReadLock(p) \/ ReadMaxAttempt(p) \/ InsertStarted(p)
             \/ Execute(p) \/ TerminalGuard(p) \/ InsertTerminal(p) \/ Rollback(p)
             \/ InsertRolledBack(p) \/ Cancel(p) \/ Crash(p)
      PROVE  lock'.holder = q /\ lock'.live
  <2>1. lock' = lock
    BY <1>7 DEF Start, ReadLatest, ReadLock, ReadMaxAttempt, InsertStarted, Execute, TerminalGuard,
                InsertTerminal, Rollback, InsertRolledBack, Cancel, Crash
  <2>2. Working(q)
    <3>1. CASE q # p
      BY <1>7, <3>1 DEF Start, ReadLatest, ReadLock, ReadMaxAttempt, InsertStarted, Execute,
           TerminalGuard, InsertTerminal, Rollback, InsertRolledBack, Cancel, Crash, InsertEvent,
           NextPhase, Goto, TypeOK, Working
    <3>2. ASSUME Start(p) \/ ReadLatest(p) \/ ReadLock(p) PROVE ~Working(p)'
      BY <3>2 DEF Start, ReadLatest, ReadLock, NextPhase, Goto, TypeOK, Working, HeartbeatOn
    <3>3. ASSUME \/ ReadMaxAttempt(p) \/ InsertStarted(p) \/ Execute(p) \/ TerminalGuard(p)
                 \/ InsertTerminal(p) \/ Rollback(p) \/ InsertRolledBack(p)
          PROVE  Working(p)
      BY <3>3 DEF ReadMaxAttempt, InsertStarted, Execute, TerminalGuard, InsertTerminal, Rollback,
                  InsertRolledBack, Working, HeartbeatOn
    <3>4. ASSUME Cancel(p) \/ Crash(p) PROVE Working(p)' => Working(p)
      BY <3>4 DEF Cancel, Crash, Goto, TypeOK, Working, HeartbeatOn
    <3> QED
      BY <1>7, <3>1, <3>2, <3>3, <3>4
  <2> QED
    BY <1>1, <2>1, <2>2
<1>8. CASE UNCHANGED vars
  BY <1>1, <1>8 DEF vars, Working
<1> QED
  BY <1>3, <1>4, <1>5, <1>6, <1>7, <1>8 DEF Next, Step

\* As long as heartbeats are timely, one invocation at a time is between
\* AcquireLock and the end of its phase.
THEOREM LockExcludes == Spec => []MutualExclusion
<1>1. Init => Holds
  BY DEF Init, Holds, Working, HeartbeatOn
<1>2. TypeInv /\ Holds /\ [Next]_vars => Holds'
  BY HoldsStep DEF TypeInv
<1>3. Holds => MutualExclusion
  BY DEF Holds, MutualExclusion
<1> QED
  BY <1>1, <1>2, <1>3, TypeInvariance, PTL DEF Spec

-----------------------------------------------------------------------------
(* Every statement is a step towards the end                               *)

LEMMA StatementsType ==
    ASSUME NEW i \in Phases, NEW label \in Labels
    PROVE  (Len(Migration) - i) * 12 + ToTheEnd[label] \in Nat
<1>1. (Len(Migration) - i) * 12 \in Nat
  BY MigrationAssumption DEF Phases
<1>2. ToTheEnd[label] \in Nat
  BY DEF ToTheEnd, Labels, HeartbeatOn, Ended
<1> QED
  BY <1>1, <1>2

\* Labels that are nearer to the end of a phase than another one.
LEMMA NearerLabel ==
    ASSUME TypeOK, NEW p \in Procs, idx'[p] = idx[p],
           \/ pc[p] = "idle" /\ pc'[p] \in {"latest", "failed"}
           \/ pc[p] = "latest" /\ pc'[p] \in {"getlock", "failed"}
           \/ pc[p] = "getlock" /\ pc'[p] \in {"acquire", "failed"}
           \/ pc[p] = "acquire" /\ pc'[p] \in {"maxattempt", "steal", "failed"}
           \/ pc[p] = "steal" /\ pc'[p] \in {"maxattempt", "failed"}
           \/ pc[p] = "maxattempt" /\ pc'[p] \in {"start", "abort"}
           \/ pc[p] = "start" /\ pc'[p] \in {"exec", "abort"}
           \/ pc[p] = "exec" /\ pc'[p] = "guard"
           \/ pc[p] = "guard" /\ pc'[p] \in {"terminal", "failed"}
           \/ pc[p] = "terminal" /\ pc'[p] \in {"release", "rollback", "failed"}
           \/ pc[p] = "rollback" /\ pc'[p] = "rolledback"
           \/ pc[p] = "rolledback" /\ pc'[p] = "failed"
           \/ pc[p] = "abort" /\ pc'[p] = "failed"
           \/ Alive(p) /\ pc'[p] = "dead"
    PROVE  StatementsLeft(p)' < StatementsLeft(p)
<1> DEFINE Ahead == (Len(Migration) - idx[p]) * 12
<1>1. Ahead \in Nat /\ Ahead' = Ahead
  BY MigrationAssumption DEF TypeOK, Phases
<1>2. pc[p] \in Labels
  BY DEF TypeOK
<1> HIDE DEF Ahead
<1>3. ToTheEnd[pc'[p]] < ToTheEnd[pc[p]] /\ ToTheEnd[pc[p]] \in Nat /\ ToTheEnd[pc'[p]] \in Nat
  BY <1>2 DEF ToTheEnd, Labels, HeartbeatOn, Ended, Alive
<1>4. StatementsLeft(p) = Ahead + ToTheEnd[pc[p]] /\ StatementsLeft(p)' = Ahead' + ToTheEnd[pc'[p]]
  BY DEF StatementsLeft, Ahead
<1> QED
  BY <1>1, <1>3, <1>4

\* The next phase's statements take the place of what is left of this one.
LEMMA NextPhaseNearer ==
    ASSUME TypeOK, NEW p \in Procs, NextPhase(p), pc[p] \in {"getlock", "guard", "release"}
    PROVE  StatementsLeft(p)' < StatementsLeft(p)
<1>1. idx[p] \in Nat /\ Len(Migration) \in Nat
  BY MigrationAssumption DEF TypeOK, Phases
<1>2. CASE idx[p] < Len(Migration)
  <2>1. idx'[p] = idx[p] + 1 /\ pc'[p] = "latest"
    BY <1>2 DEF NextPhase, Goto, TypeOK
  <2>2. StatementsLeft(p)' = (Len(Migration) - (idx[p] + 1)) * 12 + 12
    BY <2>1 DEF StatementsLeft, ToTheEnd
  <2>3. StatementsLeft(p) \in {(Len(Migration) - idx[p]) * 12 + n : n \in {1, 5, 11}}
    BY DEF StatementsLeft, ToTheEnd
  <2> QED
    BY <1>1, <2>2, <2>3
<1>3. CASE ~(idx[p] < Len(Migration))
  <2>1. idx'[p] = idx[p] /\ pc'[p] = "done"
    BY <1>3 DEF NextPhase, Goto, TypeOK
  <2>2. StatementsLeft(p)' = (Len(Migration) - idx[p]) * 12
    BY <1>1, <2>1 DEF StatementsLeft, ToTheEnd
  <2>3. StatementsLeft(p) \in {(Len(Migration) - idx[p]) * 12 + n : n \in {1, 5, 11}}
    BY DEF StatementsLeft, ToTheEnd
  <2> QED
    BY <1>1, <2>2, <2>3
<1> QED
  BY <1>2, <1>3

LEMMA StepNearer ==
    ASSUME TypeOK, NEW p \in Procs, Step(p)
    PROVE  StatementsLeft(p)' < StatementsLeft(p)
<1> USE DEF Goto, TypeOK
<1>1. ASSUME Start(p) \/ ReadLatest(p) PROVE StatementsLeft(p)' < StatementsLeft(p)
  BY <1>1, NearerLabel DEF Start, ReadLatest
<1>2. CASE ReadLock(p)
  <2>1. CASE NextPhase(p)
    BY <1>2, <2>1, NextPhaseNearer DEF ReadLock
  <2>2. CASE ~NextPhase(p)
    <3>1. pc[p] = "getlock" /\ (Goto(p, "acquire") \/ Goto(p, "failed")) /\ UNCHANGED idx
      BY <1>2, <2>2 DEF ReadLock
    <3> QED
      BY <3>1, NearerLabel
  <2> QED
    BY <2>1, <2>2
<1>3. ASSUME AcquireInsert(p) \/ AcquireSteal(p) \/ ReadMaxAttempt(p)
      PROVE  StatementsLeft(p)' < StatementsLeft(p)
  BY <1>3, NearerLabel DEF AcquireInsert, AcquireSteal, ReadMaxAttempt
<1>4. CASE InsertStarted(p)
  <2>1. pc[p] = "start" /\ (Goto(p, "exec") \/ Goto(p, "abort")) /\ UNCHANGED idx
    BY <1>4, InsertEventCases DEF InsertStarted
  <2> QED
    BY <2>1, NearerLabel
<1>5. ASSUME Execute(p) \/ Rollback(p) PROVE StatementsLeft(p)' < StatementsLeft(p)
  BY <1>5, NearerLabel DEF Execute, Rollback
<1>6. CASE TerminalGuard(p)
  <2>1. pc[p] = "guard"
    BY <1>6 DEF TerminalGuard
  <2>2. \/ NextPhase(p)
        \/ (Goto(p, "failed") \/ Goto(p, "terminal")) /\ UNCHANGED idx
    BY <1>6 DEF TerminalGuard
  <2> QED
    BY <2>1, <2>2, NextPhaseNearer, NearerLabel
<1>7. CASE InsertTerminal(p)
  <2>1. /\ pc[p] = "terminal" /\ UNCHANGED idx
        /\ \E label \in {"release", "rollback", "failed"} : Goto(p, label)
    BY <1>7, InsertEventCases DEF InsertTerminal
  <2> QED
    BY <2>1, NearerLabel
<1>8. CASE InsertRolledBack(p)
  <2>1. pc[p] = "rolledback" /\ Goto(p, "failed") /\ UNCHANGED idx
    BY <1>8, InsertEventCases DEF InsertRolledBack
  <2> QED
    BY <2>1, NearerLabel
<1>9. CASE ReleaseLock(p)
  <2>1. \/ pc[p] = "release" /\ NextPhase(p)
        \/ pc[p] = "abort" /\ Goto(p, "failed") /\ UNCHANGED idx
    BY <1>9 DEF ReleaseLock
  <2> QED
    BY <2>1, NextPhaseNearer, NearerLabel
<1> QED
  BY <1>1, <1>2, <1>3, <1>4, <1>5, <1>6, <1>7, <1>8, <1>9 DEF Step

\* What one invocation does leaves the place of the others alone.
LEMMA StepOfAnother ==
    ASSUME TypeOK, NEW p \in Procs, NEW q \in Procs, p # q, Step(q)
    PROVE  pc'[p] = pc[p] /\ idx'[p] = idx[p]
BY DEF TypeOK, Goto, NextPhase, InsertEvent, Step, Start, ReadLatest, ReadLock, AcquireInsert,
       AcquireSteal, ReadMaxAttempt, InsertStarted, Execute, TerminalGuard, InsertTerminal,
       Rollback, InsertRolledBack, ReleaseLock

\* Every command sends a bounded number of statements, for every migration and
\* under all faults.  With fairness, and without the prover, it follows that
\* every command returns.
THEOREM CommandsRunOut == Spec => StatementsRunOut
<1> DEFINE Nearer == \A p \in Procs : /\ StatementsLeft(p)' <= StatementsLeft(p)
                                      /\ Step(p) => StatementsLeft(p)' < StatementsLeft(p)
<1>1. TypeOK /\ TypeOK' /\ [Next]_vars => [Nearer]_vars
  <2> SUFFICES ASSUME TypeOK, TypeOK', Next, NEW p \in Procs
               PROVE  StatementsLeft(p)' <= StatementsLeft(p)
    BY StepNearer
  <2>1. StatementsLeft(p) \in Nat /\ StatementsLeft(p)' \in Nat
    BY StatementsType DEF TypeOK, StatementsLeft
  <2>2. ASSUME pc'[p] = pc[p], idx'[p] = idx[p] PROVE StatementsLeft(p)' <= StatementsLeft(p)
    <3>1. StatementsLeft(p)' = StatementsLeft(p)
      BY <2>2 DEF StatementsLeft
    <3> QED
      BY <2>1, <3>1
  <2>3. ASSUME NEW q \in Procs, Step(q) PROVE StatementsLeft(p)' <= StatementsLeft(p)
    BY <2>1, <2>2, <2>3, StepNearer, StepOfAnother
  <2>4. ASSUME NEW q \in Procs, Crash(q) PROVE StatementsLeft(p)' <= StatementsLeft(p)
    <3>1. CASE p = q
      <4>1. Alive(p) /\ pc'[p] = "dead" /\ idx'[p] = idx[p]
        BY <2>4, <3>1 DEF Crash, Goto, TypeOK
      <4> QED
        BY <2>1, <4>1, NearerLabel
    <3>2. CASE p # q
      BY <2>2, <2>4, <3>2 DEF Crash, Goto, TypeOK
    <3> QED
      BY <3>1, <3>2
  <2>5. ASSUME Expire \/ \E q \in Procs : Heartbeat(q) \/ Cancel(q)
        PROVE  StatementsLeft(p)' <= StatementsLeft(p)
    BY <2>2, <2>5 DEF Expire, Heartbeat, Cancel
  <2> QED
    BY <2>3, <2>4, <2>5 DEF Next
<1>2. Spec => []TypeOK
  BY TypeCorrect
<1> QED
  BY <1>1, <1>2, PTL DEF Spec, StatementsRunOut

=============================================================================
