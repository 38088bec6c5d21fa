---------------------------- MODULE StoreProofs ----------------------------
(***************************************************************************)
(* What the two tables of the store promise.  The lock, while heartbeats   *)
(* are on time: Runner implements Lock, as the clocks of Lease do too      *)
(* (LeaseProofs); success leaves no lock; the newest attempt has the last  *)
(* word; what counts as completed is in the schema.  The history: it       *)
(* implements the ledger of attempts, whatever happens to the lock.        *)
(***************************************************************************)
EXTENDS RunnerProofs

Workers == {p \in Procs : Working(p)}

\* A step of one invocation changes the place of no other.
LEMMA OthersKeepWorking ==
    ASSUME TypeOK, NEW p \in Procs, Step(p) \/ Heartbeat(p) \/ Cancel(p) \/ Crash(p)
    PROVE  Workers' \in {Workers, Workers \cup {p}, Workers \ {p}}
<1>1. ASSUME NEW q \in Procs, q # p PROVE pc'[q] = pc[q]
  BY <1>1 DEF Step, Start, ReadLatest, ReadLock, AcquireInsert, AcquireSteal, ReadMaxAttempt,
       InsertStarted, InsertTerminal, InsertRolledBack, InsertEvent, Execute, TerminalGuard, Rollback,
       ReleaseLock, Heartbeat, Cancel, Crash, NextPhase, Goto, TypeOK
<1>2. \A q \in Procs : q # p => (Working(q)' <=> Working(q))
  BY <1>1 DEF Working
<1>3. CASE Working(p)'
  <2>1. Workers' = Workers \cup {p}
    BY <1>2, <1>3 DEF Workers
  <2> QED
    BY <2>1
<1>4. CASE ~Working(p)'
  <2>1. Workers' = Workers \ {p}
    BY <1>2, <1>4 DEF Workers
  <2> QED
    BY <2>1
<1> QED
  BY <1>3, <1>4

\* The statements that find no lock row of their own to write: the row stays,
\* and an invocation that stops working leaves it behind.
LEMMA QuietOrLeaves ==
    ASSUME TypeOK, NEW p \in Procs, Step(p) \/ Heartbeat(p) \/ Cancel(p) \/ Crash(p),
           lock' = lock, Working(p)' => Working(p)
    PROVE  [LockView!Next]_<<lock, Workers>>
<1>1. Workers' \in {Workers, Workers \ {p}}
  BY OthersKeepWorking DEF Workers
<1>2. CASE Workers' = Workers
  BY <1>2
<1>3. CASE Workers' = Workers \ {p} /\ p \in Workers
  BY <1>3 DEF LockView!Next, LockView!Leave, Workers
<1>4. CASE p \notin Workers
  BY <1>1, <1>4
<1> QED
  BY <1>1, <1>2, <1>3, <1>4

LEMMA LockStep ==
    ASSUME TimelyHeartbeats, TypeOK, Holds, [Next]_vars
    PROVE  [LockView!Next]_<<lock, Workers>>
<1>1. ASSUME NEW p \in Procs, AcquireInsert(p) \/ AcquireSteal(p)
      PROVE  [LockView!Next]_<<lock, Workers>>
  <2>1. ~Working(p)
    BY <1>1 DEF AcquireInsert, AcquireSteal, Working, HeartbeatOn
  <2>2. CASE ~lock.live /\ lock' = [holder |-> p, live |-> TRUE]
    <3>1. Workers' \in {Workers, Workers \cup {p}}
      BY <1>1, <2>1, OthersKeepWorking DEF Workers, Step
    <3> QED
      BY <2>1, <2>2, <3>1 DEF LockView!Next, LockView!Take, Workers
  <2>3. CASE lock' = lock /\ ~Working(p)'
    BY <1>1, <2>3, QuietOrLeaves DEF Step
  <2>4. \/ ~lock.live /\ lock' = [holder |-> p, live |-> TRUE]
        \/ lock' = lock /\ ~Working(p)'
    BY <1>1 DEF AcquireInsert, AcquireSteal, Stealable, NoLock, Goto, TypeOK, Working, HeartbeatOn
  <2> QED
    BY <2>2, <2>3, <2>4
<1>2. ASSUME NEW p \in Procs, ReleaseLock(p) PROVE [LockView!Next]_<<lock, Workers>>
  <2>1. Working(p) /\ ~Working(p)'
    BY <1>2 DEF ReleaseLock, NextPhase, Goto, TypeOK, Working, HeartbeatOn
  <2>2. Workers' = Workers \ {p}
    BY <1>2, <2>1, OthersKeepWorking DEF Workers, Step
  <2>3. lock' \in {lock, LockView!NoRow}
    BY <1>2 DEF ReleaseLock, RowDeleted, NoLock, LockView!NoRow
  <2> QED
    BY <2>1, <2>2, <2>3 DEF LockView!Next, LockView!Leave, Workers
<1>3. ASSUME NEW p \in Procs, Heartbeat(p) PROVE [LockView!Next]_<<lock, Workers>>
  <2>1. lock' = lock
    <3>1. CASE lock.holder # p
      BY <1>3, <3>1 DEF Heartbeat
    <3>2. CASE lock.holder = p
      <4>1. lock.live /\ lock \in [holder : Procs \cup {Nobody}, live : BOOLEAN]
        BY <1>3 DEF Heartbeat, Holds, Working, TypeOK
      <4>2. lock' = [lock EXCEPT !.live = TRUE]
        BY <1>3, <3>2 DEF Heartbeat
      <4> QED
        BY <4>1, <4>2
    <3> QED
      BY <3>1, <3>2
  <2>2. Working(p)' <=> Working(p)
    BY <1>3 DEF Heartbeat, Working
  <2> QED
    BY <1>3, <2>1, <2>2, QuietOrLeaves
<1>4. CASE Expire
  <2>1. Workers' = Workers
    BY <1>4 DEF Expire, Workers, Working
  <2>2. lock.holder \notin Workers
    BY <1>4 DEF Expire, Workers
  <2>3. lock' = [holder |-> lock.holder, live |-> FALSE]
    BY <1>4 DEF Expire, TypeOK
  <2> QED
    BY <1>4, <2>1, <2>2, <2>3 DEF Expire, Workers, LockView!Next, LockView!Expire
<1>5. ASSUME NEW p \in Procs,
             \/ Start(p) \/ ReadLatest(p) \/ ReadLock(p) \/ ReadMaxAttempt(p) \/ InsertStarted(p)
             \/ Execute(p) \/ TerminalGuard(p) \/ InsertTerminal(p) \/ Rollback(p)
             \/ InsertRolledBack(p) \/ Cancel(p) \/ Crash(p)
      PROVE  [LockView!Next]_<<lock, Workers>>
  <2>1. lock' = lock
    BY <1>5 DEF Start, ReadLatest, ReadLock, ReadMaxAttempt, InsertStarted, Execute, TerminalGuard,
                InsertTerminal, Rollback, InsertRolledBack, Cancel, Crash
  <2>2. ASSUME Start(p) \/ ReadLatest(p) \/ ReadLock(p) PROVE ~Working(p)'
    BY <2>2 DEF Start, ReadLatest, ReadLock, NextPhase, Goto, TypeOK, Working, HeartbeatOn
  <2>3. ASSUME \/ ReadMaxAttempt(p) \/ InsertStarted(p) \/ Execute(p) \/ TerminalGuard(p)
               \/ InsertTerminal(p) \/ Rollback(p) \/ InsertRolledBack(p)
        PROVE  Working(p)
    BY <2>3 DEF ReadMaxAttempt, InsertStarted, Execute, TerminalGuard, InsertTerminal, Rollback,
                InsertRolledBack, Working, HeartbeatOn
  <2>4. ASSUME Cancel(p) \/ Crash(p) PROVE Working(p)' => Working(p)
    BY <2>4 DEF Cancel, Crash, Goto, TypeOK, Working, HeartbeatOn
  <2>5. Working(p)' => Working(p)
    BY <1>5, <2>2, <2>3, <2>4
  <2> QED
    BY <1>5, <2>1, <2>5, QuietOrLeaves DEF Step
<1>6. CASE UNCHANGED vars
  BY <1>6 DEF vars, Workers, Working
<1> QED
  BY <1>1, <1>2, <1>3, <1>4, <1>5, <1>6 DEF Next, Step

\* With timely heartbeats the runner's statements implement the lock of Lock,
\* for any invocations, migration and faults.
THEOREM LockImplemented == TimelyHeartbeats => (Spec => ImplementsLock)
<1> SUFFICES ASSUME TimelyHeartbeats PROVE Spec => ImplementsLock
  OBVIOUS
<1>1. Init => LockView!Init
  BY DEF Init, LockView!Init, LockView!NoRow, NoLock, Working, HeartbeatOn
<1>2. Init => Holds
  BY DEF Init, Holds, Working, HeartbeatOn
<1>3. TypeInv /\ Holds /\ [Next]_vars => Holds'
  BY HoldsStep DEF TypeInv
<1>4. TypeInv /\ Holds /\ [Next]_vars => [LockView!Next]_<<lock, {p \in Procs : Working(p)}>>
  BY LockStep DEF TypeInv, Workers
<1> QED
  BY <1>1, <1>2, <1>3, <1>4, TypeInvariance, PTL DEF Spec, ImplementsLock, LockView!Spec

-----------------------------------------------------------------------------
(* Success leaves no lock                                                  *)

Holding == HeartbeatOn \cup {"maxattempt", "start", "abort", "failed", "dead"}

\* Where statements do not fail, an invocation has the row only while it works
\* or after it has failed.
Tidy ==
    Faults \subseteq {"crash"} =>
      /\ \A p \in Procs : ~cancelled[p]
      /\ \A p \in Procs : lock.holder = p => pc[p] \in Holding

LEMMA TidyStep ==
    ASSUME AttemptInv, Tidy, [Next]_vars PROVE Tidy'
<1> SUFFICES ASSUME Faults \subseteq {"crash"}
             PROVE  /\ \A p \in Procs : ~cancelled'[p]
                    /\ \A p \in Procs : lock'.holder = p => pc'[p] \in Holding
  BY DEF Tidy
<1>1. TypeOK /\ \A p \in Procs : ~cancelled[p] /\ (lock.holder = p => pc[p] \in Holding)
  BY DEF Tidy, AttemptInv, TypeInv
<1>2. \A p \in Procs : Replies(p) = {"ok"}
  BY <1>1 DEF Replies
<1>3. \A p \in Procs : ~cancelled'[p]
  <2>1. cancelled' = cancelled
    BY DEF Next, vars, Step, Start, ReadLatest, ReadLock, AcquireInsert, AcquireSteal, ReadMaxAttempt,
         InsertStarted, InsertTerminal, InsertRolledBack, Execute, TerminalGuard, Rollback,
         ReleaseLock, Heartbeat, Cancel, Crash, Expire
  <2> QED
    BY <1>1, <2>1
<1>4. ASSUME NEW q \in Procs, lock'.holder = q PROVE pc'[q] \in Holding
  <2>1. ASSUME lock.holder = q, pc'[q] \in Holding \/ pc'[q] = pc[q] PROVE pc'[q] \in Holding
    BY <1>1, <2>1
  <2>2. ASSUME NEW p \in Procs, AcquireInsert(p) \/ AcquireSteal(p) PROVE pc'[q] \in Holding
    <3>1. CASE q = p
      <4>1. pc[p] \notin Holding
        BY <2>2 DEF AcquireInsert, AcquireSteal, Holding, HeartbeatOn
      <4>2. lock' # lock
        BY <1>1, <1>4, <3>1, <4>1
      <4>3. pc'[p] = "maxattempt"
        BY <1>1, <1>2, <2>2, <4>2 DEF AcquireInsert, AcquireSteal, Goto, TypeOK
      <4> QED
        BY <3>1, <4>3 DEF Holding
    <3>2. CASE q # p
      <4>1. lock' = lock \/ lock'.holder = p
        BY <2>2 DEF AcquireInsert, AcquireSteal
      <4>2. pc'[q] = pc[q]
        BY <1>1, <2>2, <3>2 DEF AcquireInsert, AcquireSteal, Goto, TypeOK
      <4> QED
        BY <1>4, <2>1, <3>2, <4>1, <4>2
    <3> QED
      BY <3>1, <3>2
  <2>3. ASSUME NEW p \in Procs, ReleaseLock(p) PROVE pc'[q] \in Holding
    <3>1. lock' = NoLock
      BY <1>2, <2>3 DEF ReleaseLock, RowDeleted
    <3> QED
      BY <1>4, <3>1, NobodyAssumption DEF NoLock
  <2>4. ASSUME NEW p \in Procs, TerminalGuard(p) PROVE pc'[q] \in Holding
    <3>1. ~IsTerminal(LatestEventForAttempt(Phase(p).name, attempt[p]))
      <4> SUFFICES ASSUME IsTerminal(LatestEventForAttempt(Phase(p).name, attempt[p])) PROVE FALSE
        OBVIOUS
      <4>1. PICK n \in RowsOfAttempt(Phase(p).name, attempt[p]) : history[n].type \in TerminalTypes
        BY <1>1, LatestType DEF LatestEventForAttempt, IsTerminal, TerminalTypes, RowsOfAttempt, RowsOf
      <4>2. Recorded(Own(p, history[n].type))
        BY <1>1, <4>1, RecordedRow DEF RowsOfAttempt, RowsOf, Own
      <4>3. pc[p] \in Judging
        BY <2>4 DEF TerminalGuard, Judging
      <4> QED
        BY <4>1, <4>2, <4>3 DEF AttemptInv, Knows, Undecided
    <3>2. Goto(p, "terminal") /\ lock' = lock
      BY <2>4, <3>1 DEF TerminalGuard
    <3> QED
      BY <1>1, <1>4, <2>1, <3>2 DEF Goto, TypeOK, Holding, HeartbeatOn
  <2>5. ASSUME NEW p \in Procs,
               \/ ReadMaxAttempt(p) \/ InsertStarted(p) \/ Execute(p) \/ InsertTerminal(p)
               \/ Rollback(p) \/ InsertRolledBack(p) \/ Crash(p)
        PROVE  pc'[q] \in Holding
    <3>1. lock' = lock /\ \E label \in Holding : Goto(p, label)
      BY <2>5 DEF ReadMaxAttempt, InsertStarted, Execute, InsertTerminal, Rollback, InsertRolledBack,
                  InsertEvent, Crash, Holding, HeartbeatOn
    <3> QED
      BY <1>1, <1>4, <2>1, <3>1 DEF Goto, TypeOK
  <2>6. ASSUME NEW p \in Procs, Start(p) \/ ReadLatest(p) \/ ReadLock(p) PROVE pc'[q] \in Holding
    <3>1. lock' = lock /\ pc[p] \notin Holding
      BY <2>6 DEF Start, ReadLatest, ReadLock, Holding, HeartbeatOn
    <3>2. q # p
      BY <1>1, <1>4, <3>1
    <3>3. pc'[q] = pc[q]
      BY <1>1, <2>6, <3>2 DEF Start, ReadLatest, ReadLock, NextPhase, Goto, TypeOK
    <3> QED
      BY <1>4, <2>1, <3>1, <3>3
  <2>7. ASSUME NEW p \in Procs, Heartbeat(p) \/ Cancel(p) PROVE pc'[q] \in Holding
    <3>1. pc' = pc /\ lock'.holder = lock.holder
      BY <1>1, <2>7 DEF Heartbeat, Cancel, TypeOK
    <3> QED
      BY <1>4, <2>1, <3>1
  <2>8. CASE Expire \/ UNCHANGED vars
    <3>1. pc' = pc /\ lock'.holder = lock.holder
      BY <1>1, <2>8 DEF Expire, vars, TypeOK
    <3> QED
      BY <1>4, <2>1, <3>1
  <2> QED
    BY <2>2, <2>3, <2>4, <2>5, <2>6, <2>7, <2>8 DEF Next, Step
<1> QED
  BY <1>3, <1>4

\* Where statements do not fail, a command that reports success has not left
\* its row to the next one, for any migration and through any crashes of others.
THEOREM SuccessLeavesNoLock == Spec => []DoneLeavesNoLock
<1>1. Init => Tidy
  BY NobodyAssumption DEF Init, Tidy, NoLock
<1>2. AttemptInv /\ Tidy /\ [Next]_vars => Tidy'
  BY TidyStep
<1>3. Tidy => DoneLeavesNoLock
  BY DEF Tidy, DoneLeavesNoLock, Holding, HeartbeatOn
<1> QED
  BY <1>1, <1>2, <1>3, AttemptInvariance, PTL DEF Spec

-----------------------------------------------------------------------------
(* The newest attempt has the last word                                    *)

\* Where the lock excludes, the attempt in hand is the newest one of its phase.
Newest ==
    TimelyHeartbeats =>
      /\ \A p \in Procs : pc[p] = "start" => attempt[p] = MaxAttemptNumber(Phase(p).name) + 1
      /\ \A p \in Procs : pc[p] \in HeartbeatOn => attempt[p] = MaxAttemptNumber(Phase(p).name)

\* The event of a working invocation: no other one is in an attempt.
LEMMA AloneInAttempt ==
    ASSUME TimelyHeartbeats, Holds, NEW p \in Procs, pc[p] \in HeartbeatOn \cup {"start"},
           NEW q \in Procs, q # p
    PROVE  pc[q] \notin HeartbeatOn \cup {"start"}
BY DEF Holds, Working

LEMMA SameMax ==
    ASSUME UNCHANGED history, NEW name PROVE MaxAttemptNumber(name)' = MaxAttemptNumber(name)
BY DEF MaxAttemptNumber, RowsOf

\* The three INSERTs: what is written, by whom, and where it goes from there.
LEMMA InsertCases ==
    ASSUME AttemptInv, NEW p \in Procs, InsertStarted(p) \/ InsertTerminal(p) \/ InsertRolledBack(p)
    PROVE  /\ UNCHANGED <<idx, attempt, effect, outcome>>
           /\ \A q \in Procs : q # p => pc'[q] = pc[q]
           /\ pc'[p] # "start"
           /\ \/ UNCHANGED history /\ pc'[p] \notin HeartbeatOn
              \/ \E t \in EventTypes :
                   /\ Appends(Own(p, t)) /\ Own(p, t) \in Events
                   /\ pc[p] = "start" => t = "PHASE_STARTED"
                   /\ t = "PHASE_COMPLETED" => outcome[p] = "nil" /\ pc[p] = "terminal"
<1>1. TypeOK /\ TypeInv
  BY DEF AttemptInv, TypeInv
<1>2. UNCHANGED <<idx, attempt, effect, outcome>>
  BY DEF InsertStarted, InsertTerminal, InsertRolledBack
<1>3. ASSUME NEW t \in EventTypes, NEW okay, NEW bad, InsertEvent(p, Own(p, t), okay, bad),
             okay # "start", bad # "start", bad \notin HeartbeatOn,
             pc[p] = "start" => t = "PHASE_STARTED",
             t = "PHASE_COMPLETED" => outcome[p] = "nil" /\ pc[p] = "terminal"
      PROVE  /\ \A q \in Procs : q # p => pc'[q] = pc[q]
             /\ pc'[p] # "start"
             /\ \/ UNCHANGED history /\ pc'[p] \notin HeartbeatOn
                \/ /\ Appends(Own(p, t)) /\ Own(p, t) \in Events
                   /\ pc[p] = "start" => t = "PHASE_STARTED"
                   /\ t = "PHASE_COMPLETED" => outcome[p] = "nil" /\ pc[p] = "terminal"
  <2>1. Own(p, t) \in Events
    BY <1>1, EventType DEF Own
  <2>2. \/ Appends(Own(p, t)) /\ (Goto(p, okay) \/ Goto(p, bad))
        \/ history' = history /\ Goto(p, bad)
    BY <1>3, InsertEventCases
  <2> QED
    BY <1>1, <1>3, <2>1, <2>2 DEF Goto, TypeOK
<1>4. CASE InsertStarted(p)
  <2>1. /\ InsertEvent(p, Own(p, "PHASE_STARTED"), "exec", "abort")
        /\ "PHASE_STARTED" \in EventTypes /\ "abort" \notin HeartbeatOn
    BY <1>4 DEF InsertStarted, Own, EventTypes, HeartbeatOn
  <2> QED
    BY <1>2, <1>3, <2>1
<1>5. CASE InsertTerminal(p)
  <2> DEFINE v == Verdict(outcome[p])
             okay == IF outcome[p] = "nil" THEN "release"
                       ELSE IF Phase(p).onFailure = "rollback" THEN "rollback" ELSE "failed"
  <2>1. /\ InsertEvent(p, Own(p, v), okay, "failed") /\ "failed" \notin HeartbeatOn
        /\ okay # "start" /\ pc[p] = "terminal"
    BY <1>5 DEF InsertTerminal, Own, HeartbeatOn
  <2>2. v \in EventTypes /\ (v = "PHASE_COMPLETED" => outcome[p] = "nil")
    BY <1>1 DEF TypeOK, Verdict, EventTypes, TerminalTypes
  <2> HIDE DEF v, okay
  <2> QED
    BY <1>2, <1>3, <2>1, <2>2
<1>6. CASE InsertRolledBack(p)
  <2>1. /\ InsertEvent(p, Own(p, "PHASE_ROLLED_BACK"), "failed", "failed")
        /\ "PHASE_ROLLED_BACK" \in EventTypes /\ "failed" \notin HeartbeatOn
        /\ pc[p] = "rolledback"
    BY <1>6 DEF InsertRolledBack, Own, EventTypes, TerminalTypes, HeartbeatOn
  <2> QED
    BY <1>2, <1>3, <2>1
<1> QED
  BY <1>4, <1>5, <1>6

LEMMA NewestStep ==
    ASSUME TimelyHeartbeats, AttemptInv, Holds, Newest, LatestIsNewest, [Next]_vars
    PROVE  Newest' /\ LatestIsNewest'
<1>1. TypeInv /\ TypeOK
  BY DEF AttemptInv, TypeInv
<1>2. ASSUME UNCHANGED history PROVE LatestIsNewest'
  BY <1>2, SameMax DEF LatestIsNewest, RowsOf
<1>3. CASE \A p \in Procs : ~AttemptStep(p)
  <2>1. UNCHANGED history /\ \A q \in Procs : Stays(q)
    BY <1>1, <1>3, OtherStep
  <2>2. ASSUME NEW q \in Procs, NEW stage \in {HeartbeatOn, {"start"}}, pc'[q] \in stage
        PROVE  pc[q] \in stage /\ attempt'[q] = attempt[q] /\ Phase(q)' = Phase(q)
    BY <2>1, <2>2 DEF Stays, Stages, Phase
  <2>3. Newest'
    BY <2>1, <2>2, SameMax DEF Newest
  <2> QED
    BY <1>2, <2>1, <2>3
<1>4. ASSUME NEW p \in Procs, ReadMaxAttempt(p) PROVE Newest' /\ LatestIsNewest'
  <2>1. /\ UNCHANGED <<history, idx>> /\ pc'[p] \notin HeartbeatOn
        /\ attempt'[p] = MaxAttemptNumber(Phase(p).name) + 1
        /\ \A q \in Procs : q # p => pc'[q] = pc[q] /\ attempt'[q] = attempt[q]
    BY <1>1, <1>4 DEF ReadMaxAttempt, Goto, TypeOK, HeartbeatOn
  <2>2. \A q \in Procs : Phase(q)' = Phase(q)
    BY <2>1 DEF Phase
  <2>3. Newest'
    BY <2>1, <2>2, SameMax DEF Newest
  <2> QED
    BY <1>2, <2>1, <2>3
<1>5. ASSUME NEW p \in Procs, InsertStarted(p) \/ InsertTerminal(p) \/ InsertRolledBack(p)
      PROVE  Newest' /\ LatestIsNewest'
  <2>1. pc[p] \in HeartbeatOn \cup {"start"}
    BY <1>5 DEF InsertStarted, InsertTerminal, InsertRolledBack, HeartbeatOn
  <2>2. /\ UNCHANGED <<idx, attempt>> /\ pc'[p] # "start"
        /\ \A q \in Procs : q # p => pc'[q] \notin HeartbeatOn \cup {"start"}
    BY <1>5, <2>1, InsertCases, AloneInAttempt
  <2>3. CASE UNCHANGED history /\ pc'[p] \notin HeartbeatOn
    <3>1. Newest'
      BY <2>2, <2>3 DEF Newest
    <3> QED
      BY <1>2, <2>3, <3>1
  <2>4. CASE \E t \in EventTypes : Appends(Own(p, t)) /\ Own(p, t) \in Events
    <3>1. PICK t \in EventTypes : Appends(Own(p, t)) /\ Own(p, t) \in Events
      BY <2>4
    <3> DEFINE e == Own(p, t)
    <3>2. e.phase = Phase(p).name /\ e.attempt = attempt[p] /\ attempt[p] \in Nat
      BY <1>1 DEF Own, Event, TypeOK
    <3>3. MaxAttemptNumber(e.phase) \in Nat
      BY <1>1, MaxAttempt DEF TypeOK
    <3>4. e.attempt >= MaxAttemptNumber(e.phase)
      BY <2>1, <3>2, <3>3 DEF Newest
    <3> HIDE DEF e
    <3>5. \A name : MaxAttemptNumber(name)' = IF name = e.phase THEN e.attempt
                                                ELSE MaxAttemptNumber(name)
      BY <1>1, <3>1, <3>4, MaxAfter DEF e
    <3>6. Newest'
      <4>1. attempt'[p] = MaxAttemptNumber(Phase(p).name)'
        <5>1. Phase(p)' = Phase(p)
          BY <2>2 DEF Phase
        <5> QED
          BY <2>2, <3>2, <3>5, <5>1
      <4> QED
        BY <2>2, <4>1 DEF Newest
    <3>7. PICK L \in Nat :
            /\ DOMAIN history' = DOMAIN history \cup {L} /\ L \notin DOMAIN history
            /\ \A n \in DOMAIN history : n \in Nat /\ n < L /\ history'[n] = history[n]
            /\ history'[L] = e
      BY <1>1, <3>1, AppendsNew DEF e
    <3>8. ASSUME NEW n \in DOMAIN history', \A m \in RowsOf(history[n].phase)' : m <= n
          PROVE  history'[n].attempt = MaxAttemptNumber(history[n].phase)'
      <4>1. CASE n = L
        BY <3>5, <3>7, <4>1
      <4>2. CASE n # L
        <5>1. n \in DOMAIN history /\ history'[n] = history[n]
          BY <3>7, <4>2
        <5>2. history[n].phase # e.phase
          <6>1. ASSUME history[n].phase = e.phase PROVE L \in RowsOf(history[n].phase)'
            BY <3>7, <5>1, <6>1 DEF RowsOf
          <6>2. ~(L <= n)
            BY <3>7, <5>1
          <6> QED
            BY <3>8, <6>1, <6>2
        <5>3. RowsOf(history[n].phase) = RowsOf(history[n].phase)'
          BY <3>7, <5>1, <5>2 DEF RowsOf
        <5>4. history[n].attempt = MaxAttemptNumber(history[n].phase)
          BY <3>8, <5>1, <5>3 DEF LatestIsNewest
        <5> QED
          BY <3>5, <5>1, <5>2, <5>4
      <4> QED
        BY <4>1, <4>2
    <3> QED
      BY <3>6, <3>8 DEF LatestIsNewest
  <2> QED
    BY <1>5, <2>3, <2>4, InsertCases
<1> QED
  BY <1>3, <1>4, <1>5 DEF AttemptStep

LEMMA NewestInvariance == TimelyHeartbeats => (Spec => [](AttemptInv /\ Holds /\ Newest /\ LatestIsNewest))
<1> SUFFICES ASSUME TimelyHeartbeats
             PROVE  Spec => [](AttemptInv /\ Holds /\ Newest /\ LatestIsNewest)
  OBVIOUS
<1>1. Init => Holds /\ Newest /\ LatestIsNewest
  BY DEF Init, Holds, Newest, LatestIsNewest, Working, HeartbeatOn
<1>2. AttemptInv /\ Holds /\ [Next]_vars => Holds'
  BY HoldsStep DEF AttemptInv, TypeInv
<1>3. AttemptInv /\ Holds /\ Newest /\ LatestIsNewest /\ [Next]_vars => Newest' /\ LatestIsNewest'
  BY NewestStep
<1> QED
  BY <1>1, <1>2, <1>3, AttemptInvariance, PTL DEF Spec

\* While heartbeats are on time the latest event of a phase is about its newest
\* attempt, for any invocations, migration and faults: whoever writes an event
\* has the lock, and with it the attempt with the largest number.
THEOREM NewestHasLastWord == Spec => []LatestIsNewest
<1>1. CASE TimelyHeartbeats
  BY <1>1, NewestInvariance, PTL
<1>2. CASE ~TimelyHeartbeats
  <2>1. LatestIsNewest
    BY <1>2 DEF LatestIsNewest
  <2> QED
    BY <2>1, PTL
<1> QED
  BY <1>1, <1>2


-----------------------------------------------------------------------------
(* What is completed is applied                                            *)

LEMMA LatestAfter ==
    ASSUME TypeOK, NEW e \in Events, Appends(e), NEW name
    PROVE  LatestEvent(name)' = IF name = e.phase THEN e.type ELSE LatestEvent(name)
<1>1. PICK L \in Nat :
        /\ DOMAIN history' = DOMAIN history \cup {L} /\ L \notin DOMAIN history
        /\ \A n \in DOMAIN history : n \in Nat /\ n < L /\ history'[n] = history[n]
        /\ history'[L] = e
  BY AppendsNew
<1>2. CASE name # e.phase
  <2>1. RowsOf(name)' = RowsOf(name)
    BY <1>1, <1>2 DEF RowsOf
  <2>2. CASE RowsOf(name) = {}
    BY <1>2, <2>1, <2>2 DEF LatestEvent, LatestOf
  <2>3. CASE RowsOf(name) # {}
    <3>1. Max(RowsOf(name)) \in DOMAIN history
      BY <2>3, LatestRow DEF RowsOf
    <3> QED
      BY <1>1, <1>2, <2>1, <3>1 DEF LatestEvent, LatestOf
  <2> QED
    BY <2>2, <2>3
<1>3. CASE name = e.phase
  <2> DEFINE R == RowsOf(name) \cup {L}
  <2>1. RowsOf(name)' = R
    BY <1>1, <1>3 DEF RowsOf
  <2>2. R \in SUBSET Nat /\ L \in R /\ \A n \in R : n <= L
    BY <1>1 DEF RowsOf
  <2>3. Max(R) \in R /\ \A n \in R : n <= Max(R)
    BY <2>2, MaxOfBounded
  <2>4. Max(R) = L
    <3>1. Max(R) <= L /\ L <= Max(R) /\ Max(R) \in Nat
      BY <2>2, <2>3
    <3> QED
      BY <3>1
  <2> QED
    BY <1>1, <1>3, <2>1, <2>4 DEF LatestEvent, LatestOf
<1> QED
  BY <1>2, <1>3

LEMMA SameLatest ==
    ASSUME UNCHANGED history, NEW name PROVE LatestEvent(name)' = LatestEvent(name)
BY DEF LatestEvent, LatestOf, RowsOf

\* The phase of an attempt that is rolled back does not count as completed: the
\* latest event is of this attempt, which has another verdict.
LEMMA RevertedIsNotCompleted ==
    ASSUME TimelyHeartbeats, AttemptInv, Newest, LatestIsNewest,
           NEW p \in Procs, pc[p] \in Reverting
    PROVE  LatestEvent(Phase(p).name) # "PHASE_COMPLETED"
<1> DEFINE rows == RowsOf(Phase(p).name)
<1>1. TypeOK /\ pc[p] \in HeartbeatOn
  BY DEF AttemptInv, TypeInv, Reverting, HeartbeatOn
<1>2. PICK m \in DOMAIN history :
        history[m] = Own(p, "PHASE_FAILED") \/ history[m] = Own(p, "PHASE_TIMED_OUT")
  BY DEF AttemptInv, Knows, Undoing, Recorded
<1>3. /\ m \in rows /\ history[m].attempt = attempt[p] /\ m \in Nat
      /\ history[m].type \in {"PHASE_FAILED", "PHASE_TIMED_OUT"}
  BY <1>1, <1>2 DEF RowsOf, Own, Event, TypeOK
<1>4. PICK n \in rows : n = Max(rows) /\ \A k \in rows : k <= n
  <2>1. rows \in SUBSET DOMAIN history
    BY DEF RowsOf
  <2> QED
    BY <1>1, <1>3, <2>1, LatestRow
<1>5. /\ n \in DOMAIN history /\ n \in Nat /\ history[n].phase = Phase(p).name
      /\ history[n].attempt = attempt[p]
  <2>1. n \in DOMAIN history /\ history[n].phase = Phase(p).name
    BY DEF RowsOf
  <2>2. history[n].attempt = MaxAttemptNumber(Phase(p).name)
    BY <1>4, <2>1 DEF LatestIsNewest
  <2> QED
    BY <1>1, <2>1, <2>2 DEF Newest, TypeOK
<1>6. SUFFICES ASSUME history[n].type = "PHASE_COMPLETED" PROVE FALSE
  BY <1>3, <1>4 DEF LatestEvent, LatestOf
<1>7. m \in RowsOfAttempt(history[n].phase, history[n].attempt) /\ m < n
  <2>1. m <= n /\ m # n
    BY <1>3, <1>4, <1>6
  <2> QED
    BY <1>3, <1>5, <2>1 DEF RowsOfAttempt
<1>8. ~ \E k \in RowsOfAttempt(history[n].phase, history[n].attempt) :
          k < n /\ history[k].type \in TerminalTypes
  BY <1>5, <1>6 DEF AttemptInv, AttemptLifecycle
<1> QED
  BY <1>3, <1>7, <1>8 DEF TerminalTypes

\* Who is about to record a success has the phase's SQL in the schema, and what
\* is completed is there, but for a set of phases that somebody else undoes.
Fulfilled(others) ==
    \A p \in Procs : /\ pc[p] \in {"guard", "terminal"} /\ outcome[p] = "nil"
                     /\ Phase(p).name # "gate" /\ idx[p] \notin others
                     => effect[idx[p]] = "applied"

AppliedBut(others) ==
    \A i \in Phases \ others :
      LatestEvent(Migration[i].name) = "PHASE_COMPLETED" /\ Migration[i].name # "gate"
        => effect[i] = "applied"

LEMMA ExecuteFulfils ==
    ASSUME NEW name, NEW was, NEW res \in ExecResults(name, was)
    PROVE  /\ res[2] = "nil" /\ name # "gate" => res[1] = "applied"
           /\ was = "applied" => res[1] = "applied"
BY DEF ExecResults

\* Only Execute leads to the statements after it.
LEMMA AfterExecute ==
    ASSUME TypeOK, [Next]_vars, NEW q \in Procs, ~Execute(q), pc'[q] \in {"guard", "terminal"}
    PROVE  pc[q] \in {"guard", "terminal"} /\ idx'[q] = idx[q] /\ outcome'[q] = outcome[q]
<1>1. ASSUME NEW p \in Procs, p # q, Step(p) \/ Heartbeat(p) \/ Cancel(p) \/ Crash(p)
      PROVE  pc'[q] = pc[q] /\ idx'[q] = idx[q] /\ outcome'[q] = outcome[q]
  BY <1>1 DEF TypeOK, Step, Start, ReadLatest, ReadLock, AcquireInsert, AcquireSteal, ReadMaxAttempt,
       InsertStarted, InsertTerminal, InsertRolledBack, InsertEvent, Execute, TerminalGuard, Rollback,
       ReleaseLock, Heartbeat, Cancel, Crash, NextPhase, Goto
<1>2. CASE Step(q)
  <2>1. ~(\/ Start(q) \/ ReadLatest(q) \/ ReadLock(q) \/ AcquireInsert(q) \/ AcquireSteal(q)
          \/ ReadMaxAttempt(q) \/ Rollback(q) \/ ReleaseLock(q))
    BY DEF TypeOK, Start, ReadLatest, ReadLock, AcquireInsert, AcquireSteal, ReadMaxAttempt,
           Rollback, ReleaseLock, NextPhase, Goto
  <2>2. ~(InsertStarted(q) \/ InsertTerminal(q) \/ InsertRolledBack(q))
    BY DEF TypeOK, InsertStarted, InsertTerminal, InsertRolledBack, InsertEvent, Goto
  <2>3. TerminalGuard(q)
    BY <1>2, <2>1, <2>2 DEF Step
  <2> QED
    BY <2>3 DEF TerminalGuard, NextPhase, Goto, TypeOK
<1>3. CASE Heartbeat(q) \/ Cancel(q) \/ Crash(q)
  BY <1>3 DEF Heartbeat, Cancel, Crash, Goto, TypeOK
<1>4. CASE Expire \/ UNCHANGED vars
  BY <1>4 DEF Expire, vars
<1> QED
  BY <1>1, <1>2, <1>3, <1>4 DEF Next

\* Only two statements write the schema.
LEMMA SchemaWriters ==
    ASSUME [Next]_vars, \A p \in Procs : ~Execute(p) /\ ~Rollback(p) PROVE UNCHANGED effect
BY DEF Next, Step, Start, ReadLatest, ReadLock, AcquireInsert, AcquireSteal, ReadMaxAttempt,
       InsertStarted, InsertTerminal, InsertRolledBack, TerminalGuard, ReleaseLock,
       Heartbeat, Cancel, Crash, Expire, vars

LEMMA AppliedStep ==
    ASSUME TimelyHeartbeats, DistinctNames, AttemptInv, Holds, Newest, LatestIsNewest,
           NEW others, Fulfilled(others), AppliedBut(others), [Next]_vars
    PROVE  Fulfilled(others)' /\ AppliedBut(others)'
<1>1. TypeOK
  BY DEF AttemptInv, TypeInv
<1>2. ASSUME NEW p \in Procs, Execute(p) PROVE Fulfilled(others)' /\ AppliedBut(others)'
  <2>1. PICK res \in ExecResults(Phase(p).name, effect[idx[p]]), r \in Replies(p) :
          /\ effect' = [effect EXCEPT ![idx[p]] = IF r = "error" THEN @ ELSE res[1]]
          /\ outcome' = [outcome EXCEPT ![p] = IF r = "ok" THEN res[2] ELSE "error"]
    BY <1>2 DEF Execute
  <2>2. /\ pc[p] \in HeartbeatOn /\ UNCHANGED <<history, idx>>
        /\ \A q \in Procs : q # p => pc'[q] = pc[q]
        /\ idx[p] \in Phases
    BY <1>1, <1>2 DEF Execute, HeartbeatOn, Goto, TypeOK
  <2>3. \A i \in Phases : effect[i] = "applied" => effect'[i] = "applied"
    BY <1>1, <2>1, ExecuteFulfils DEF TypeOK
  <2>4. outcome'[p] = "nil" /\ Phase(p).name # "gate" => effect'[idx[p]] = "applied"
    BY <1>1, <2>1, <2>2, ExecuteFulfils DEF TypeOK
  <2>5. \A q \in Procs : q # p => pc'[q] \notin {"guard", "terminal"}
    BY <2>2, AloneInAttempt DEF HeartbeatOn
  <2>6. Phase(p)' = Phase(p)
    BY <2>2 DEF Phase
  <2>7. Fulfilled(others)'
    BY <2>2, <2>4, <2>5, <2>6 DEF Fulfilled
  <2> QED
    BY <2>2, <2>3, <2>7, SameLatest DEF AppliedBut
<1>3. ASSUME NEW p \in Procs, Rollback(p) PROVE Fulfilled(others)' /\ AppliedBut(others)'
  <2>1. /\ pc[p] \in HeartbeatOn /\ pc[p] \in Reverting /\ UNCHANGED <<history, idx>>
        /\ pc'[p] = "rolledback" /\ \A q \in Procs : q # p => pc'[q] = pc[q]
        /\ \A i \in Phases : i # idx[p] => effect'[i] = effect[i]
    BY <1>1, <1>3 DEF Rollback, HeartbeatOn, Reverting, Goto, TypeOK
  <2>2. \A q \in Procs : pc'[q] \notin {"guard", "terminal"}
    BY <2>1, AloneInAttempt DEF HeartbeatOn
  <2>3. LatestEvent(Migration[idx[p]].name) # "PHASE_COMPLETED"
    BY <2>1, RevertedIsNotCompleted DEF Phase
  <2>4. Fulfilled(others)'
    BY <2>2 DEF Fulfilled
  <2> QED
    BY <2>1, <2>3, <2>4, SameLatest DEF AppliedBut
<1>4. ASSUME \A p \in Procs : ~Execute(p) /\ ~Rollback(p) PROVE UNCHANGED effect /\ Fulfilled(others)'
  <2>1. UNCHANGED effect
    BY <1>4, SchemaWriters
  <2>2. ASSUME NEW q \in Procs, pc'[q] \in {"guard", "terminal"}
        PROVE  /\ pc[q] \in {"guard", "terminal"} /\ idx'[q] = idx[q] /\ outcome'[q] = outcome[q]
               /\ Phase(q)' = Phase(q)
    <3>1. pc[q] \in {"guard", "terminal"} /\ idx'[q] = idx[q] /\ outcome'[q] = outcome[q]
      BY <1>1, <1>4, <2>2, AfterExecute
    <3> QED
      BY <3>1 DEF Phase
  <2> QED
    BY <2>1, <2>2 DEF Fulfilled
<1>5. ASSUME UNCHANGED <<history, effect>> PROVE AppliedBut(others)'
  BY <1>5, SameLatest DEF AppliedBut
<1>6. ASSUME NEW p \in Procs, InsertStarted(p) \/ InsertTerminal(p) \/ InsertRolledBack(p)
      PROVE  AppliedBut(others)'
  <2>1. UNCHANGED effect
    BY <1>6, InsertCases
  <2>2. ASSUME NEW t \in EventTypes, Appends(Own(p, t)), Own(p, t) \in Events,
               t = "PHASE_COMPLETED" => outcome[p] = "nil" /\ pc[p] = "terminal"
        PROVE  AppliedBut(others)'
    <3>1. Own(p, t).phase = Phase(p).name /\ Own(p, t).type = t /\ idx[p] \in Phases
      BY <1>1 DEF Own, Event, TypeOK
    <3>2. \A name : LatestEvent(name)' = IF name = Phase(p).name THEN t ELSE LatestEvent(name)
      BY <1>1, <2>2, <3>1, LatestAfter
    <3>3. ASSUME NEW i \in Phases \ others, Migration[i].name = Phase(p).name, t = "PHASE_COMPLETED",
                 Migration[i].name # "gate"
          PROVE  effect[i] = "applied"
      <4>1. i = idx[p]
        BY <3>1, <3>3 DEF DistinctNames, Phase
      <4> QED
        BY <2>2, <3>3, <4>1 DEF Fulfilled
    <3> QED
      BY <2>1, <3>2, <3>3 DEF AppliedBut
  <2> QED
    BY <1>5, <1>6, <2>1, <2>2, InsertCases
<1>7. ASSUME \A p \in Procs : ~(InsertStarted(p) \/ InsertTerminal(p) \/ InsertRolledBack(p))
      PROVE  UNCHANGED history
  BY <1>7 DEF Next, Step, Start, ReadLatest, ReadLock, AcquireInsert, AcquireSteal, ReadMaxAttempt,
              Execute, TerminalGuard, Rollback, ReleaseLock, Heartbeat, Expire, Cancel, Crash, vars
<1> QED
  BY <1>2, <1>3, <1>4, <1>5, <1>6, <1>7

\* While heartbeats are on time, what every later command skips as completed
\* has its SQL in the schema: only its owner writes the verdict, and only an
\* attempt with another verdict is rolled back.
THEOREM CompletedHasItsEffect == Spec => []CompletedIsApplied
<1>1. CASE TimelyHeartbeats /\ DistinctNames
  <2>1. Init => Fulfilled({}) /\ AppliedBut({})
    BY DEF Init, Fulfilled, AppliedBut, LatestEvent, LatestOf, RowsOf
  <2>2. /\ AttemptInv /\ Holds /\ Newest /\ LatestIsNewest /\ Fulfilled({}) /\ AppliedBut({})
        /\ [Next]_vars
        => Fulfilled({})' /\ AppliedBut({})'
    BY <1>1, AppliedStep
  <2>3. AppliedBut({}) => CompletedIsApplied
    BY DEF AppliedBut, CompletedIsApplied
  <2> QED
    BY <1>1, <2>1, <2>2, <2>3, NewestInvariance, PTL DEF Spec
<1>2. CASE ~(TimelyHeartbeats /\ DistinctNames)
  <2>1. CompletedIsApplied
    BY <1>2 DEF CompletedIsApplied
  <2> QED
    BY <2>1, PTL
<1> QED
  BY <1>1, <1>2



-----------------------------------------------------------------------------
(* The latest event of an attempt                                          *)

LEMMA LatestOfAttempt ==
    ASSUME TypeOK, NEW name, NEW k, NEW m \in RowsOfAttempt(name, k)
    PROVE  \E n \in RowsOfAttempt(name, k) :
             /\ LatestEventForAttempt(name, k) = history[n].type
             /\ \A j \in RowsOfAttempt(name, k) : j <= n
             /\ n \in Nat /\ n \in DOMAIN history /\ history[n] \in Events
             /\ history[n].phase = name /\ history[n].attempt = k
<1> DEFINE rows == RowsOfAttempt(name, k)
<1>1. rows \in SUBSET DOMAIN history /\ rows # {}
  BY DEF RowsOfAttempt, RowsOf
<1>2. Max(rows) \in rows /\ \A j \in rows : j <= Max(rows)
  BY <1>1, LatestRow
<1>3. LatestEventForAttempt(name, k) = history[Max(rows)].type
  BY <1>1 DEF LatestEventForAttempt, LatestOf
<1>4. ASSUME NEW n \in rows
      PROVE  /\ n \in Nat /\ n \in DOMAIN history /\ history[n] \in Events
             /\ history[n].phase = name /\ history[n].attempt = k
  BY DEF RowsOfAttempt, RowsOf, TypeOK
<1> QED
  BY <1>2, <1>3, <1>4

LEMMA RecordedInAttempt ==
    ASSUME TypeOK, NEW name, NEW k, NEW t
    PROVE  Recorded(Event(name, k, t)) <=> \E m \in RowsOfAttempt(name, k) : history[m].type = t
<1>1. ASSUME Recorded(Event(name, k, t))
      PROVE  \E m \in RowsOfAttempt(name, k) : history[m].type = t
  BY <1>1 DEF Recorded, Event, RowsOfAttempt, RowsOf
<1>2. ASSUME NEW m \in RowsOfAttempt(name, k), history[m].type = t
      PROVE  Recorded(Event(name, k, t))
  BY <1>2, RecordedRow DEF RowsOfAttempt, RowsOf
<1> QED
  BY <1>1, <1>2

\* What may come before a row of an attempt, by its type.
LEMMA RowOrder ==
    ASSUME TypeOK, AttemptLifecycle, NEW name, NEW k,
           NEW n \in RowsOfAttempt(name, k), NEW m \in RowsOfAttempt(name, k), m < n
    PROVE  /\ history[n].type # "PHASE_STARTED"
           /\ history[n].type # "PHASE_ROLLED_BACK" => history[m].type \notin TerminalTypes
           /\ history[n].type = "PHASE_ROLLED_BACK" =>
                /\ history[m].type # "PHASE_ROLLED_BACK"
                /\ \E h \in RowsOfAttempt(name, k) :
                     h < n /\ history[h].type \in {"PHASE_FAILED", "PHASE_TIMED_OUT"}
<1>1. /\ n \in DOMAIN history /\ m \in DOMAIN history
      /\ history[n].phase = name /\ history[n].attempt = k /\ history[m] \in Events
  BY DEF RowsOfAttempt, RowsOf, TypeOK
<1>2. history[m].type \in EventTypes
  BY <1>1 DEF Events
<1>3. history[n].type # "PHASE_STARTED"
  BY <1>1, <1>2 DEF AttemptLifecycle
<1>4. CASE history[n].type = "PHASE_ROLLED_BACK"
  BY <1>1, <1>4 DEF AttemptLifecycle
<1>5. CASE history[n].type # "PHASE_ROLLED_BACK"
  BY <1>1, <1>3, <1>5 DEF AttemptLifecycle
<1> QED
  BY <1>3, <1>4, <1>5

\* An attempt that has started and has no verdict is open.
LEMMA StartedStatus ==
    ASSUME TypeOK, NEW name, NEW k, Recorded(Event(name, k, "PHASE_STARTED")),
           \A t \in TerminalTypes : ~Recorded(Event(name, k, t))
    PROVE  StatusOf(name, k) = "started"
<1>1. PICK m \in RowsOfAttempt(name, k) : history[m].type = "PHASE_STARTED"
  BY RecordedInAttempt
<1>2. PICK n \in RowsOfAttempt(name, k) :
        LatestEventForAttempt(name, k) = history[n].type /\ history[n] \in Events
  BY LatestOfAttempt
<1>3. history[n].type \notin TerminalTypes
  BY RecordedInAttempt
<1>4. history[n].type = "PHASE_STARTED"
  BY <1>2, <1>3 DEF Events, EventTypes
<1> QED
  BY <1>2, <1>4 DEF StatusOf

\* One that has failed and is not rolled back has the status of its failure.
LEMMA FailedStatus ==
    ASSUME TypeOK, AttemptLifecycle, NEW name, NEW k,
           Recorded(Event(name, k, "PHASE_FAILED")) \/ Recorded(Event(name, k, "PHASE_TIMED_OUT")),
           ~Recorded(Event(name, k, "PHASE_ROLLED_BACK"))
    PROVE  StatusOf(name, k) \in {"failed", "timedout"}
<1>1. PICK m \in RowsOfAttempt(name, k) : history[m].type \in {"PHASE_FAILED", "PHASE_TIMED_OUT"}
  BY RecordedInAttempt
<1>2. PICK n \in RowsOfAttempt(name, k) :
        /\ LatestEventForAttempt(name, k) = history[n].type
        /\ \A j \in RowsOfAttempt(name, k) : j <= n
        /\ n \in Nat
  BY LatestOfAttempt
<1>3. history[n].type # "PHASE_ROLLED_BACK"
  BY RecordedInAttempt
<1>4. m \in Nat
  BY DEF RowsOfAttempt, RowsOf, TypeOK
<1>5. m = n
  <2>1. SUFFICES ASSUME m < n PROVE FALSE
    BY <1>2, <1>4
  <2>2. history[m].type \notin TerminalTypes
    BY <1>3, <2>1, RowOrder
  <2> QED
    BY <1>1, <2>2 DEF TerminalTypes
<1> QED
  BY <1>1, <1>2, <1>5 DEF StatusOf

\* One that has completed stays completed.
LEMMA CompletedStatus ==
    ASSUME TypeOK, AttemptLifecycle, NEW name, NEW k, Recorded(Event(name, k, "PHASE_COMPLETED"))
    PROVE  StatusOf(name, k) = "completed"
<1>1. PICK m \in RowsOfAttempt(name, k) : history[m].type = "PHASE_COMPLETED"
  BY RecordedInAttempt
<1>2. PICK n \in RowsOfAttempt(name, k) :
        /\ LatestEventForAttempt(name, k) = history[n].type
        /\ \A j \in RowsOfAttempt(name, k) : j <= n
        /\ n \in Nat
  BY LatestOfAttempt
<1>3. \A j \in RowsOfAttempt(name, k) : j \in Nat
  BY DEF RowsOfAttempt, RowsOf, TypeOK
<1>4. m = n
  <2>1. SUFFICES ASSUME m < n PROVE FALSE
    BY <1>2, <1>3
  <2>2. CASE history[n].type # "PHASE_ROLLED_BACK"
    BY <1>1, <2>1, <2>2, RowOrder DEF TerminalTypes
  <2>3. CASE history[n].type = "PHASE_ROLLED_BACK"
    <3>1. PICK h \in RowsOfAttempt(name, k) : history[h].type \in {"PHASE_FAILED", "PHASE_TIMED_OUT"}
      BY <2>1, <2>3, RowOrder
    <3>2. CASE h < m
      BY <1>1, <3>1, <3>2, RowOrder DEF TerminalTypes
    <3>3. CASE m < h
      BY <1>1, <3>1, <3>3, RowOrder DEF TerminalTypes
    <3>4. h # m
      BY <1>1, <3>1
    <3> QED
      BY <1>3, <3>2, <3>3, <3>4
  <2> QED
    BY <2>2, <2>3
<1> QED
  BY <1>1, <1>2, <1>4 DEF StatusOf

-----------------------------------------------------------------------------
(* What an event does to the ledger                                        *)

LEMMA StatusAfter ==
    ASSUME TypeInv, NEW e \in Events, Appends(e), NEW name, NEW k
    PROVE  StatusOf(name, k)' =
             IF name = e.phase /\ k = e.attempt
               THEN [PHASE_STARTED |-> "started", PHASE_COMPLETED |-> "completed",
                     PHASE_FAILED |-> "failed", PHASE_TIMED_OUT |-> "timedout",
                     PHASE_ROLLED_BACK |-> "rolledback", none |-> "none"][e.type]
               ELSE StatusOf(name, k)
<1>1. PICK L \in Nat :
        /\ DOMAIN history' = DOMAIN history \cup {L} /\ L \notin DOMAIN history
        /\ \A n \in DOMAIN history : n \in Nat /\ n < L /\ history'[n] = history[n]
        /\ history'[L] = e
  BY AppendsNew DEF TypeInv
<1>2. CASE name = e.phase /\ k = e.attempt
  <2> DEFINE R == RowsOfAttempt(name, k) \cup {L}
  <2>1. RowsOfAttempt(name, k)' = R
    BY <1>1, <1>2 DEF RowsOfAttempt, RowsOf
  <2>2. R \in SUBSET Nat /\ L \in R /\ \A n \in R : n <= L
    BY <1>1 DEF RowsOfAttempt, RowsOf
  <2>3. Max(R) \in R /\ \A n \in R : n <= Max(R)
    BY <2>2, MaxOfBounded
  <2>4. Max(R) = L
    <3>1. Max(R) <= L /\ L <= Max(R) /\ Max(R) \in Nat
      BY <2>2, <2>3
    <3> QED
      BY <3>1
  <2>5. LatestEventForAttempt(name, k)' = e.type
    BY <1>1, <2>1, <2>4 DEF LatestEventForAttempt, LatestOf
  <2> QED
    BY <1>2, <2>5 DEF StatusOf
<1>3. CASE ~(name = e.phase /\ k = e.attempt)
  <2>1. RowsOfAttempt(name, k)' = RowsOfAttempt(name, k)
    BY <1>1, <1>3 DEF RowsOfAttempt, RowsOf
  <2>2. LatestEventForAttempt(name, k)' = LatestEventForAttempt(name, k)
    <3>1. CASE RowsOfAttempt(name, k) = {}
      BY <2>1, <3>1 DEF LatestEventForAttempt, LatestOf
    <3>2. CASE RowsOfAttempt(name, k) # {}
      <4>1. Max(RowsOfAttempt(name, k)) \in DOMAIN history
        BY <3>2, LatestRow DEF RowsOfAttempt, RowsOf, TypeInv
      <4> QED
        BY <1>1, <2>1, <4>1 DEF LatestEventForAttempt, LatestOf
    <3> QED
      BY <3>1, <3>2
  <2> QED
    BY <1>3, <2>2 DEF StatusOf
<1> QED
  BY <1>2, <1>3

PhaseNamesUsed == {Names[i] : i \in Phases}

\* An event of an attempt that the ledger has changes this attempt's status.
LEMMA LedgerChange ==
    ASSUME TypeInv, NEW e \in Events, Appends(e), e.phase \in PhaseNamesUsed,
           MaxAttemptNumber(e.phase) \in Nat, e.attempt \in 1 .. MaxAttemptNumber(e.phase),
           MaxAttemptNumber(e.phase)' = MaxAttemptNumber(e.phase),
           \A name : name # e.phase => MaxAttemptNumber(name)' = MaxAttemptNumber(name)
    PROVE  /\ e.attempt \in DOMAIN ledgerOfHistory[e.phase]
           /\ ledgerOfHistory[e.phase][e.attempt] = StatusOf(e.phase, e.attempt)
           /\ ledgerOfHistory' = [ledgerOfHistory EXCEPT
                                    ![e.phase][e.attempt] = StatusOf(e.phase, e.attempt)']
<1> DEFINE row(name) == [k \in 1 .. MaxAttemptNumber(name) |-> StatusOf(name, k)]
<1>1. ledgerOfHistory = [name \in PhaseNamesUsed |-> row(name)]
  BY DEF ledgerOfHistory, PhaseNamesUsed
<1>2. ledgerOfHistory' = [name \in PhaseNamesUsed |-> row(name)']
  BY DEF ledgerOfHistory, PhaseNamesUsed, Names, Phases
<1>3. \A name : name # e.phase => row(name)' = row(name)
  <2>1. \A name, k : name # e.phase => StatusOf(name, k)' = StatusOf(name, k)
    BY StatusAfter
  <2> QED
    BY <2>1
<1>4. row(e.phase)' = [row(e.phase) EXCEPT ![e.attempt] = StatusOf(e.phase, e.attempt)']
  <2>1. \A k : k # e.attempt => StatusOf(e.phase, k)' = StatusOf(e.phase, k)
    BY StatusAfter
  <2> QED
    BY <2>1
<1> HIDE DEF row
<1>5. ledgerOfHistory' =
        [ledgerOfHistory EXCEPT ![e.phase] = [@ EXCEPT ![e.attempt] = StatusOf(e.phase, e.attempt)']]
  BY <1>1, <1>2, <1>3, <1>4
<1> QED
  BY <1>1, <1>5 DEF row

LEMMA AppendIsExtension ==
    ASSUME NEW n \in Nat, NEW f, f = [k \in 1 .. n |-> f[k]], NEW x
    PROVE  Append(f, x) = [k \in 1 .. (n + 1) |-> IF k = n + 1 THEN x ELSE f[k]]
<1> DEFINE S == {f[k] : k \in 1 .. n} \cup {x}
<1>1. f \in Seq(S) /\ Len(f) = n
  OBVIOUS
<1>2. /\ Append(f, x) \in Seq(S) /\ Len(Append(f, x)) = n + 1
      /\ \A k \in 1 .. n : Append(f, x)[k] = f[k]
      /\ Append(f, x)[n + 1] = x
  BY <1>1, AppendProperties
<1> HIDE DEF S
<1>3. Append(f, x) = [k \in 1 .. (n + 1) |-> Append(f, x)[k]]
  BY <1>2
<1>4. \A k \in 1 .. (n + 1) : Append(f, x)[k] = IF k = n + 1 THEN x ELSE f[k]
  BY <1>2
<1> QED
  BY <1>3, <1>4

\* The first event of the next attempt appends to the ledger.
LEMMA LedgerOpen ==
    ASSUME TypeInv, NEW e \in Events, Appends(e), e.phase \in PhaseNamesUsed,
           MaxAttemptNumber(e.phase) \in Nat, e.attempt = MaxAttemptNumber(e.phase) + 1,
           MaxAttemptNumber(e.phase)' = e.attempt, e.type = "PHASE_STARTED",
           \A name : name # e.phase => MaxAttemptNumber(name)' = MaxAttemptNumber(name)
    PROVE  ledgerOfHistory' =
             [ledgerOfHistory EXCEPT ![e.phase] = Append(@, "started")]
<1> DEFINE row(name) == [k \in 1 .. MaxAttemptNumber(name) |-> StatusOf(name, k)]
<1>1. ledgerOfHistory = [name \in PhaseNamesUsed |-> row(name)]
  BY DEF ledgerOfHistory, PhaseNamesUsed
<1>2. ledgerOfHistory' = [name \in PhaseNamesUsed |-> row(name)']
  BY DEF ledgerOfHistory, PhaseNamesUsed, Names, Phases
<1>3. \A name : name # e.phase => row(name)' = row(name)
  <2>1. \A name, k : name # e.phase => StatusOf(name, k)' = StatusOf(name, k)
    BY StatusAfter
  <2> QED
    BY <2>1
<1>4. row(e.phase)' = Append(row(e.phase), "started")
  <2> DEFINE old == row(e.phase)
             new == row(e.phase)'
  <2>1. /\ \A k : k # e.attempt => StatusOf(e.phase, k)' = StatusOf(e.phase, k)
        /\ StatusOf(e.phase, e.attempt)' = "started"
    BY StatusAfter
  <2>2. PICK n \in Nat : n = MaxAttemptNumber(e.phase) /\ e.attempt = n + 1
    OBVIOUS
  <2>3. old = [k \in 1 .. n |-> StatusOf(e.phase, k)]
    BY <2>2
  <2>4. new = [k \in 1 .. (n + 1) |-> IF k = n + 1 THEN "started" ELSE old[k]]
    BY <2>1, <2>2, <2>3
  <2> HIDE DEF old, new
  <2>5. old = [k \in 1 .. n |-> old[k]]
    BY <2>3
  <2>6. new = Append(old, "started")
    BY <2>2, <2>4, <2>5, AppendIsExtension
  <2> QED
    BY <2>6 DEF old, new
<1> HIDE DEF row
<1> QED
  BY <1>1, <1>2, <1>3, <1>4


-----------------------------------------------------------------------------
(* The refinement                                                          *)

LEMMA OwnFields ==
    ASSUME TypeOK, NEW p \in Procs, NEW t \in EventTypes
    PROVE  /\ Own(p, t) \in Events /\ Own(p, t).phase = Phase(p).name
           /\ Own(p, t).attempt = attempt[p] /\ Own(p, t).type = t
           /\ Phase(p).name \in PhaseNamesUsed /\ Names[idx[p]] = Phase(p).name
           /\ idx[p] \in Phases
BY EventType DEF Own, Event, TypeOK, PhaseNamesUsed, Names, Phase

\* Attempts are numbered from 1.
Positive == \A n \in DOMAIN history : history[n].attempt >= 1

LEMMA PositiveStep ==
    ASSUME AttemptInv, Positive, [Next]_vars PROVE Positive'
<1>1. TypeOK
  BY DEF AttemptInv, TypeInv
<1>2. CASE \A p \in Procs : ~AttemptStep(p)
  BY <1>2, OtherStep DEF AttemptInv, Positive
<1>3. ASSUME NEW p \in Procs, ReadMaxAttempt(p) PROVE Positive'
  BY <1>3 DEF ReadMaxAttempt, Positive
<1>4. ASSUME NEW p \in Procs, NEW t \in EventTypes, Appends(Own(p, t)), attempt[p] >= 1
      PROVE  Positive'
  BY <1>1, <1>4, OwnFields, AppendsRows DEF Positive
<1>5. ASSUME UNCHANGED history PROVE Positive'
  BY <1>5 DEF Positive
<1>6. ASSUME NEW p \in Procs, InsertStarted(p) PROVE Positive'
  <2>1. attempt[p] >= 1 /\ "PHASE_STARTED" \in EventTypes
    BY <1>6 DEF InsertStarted, AttemptInv, Knows, NextNumber, EventTypes
  <2>2. Appends(Own(p, "PHASE_STARTED")) \/ UNCHANGED history
    BY <1>6, InsertEventCases DEF InsertStarted, Own
  <2> QED
    BY <1>4, <1>5, <2>1, <2>2
<1>7. ASSUME NEW p \in Procs, InsertTerminal(p) \/ InsertRolledBack(p) PROVE Positive'
  <2>1. pc[p] \in HeartbeatOn
    BY <1>7 DEF InsertTerminal, InsertRolledBack, HeartbeatOn
  <2>2. PICK n \in DOMAIN history : history[n] = Own(p, "PHASE_STARTED")
    BY <2>1 DEF AttemptInv, Knows, Owned, Recorded
  <2>3. attempt[p] >= 1
    BY <2>2 DEF Positive, Own, Event
  <2>4. Verdict(outcome[p]) \in EventTypes /\ "PHASE_ROLLED_BACK" \in EventTypes
    BY <1>1 DEF TypeOK, Verdict, EventTypes, TerminalTypes
  <2>5. \/ Appends(Own(p, Verdict(outcome[p]))) \/ Appends(Own(p, "PHASE_ROLLED_BACK"))
        \/ UNCHANGED history
    BY <1>7, InsertEventCases DEF InsertTerminal, InsertRolledBack, Own
  <2> QED
    BY <1>4, <1>5, <2>3, <2>4, <2>5
<1> QED
  BY <1>2, <1>3, <1>6, <1>7 DEF AttemptStep

\* The number of an attempt that has started is one of the ledger's.
LEMMA StartedNumber ==
    ASSUME AttemptInv, Positive, NEW p \in Procs, Recorded(Own(p, "PHASE_STARTED"))
    PROVE  attempt[p] \in 1 .. MaxAttemptNumber(Phase(p).name)
<1>1. PICK n \in DOMAIN history : history[n] = Own(p, "PHASE_STARTED")
  BY DEF Recorded
<1>2. n \in RowsOf(Phase(p).name) /\ history[n].attempt = attempt[p]
  BY <1>1 DEF RowsOf, Own, Event
<1>3. attempt[p] <= MaxAttemptNumber(Phase(p).name) /\ MaxAttemptNumber(Phase(p).name) \in Nat
  BY <1>2, MaxAttempt DEF AttemptInv, TypeInv, TypeOK
<1>4. attempt[p] \in Nat /\ attempt[p] >= 1
  BY <1>1, <1>2 DEF AttemptInv, TypeInv, TypeOK, Positive
<1> QED
  BY <1>3, <1>4

\* A phase with a PHASE_COMPLETED has a completed attempt in the ledger.
LEMMA CompletedInLedger ==
    ASSUME AttemptInv, Positive, NEW name \in PhaseNamesUsed, Completed(name)
    PROVE  Abstract!HasCompleted(name)
<1>1. PICK n \in RowsOf(name) : history[n].type = "PHASE_COMPLETED"
  BY DEF Completed
<1> DEFINE k == history[n].attempt
<1>2. n \in DOMAIN history /\ history[n].phase = name
  BY DEF RowsOf
<1>3. Recorded(Event(name, k, "PHASE_COMPLETED"))
  BY <1>1, <1>2, RecordedRow DEF AttemptInv, TypeInv
<1>4. StatusOf(name, k) = "completed"
  BY <1>3, CompletedStatus DEF AttemptInv, TypeInv
<1>5. k \in 1 .. MaxAttemptNumber(name)
  <2>1. k \in Nat /\ k >= 1
    <3>1. history[n] \in Events
      BY <1>2, RecordedRow DEF AttemptInv, TypeInv
    <3> QED
      BY <1>2, <3>1 DEF Events, Positive
  <2>2. k <= MaxAttemptNumber(name) /\ MaxAttemptNumber(name) \in Nat
    BY MaxAttempt DEF AttemptInv, TypeInv, TypeOK
  <2> QED
    BY <2>1, <2>2
<1>6. ledgerOfHistory[name] = [j \in 1 .. MaxAttemptNumber(name) |-> StatusOf(name, j)]
  BY DEF ledgerOfHistory, PhaseNamesUsed
<1> QED
  BY <1>4, <1>5, <1>6 DEF Abstract!HasCompleted

LEMMA SameLedger ==
    ASSUME UNCHANGED history PROVE ledgerOfHistory' = ledgerOfHistory
BY DEF ledgerOfHistory, StatusOf, LatestEventForAttempt, LatestOf, MaxAttemptNumber,
       RowsOfAttempt, RowsOf, Names, Phases

\* A later event of an attempt that the ledger has.
LEMMA OwnChange ==
    ASSUME AttemptInv, Positive, NEW p \in Procs, NEW t \in EventTypes, Appends(Own(p, t)),
           Recorded(Own(p, "PHASE_STARTED")),
           NEW from, StatusOf(Phase(p).name, attempt[p]) \in from,
           NEW to, to = [PHASE_STARTED |-> "started", PHASE_COMPLETED |-> "completed",
                         PHASE_FAILED |-> "failed", PHASE_TIMED_OUT |-> "timedout",
                         PHASE_ROLLED_BACK |-> "rolledback", none |-> "none"][t]
    PROVE  /\ Abstract!Change(Phase(p).name, attempt[p], from, to)
           /\ Phase(p).name \in Abstract!PhaseSet
           /\ attempt[p] \in DOMAIN ledgerOfHistory[Phase(p).name]
<1> PICK e : e = Own(p, t)
  OBVIOUS
<1>1. TypeInv /\ TypeOK
  BY DEF AttemptInv, TypeInv
<1>2. /\ e \in Events /\ e.phase = Phase(p).name /\ e.attempt = attempt[p] /\ e.type = t
      /\ e.phase \in PhaseNamesUsed
  BY <1>1, OwnFields
<1>3. e.attempt \in 1 .. MaxAttemptNumber(e.phase) /\ MaxAttemptNumber(e.phase) \in Nat
  BY <1>1, <1>2, StartedNumber, MaxAttempt DEF TypeOK
<1>4. Appends(e)
  OBVIOUS
<1>5. \A name : MaxAttemptNumber(name)' = MaxAttemptNumber(name)
  <2>1. ASSUME NEW name PROVE MaxAttemptNumber(name)' = MaxAttemptNumber(name)
    <3>1. MaxAttemptNumber(name)' = IF name = e.phase /\ e.attempt >= MaxAttemptNumber(name)
                                      THEN e.attempt ELSE MaxAttemptNumber(name)
      BY <1>1, <1>2, <1>4, MaxAfter
    <3> QED
      BY <1>3, <3>1
  <2> QED
    BY <2>1
<1>6. StatusOf(e.phase, e.attempt)' = to
  BY <1>1, <1>2, <1>4, StatusAfter
<1>7. /\ e.attempt \in DOMAIN ledgerOfHistory[e.phase]
      /\ ledgerOfHistory[e.phase][e.attempt] = StatusOf(e.phase, e.attempt)
      /\ ledgerOfHistory' = [ledgerOfHistory EXCEPT
                               ![e.phase][e.attempt] = StatusOf(e.phase, e.attempt)']
  BY <1>1, <1>2, <1>3, <1>4, <1>5, LedgerChange
<1>8. Phase(p).name \in Abstract!PhaseSet
  BY <1>1, OwnFields DEF Abstract!PhaseSet, PhaseNamesUsed, Names
<1> QED
  BY <1>2, <1>6, <1>7, <1>8 DEF Abstract!Change

LEMMA OpenStep ==
    ASSUME OrderInv, Positive, NEW p \in Procs, InsertStarted(p)
    PROVE  [Abstract!Next]_ledgerOfHistory
<1> PICK e, name : e = Own(p, "PHASE_STARTED") /\ name = Phase(p).name
  OBVIOUS
<1>1. AttemptInv /\ TypeInv /\ TypeOK
  BY DEF OrderInv, AttemptInv, TypeInv
<1>2. Appends(e) \/ UNCHANGED history
  BY InsertEventCases DEF InsertStarted, Own
<1>3. CASE UNCHANGED history
  BY <1>3, SameLedger
<1>4. CASE Appends(e)
  <2>1. /\ e \in Events /\ e.phase = name /\ e.attempt = attempt[p] /\ e.type = "PHASE_STARTED"
        /\ name \in PhaseNamesUsed /\ Names[idx[p]] = name /\ idx[p] \in Phases
    BY <1>1, OwnFields DEF EventTypes
  <2>2. MaxAttemptNumber(name) \in Nat /\ attempt[p] \in Nat
    BY <1>1, MaxAttempt DEF TypeOK
  <2>3. /\ attempt[p] >= 1
        /\ \A k \in 1 .. (attempt[p] - 1) : Recorded(Event(name, k, "PHASE_STARTED"))
    BY <1>1 DEF InsertStarted, AttemptInv, Knows, NextNumber
  <2>4. ~Recorded(Event(name, attempt[p], "PHASE_STARTED"))
    BY <1>4 DEF Appends, Own
  <2>5. ~(attempt[p] <= MaxAttemptNumber(name))
    BY <1>1, <2>2, <2>3, <2>4, MaxStarted
  <2>6. ~(attempt[p] > MaxAttemptNumber(name) + 1)
    <3>1. SUFFICES ASSUME attempt[p] > MaxAttemptNumber(name) + 1 PROVE FALSE
      OBVIOUS
    <3>2. Recorded(Event(name, attempt[p] - 1, "PHASE_STARTED"))
      BY <2>2, <2>3, <3>1
    <3>3. PICK n \in DOMAIN history : history[n] = Event(name, attempt[p] - 1, "PHASE_STARTED")
      BY <3>2 DEF Recorded
    <3>4. n \in RowsOf(name) /\ history[n].attempt = attempt[p] - 1
      BY <3>3 DEF RowsOf, Event
    <3>5. attempt[p] - 1 <= MaxAttemptNumber(name)
      BY <1>1, <3>4, MaxAttempt
    <3> QED
      BY <2>2, <3>1, <3>5
  <2>7. e.attempt = MaxAttemptNumber(e.phase) + 1
    BY <2>1, <2>2, <2>5, <2>6
  <2>8. /\ MaxAttemptNumber(e.phase)' = e.attempt
        /\ \A nm : nm # e.phase => MaxAttemptNumber(nm)' = MaxAttemptNumber(nm)
    BY <1>1, <1>4, <2>1, <2>2, <2>7, MaxAfter
  <2>9. ledgerOfHistory' = [ledgerOfHistory EXCEPT ![name] = Append(@, "started")]
    BY <1>1, <1>4, <2>1, <2>2, <2>7, <2>8, LedgerOpen
  <2>10. ASSUME NEW j \in 1 .. (idx[p] - 1) PROVE Abstract!HasCompleted(Names[j])
    <3>1. j \in Phases /\ Completed(Names[j])
      BY <2>1 DEF OrderInv, Passed, Names, Phases
    <3>2. Names[j] \in PhaseNamesUsed
      BY <3>1 DEF PhaseNamesUsed
    <3> QED
      BY <1>1, <3>1, <3>2, CompletedInLedger
  <2>11. Abstract!Open(idx[p])
    BY <2>1, <2>9, <2>10 DEF Abstract!Open
  <2>12. idx[p] \in DOMAIN Names
    BY <2>1 DEF Names
  <2> QED
    BY <2>11, <2>12 DEF Abstract!Next
<1> QED
  BY <1>2, <1>3, <1>4

LEMMA SettleStep ==
    ASSUME AttemptInv, Positive, NEW p \in Procs, InsertTerminal(p)
    PROVE  [Abstract!Next]_ledgerOfHistory
<1> DEFINE t == Verdict(outcome[p])
<1>1. TypeInv /\ TypeOK
  BY DEF AttemptInv, TypeInv
<1>2. t \in {"PHASE_COMPLETED", "PHASE_FAILED", "PHASE_TIMED_OUT"} /\ t \in EventTypes
  BY <1>1 DEF TypeOK, Verdict, EventTypes, TerminalTypes
<1>3. Appends(Own(p, t)) \/ UNCHANGED history
  BY InsertEventCases DEF InsertTerminal, Own
<1>4. Recorded(Own(p, "PHASE_STARTED")) /\ \A v \in TerminalTypes : ~Recorded(Own(p, v))
  <2>1. pc[p] \in HeartbeatOn /\ pc[p] \in Judging
    BY DEF InsertTerminal, HeartbeatOn, Judging
  <2> QED
    BY <2>1 DEF AttemptInv, Knows, Owned, Undecided
<1>5. StatusOf(Phase(p).name, attempt[p]) \in {"started"}
  BY <1>1, <1>4, StartedStatus DEF Own
<1> HIDE DEF t
<1>6. CASE Appends(Own(p, t))
  <2> DEFINE to == [PHASE_STARTED |-> "started", PHASE_COMPLETED |-> "completed",
                    PHASE_FAILED |-> "failed", PHASE_TIMED_OUT |-> "timedout",
                    PHASE_ROLLED_BACK |-> "rolledback", none |-> "none"][t]
  <2>1. to \in {"completed", "failed", "timedout"}
    BY <1>2
  <2>2. /\ Abstract!Change(Phase(p).name, attempt[p], {"started"}, to)
        /\ Phase(p).name \in Abstract!PhaseSet
        /\ attempt[p] \in DOMAIN ledgerOfHistory[Phase(p).name]
    BY <1>2, <1>4, <1>5, <1>6, OwnChange
  <2> HIDE DEF to
  <2>3. Abstract!Settle(Phase(p).name, attempt[p])
    BY <2>1, <2>2 DEF Abstract!Settle
  <2> QED
    BY <2>2, <2>3 DEF Abstract!Next
<1> QED
  BY <1>3, <1>6, SameLedger

LEMMA UndoStep ==
    ASSUME AttemptInv, Positive, NEW p \in Procs, InsertRolledBack(p)
    PROVE  [Abstract!Next]_ledgerOfHistory
<1>1. TypeInv /\ TypeOK /\ "PHASE_ROLLED_BACK" \in EventTypes
  BY DEF AttemptInv, TypeInv, EventTypes, TerminalTypes
<1>2. Appends(Own(p, "PHASE_ROLLED_BACK")) \/ UNCHANGED history
  BY InsertEventCases DEF InsertRolledBack, Own
<1>3. /\ Recorded(Own(p, "PHASE_STARTED"))
      /\ Recorded(Own(p, "PHASE_FAILED")) \/ Recorded(Own(p, "PHASE_TIMED_OUT"))
      /\ ~Recorded(Own(p, "PHASE_ROLLED_BACK"))
  <2>1. pc[p] \in HeartbeatOn /\ pc[p] \in Reverting
    BY DEF InsertRolledBack, HeartbeatOn, Reverting
  <2> QED
    BY <2>1 DEF AttemptInv, Knows, Owned, Undoing
<1>4. StatusOf(Phase(p).name, attempt[p]) \in {"failed", "timedout"}
  BY <1>1, <1>3, FailedStatus DEF Own, AttemptInv
<1>5. CASE Appends(Own(p, "PHASE_ROLLED_BACK"))
  <2>1. /\ Abstract!Change(Phase(p).name, attempt[p], {"failed", "timedout"}, "rolledback")
        /\ Phase(p).name \in Abstract!PhaseSet
        /\ attempt[p] \in DOMAIN ledgerOfHistory[Phase(p).name]
    BY <1>1, <1>3, <1>4, <1>5, OwnChange
  <2>2. Abstract!Undo(Phase(p).name, attempt[p])
    BY <2>1 DEF Abstract!Undo
  <2> QED
    BY <2>1, <2>2 DEF Abstract!Next
<1> QED
  BY <1>2, <1>5, SameLedger

LEMMA LedgerStep ==
    ASSUME OrderInv, Positive, [Next]_vars PROVE [Abstract!Next]_ledgerOfHistory
<1>1. AttemptInv /\ TypeInv
  BY DEF OrderInv, AttemptInv
<1>2. CASE \A p \in Procs : ~AttemptStep(p)
  BY <1>1, <1>2, OtherStep, SameLedger
<1>3. ASSUME NEW p \in Procs, ReadMaxAttempt(p) PROVE [Abstract!Next]_ledgerOfHistory
  BY <1>3, SameLedger DEF ReadMaxAttempt
<1> QED
  BY <1>1, <1>2, <1>3, OpenStep, SettleStep, UndoStep DEF AttemptStep

LEMMA LedgerInit == Init => Positive /\ Abstract!Init
<1> SUFFICES ASSUME Init PROVE Positive /\ Abstract!Init
  OBVIOUS
<1>1. Positive /\ \A name : MaxAttemptNumber(name) = 0
  BY DEF Init, Positive, MaxAttemptNumber, RowsOf
<1>2. \A name : [k \in 1 .. MaxAttemptNumber(name) |-> StatusOf(name, k)] = << >>
  BY <1>1
<1>3. DOMAIN Names = Phases
  BY DEF Names
<1> QED
  BY <1>1, <1>2, <1>3 DEF Abstract!Init, Abstract!PhaseSet, ledgerOfHistory

\* The table of events implements the ledger of attempts, for any invocations,
\* migration and faults, and whatever happens to the lock.
THEOREM LedgerImplemented == Spec => ImplementsLedger
<1>1. Init => Positive /\ Abstract!Init
  BY LedgerInit
<1>2. OrderInv /\ Positive /\ [Next]_vars => Positive'
  BY PositiveStep DEF OrderInv
<1>3. OrderInv /\ Positive /\ [Next]_vars => [Abstract!Next]_ledgerOfHistory
  BY LedgerStep
<1> QED
  BY <1>1, <1>2, <1>3, OrderInvariance, PTL DEF Spec, ImplementsLedger, Abstract!Spec

=============================================================================
