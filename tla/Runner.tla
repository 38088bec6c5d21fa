------------------------------- MODULE Runner -------------------------------
(***************************************************************************)
(* The runner of phasedb (internal/runner) over its MySQL store            *)
(* (internal/store): several invocations of `phasedb run` and `phasedb     *)
(* resume` drive ONE migration through its phases.  They share nothing but *)
(* the database: the append-only PHASEDB_HISTORY table, the migration's    *)
(* row of PHASEDB_LOCKS, and the user's schema.                            *)
(*                                                                         *)
(* Every action of an invocation is one statement it sends to the server,  *)
(* with the code up to the next statement, so everything another           *)
(* invocation, the passing of time or a fault can do happens in between.   *)
(*                                                                         *)
(* An invocation is used once (its identity host:pid is not reused), so    *)
(* the number of attempts is bounded by the number of invocations.         *)
(***************************************************************************)
EXTENDS Naturals, Sequences, FiniteSets, FiniteSetsExt, Results

CONSTANTS
    Procs,            \* the invocations of the tool, named by their process id
    Nobody,           \* the holder of a lock row that does not exist
    Migration,        \* the phases, in the order of the migration file
    Faults,           \* which faults the environment may inject
    TimelyHeartbeats  \* whether a working invocation always refreshes in time

PhaseNames == {"expand", "backfill", "gate", "contract"}

ASSUME NobodyAssumption == Nobody \notin Procs
ASSUME MigrationAssumption ==
    /\ Migration \in Seq([name : STRING, onFailure : STRING, rollbackSQL : BOOLEAN])
    /\ Migration # << >>
ASSUME FaultsAssumption == Faults \subseteq {"crash", "sigterm", "dberror", "lostack"}
ASSUME TimelyAssumption == TimelyHeartbeats \in BOOLEAN

Phases == 1 .. Len(Migration)

TerminalTypes == {"PHASE_COMPLETED", "PHASE_FAILED", "PHASE_TIMED_OUT", "PHASE_ROLLED_BACK"}
EventTypes == TerminalTypes \cup {"PHASE_STARTED"}

VARIABLES
    history,    \* PHASEDB_HISTORY, in the order of the ID column
    lock,       \* the migration's row of PHASEDB_LOCKS; live: not yet expired
    effect,     \* what the SQL of each phase has left in the user's schema
    pc,         \* the statement each invocation is about to send
    resume,     \* ResumeMode: TRUE for `phasedb resume`
    idx,        \* the phase in hand
    latest,     \* the type of the event LatestEvent returned, or "none"
    attempt,    \* the number of the attempt in hand
    outcome,    \* what Execute returned
    cancelled,  \* whether the context of the invocation is cancelled
    lockLost    \* whether the heartbeat goroutine stopped with ErrLockLost

vars == <<history, lock, effect, pc, resume, idx, latest, attempt, outcome,
          cancelled, lockLost>>

NoLock == [holder |-> Nobody, live |-> FALSE]

-----------------------------------------------------------------------------
(* The store: PHASEDB_HISTORY                                              *)

Event(name, k, type) == [phase |-> name, attempt |-> k, type |-> type]

Events == [phase : STRING, attempt : Nat, type : EventTypes]

Recorded(e) == \E n \in DOMAIN history : history[n] = e

\* The rows of a phase, and of an attempt of it, by their position (the ID).
RowsOf(name) == {n \in DOMAIN history : history[n].phase = name}
RowsOfAttempt(name, k) == {n \in RowsOf(name) : history[n].attempt = k}

LatestOf(rows) == IF rows = {} THEN "none" ELSE history[Max(rows)].type

LatestEvent(name) == LatestOf(RowsOf(name))
LatestEventForAttempt(name, k) == LatestOf(RowsOfAttempt(name, k))

\* Mutant: counts the rows instead of taking the largest number.
CountRows(name) == Cardinality(RowsOf(name))

MaxAttemptNumber(name) ==
    IF RowsOf(name) = {} THEN 0 ELSE Max({history[n].attempt : n \in RowsOf(name)})

IsTerminal(type) == type \in TerminalTypes

-----------------------------------------------------------------------------
(* The state machine of a phase                                            *)

\* Mutant: takes any terminal event for the end of the phase.
TerminalIsCompleted(type, row) ==
    CASE type \in TerminalTypes  -> "Completed"
      [] type = "PHASE_STARTED"  -> IF row.live THEN "Running" ELSE "Orphaned"
      [] OTHER                   -> "Pending"

DetermineState(type, row) ==
    CASE type = "PHASE_COMPLETED"   -> "Completed"
      [] type = "PHASE_FAILED"      -> "Failed"
      [] type = "PHASE_TIMED_OUT"   -> "TimedOut"
      [] type = "PHASE_ROLLED_BACK" -> "RolledBack"
      [] type = "PHASE_STARTED"     -> IF row.live THEN "Running" ELSE "Orphaned"
      [] OTHER                      -> "Pending"

\* The states CheckStateGate lets past it (Completed never reaches it).
CheckStateGate(state, resumeMode) ==
    \/ state \in {"Pending", "RolledBack"}
    \/ state \in {"Orphaned", "Failed", "TimedOut"} /\ resumeMode

-----------------------------------------------------------------------------
(* The faults of a statement: it is answered; it fails and leaves nothing  *)
(* behind; or it takes effect and the answer is lost (a connection that    *)
(* breaks, or a context cancelled while the statement is in flight).       *)

Replies(p) ==
    (IF cancelled[p] THEN {} ELSE {"ok"})
      \cup (IF cancelled[p] \/ "dberror" \in Faults THEN {"error"} ELSE {})
      \cup (IF ~cancelled[p] /\ "lostack" \in Faults THEN {"lost"} ELSE {})

Goto(p, label) == pc' = [pc EXCEPT ![p] = label]

Phase(p) == Migration[idx[p]]

\* Mutants: the loop does not advance; the loop goes one phase too far.
SamePhase(p) ==
    IF idx[p] < Len(Migration)
      THEN Goto(p, "latest") /\ UNCHANGED idx
      ELSE Goto(p, "done") /\ UNCHANGED idx
OnePhaseMore(p) ==
    IF idx[p] <= Len(Migration)
      THEN Goto(p, "latest") /\ idx' = [idx EXCEPT ![p] = @ + 1]
      ELSE Goto(p, "done") /\ UNCHANGED idx

\* Run's loop: the next phase, or the end of the migration.
NextPhase(p) ==
    IF idx[p] < Len(Migration)
      THEN Goto(p, "latest") /\ idx' = [idx EXCEPT ![p] = @ + 1]
      ELSE Goto(p, "done") /\ UNCHANGED idx

\* Mutant: a history table without its unique key.
InsertWithoutKey(p, e, okay, bad) ==
    \E r \in Replies(p) :
      /\ history' = IF r # "error" THEN Append(history, e) ELSE history
      /\ Goto(p, IF r = "ok" THEN okay ELSE bad)

\* InsertEvent: the unique key (migration, phase, attempt, type) refuses a
\* second copy; okay and bad are where the invocation goes on from here.
InsertEvent(p, e, okay, bad) ==
    \E r \in Replies(p) :
      /\ history' = IF r # "error" /\ ~Recorded(e) THEN Append(history, e) ELSE history
      /\ Goto(p, IF r = "ok" /\ ~Recorded(e) THEN okay ELSE bad)

-----------------------------------------------------------------------------
(* One invocation                                                          *)

\* The command line chooses the mode; EnsureSchema creates what is missing.
Start(p) ==
    /\ pc[p] = "idle"
    /\ \E mode \in BOOLEAN : resume' = [resume EXCEPT ![p] = mode]
    /\ \E r \in Replies(p) : Goto(p, IF r = "ok" THEN "latest" ELSE "failed")
    /\ UNCHANGED <<history, lock, effect, idx, latest, attempt, outcome, cancelled, lockLost>>

ReadLatest(p) ==
    /\ pc[p] = "latest"
    /\ \E r \in Replies(p) : Goto(p, IF r = "ok" THEN "getlock" ELSE "failed")
    /\ latest' = [latest EXCEPT ![p] = LatestEvent(Phase(p).name)]
    /\ UNCHANGED <<history, lock, effect, resume, idx, attempt, outcome, cancelled, lockLost>>

\* GetLock, then DetermineState and CheckStateGate on the two rows as read.
ReadLock(p) ==
    /\ pc[p] = "getlock"
    /\ \E r \in Replies(p) :
         LET state == DetermineState(latest[p], lock) IN
         \/ /\ r = "ok" /\ state = "Completed"
            /\ NextPhase(p)
         \/ /\ r = "ok" /\ state # "Completed" /\ CheckStateGate(state, resume[p])
            /\ Goto(p, "acquire") /\ UNCHANGED idx
         \/ /\ r # "ok" \/ (state # "Completed" /\ ~CheckStateGate(state, resume[p]))
            /\ Goto(p, "failed") /\ UNCHANGED idx
    /\ UNCHANGED <<history, lock, effect, resume, latest, attempt, outcome, cancelled, lockLost>>

\* AcquireLock, first statement: INSERT, which an existing row refuses.
AcquireInsert(p) ==
    /\ pc[p] = "acquire"
    /\ \E r \in Replies(p) :
         IF lock = NoLock
           THEN /\ lock' = IF r = "error" THEN lock ELSE [holder |-> p, live |-> TRUE]
                /\ Goto(p, IF r = "ok" THEN "maxattempt" ELSE "failed")
           ELSE /\ Goto(p, IF r = "ok" THEN "steal" ELSE "failed")
                /\ UNCHANGED lock
    /\ UNCHANGED <<history, effect, resume, idx, latest, attempt, outcome, cancelled, lockLost>>

\* Mutant: the UPDATE without AND EXPIRES_AT < NOW(3).
StealAnyRow == lock # NoLock

Stealable == lock # NoLock /\ ~lock.live

\* AcquireLock, second statement: UPDATE ... WHERE the row has expired; no
\* row affected (held, or deleted since the INSERT) is ErrLockHeld.
AcquireSteal(p) ==
    /\ pc[p] = "steal"
    /\ \E r \in Replies(p) :
         /\ lock' = IF Stealable /\ r # "error" THEN [holder |-> p, live |-> TRUE] ELSE lock
         /\ Goto(p, IF Stealable /\ r = "ok" THEN "maxattempt" ELSE "failed")
    /\ UNCHANGED <<history, effect, resume, idx, latest, attempt, outcome, cancelled, lockLost>>

\* MaxAttemptNumber, then BuildSingleExecutor, which knows four names.
ReadMaxAttempt(p) ==
    /\ pc[p] = "maxattempt"
    /\ attempt' = [attempt EXCEPT ![p] = MaxAttemptNumber(Phase(p).name) + 1]
    /\ \E r \in Replies(p) :
         Goto(p, IF r = "ok" /\ Phase(p).name \in PhaseNames THEN "start" ELSE "abort")
    /\ UNCHANGED <<history, lock, effect, resume, idx, latest, outcome, cancelled, lockLost>>

\* PHASE_STARTED; on success the heartbeat goroutine starts.
InsertStarted(p) ==
    /\ pc[p] = "start"
    /\ InsertEvent(p, Event(Phase(p).name, attempt[p], "PHASE_STARTED"), "exec", "abort")
    /\ lockLost' = [lockLost EXCEPT ![p] = FALSE]
    /\ UNCHANGED <<lock, effect, resume, idx, latest, attempt, outcome, cancelled>>

\* A lost answer turns a success into an error that leaves its effect.
Execute(p) ==
    /\ pc[p] = "exec"
    /\ \E res \in ExecResults(Phase(p).name, effect[idx[p]]), r \in Replies(p) :
         /\ effect' = [effect EXCEPT ![idx[p]] = IF r = "error" THEN @ ELSE res[1]]
         /\ outcome' = [outcome EXCEPT ![p] = IF r = "ok" THEN res[2] ELSE "error"]
    /\ Goto(p, "guard")
    /\ UNCHANGED <<history, lock, resume, idx, latest, attempt, cancelled, lockLost>>

\* LatestEventForAttempt: an attempt that has its verdict gets no second one.
\* A failed check is only logged.  On a guarded success Run goes on.
TerminalGuard(p) ==
    /\ pc[p] = "guard"
    /\ \E r \in Replies(p) :
         IF r = "ok" /\ IsTerminal(LatestEventForAttempt(Phase(p).name, attempt[p]))
           THEN IF outcome[p] = "nil" THEN NextPhase(p) ELSE Goto(p, "failed") /\ UNCHANGED idx
           ELSE Goto(p, "terminal") /\ UNCHANGED idx
    /\ UNCHANGED <<history, lock, effect, resume, latest, attempt, outcome, cancelled, lockLost>>

\* Mutant: an error of Execute is dropped.
VerdictIgnoresErrors(result) ==
    IF result = "timeout" THEN "PHASE_TIMED_OUT" ELSE "PHASE_COMPLETED"

Verdict(result) ==
    [nil |-> "PHASE_COMPLETED", timeout |-> "PHASE_TIMED_OUT", error |-> "PHASE_FAILED"][result]

\* Mutant: on_failure decides without looking at what Execute returned.
RollbackRegardless(p) ==
    /\ pc[p] = "terminal"
    /\ InsertEvent(p, Event(Phase(p).name, attempt[p], Verdict(outcome[p])),
                   IF Phase(p).onFailure = "rollback" THEN "rollback" ELSE "failed", "failed")
    /\ UNCHANGED <<lock, effect, resume, idx, latest, attempt, outcome, cancelled, lockLost>>

\* The terminal event.  When the insert fails Run returns at once: no
\* rollback, and the lock stays.
InsertTerminal(p) ==
    /\ pc[p] = "terminal"
    /\ InsertEvent(p, Event(Phase(p).name, attempt[p], Verdict(outcome[p])),
                   IF outcome[p] = "nil" THEN "release"
                     ELSE IF Phase(p).onFailure = "rollback" THEN "rollback" ELSE "failed",
                   "failed")
    /\ UNCHANGED <<lock, effect, resume, idx, latest, attempt, outcome, cancelled, lockLost>>

\* An error of Rollback is only logged.
Rollback(p) ==
    /\ pc[p] = "rollback"
    /\ \E left \in RollbackResults(Phase(p), effect[idx[p]]), r \in Replies(p) :
         effect' = [effect EXCEPT ![idx[p]] = IF r = "error" THEN @ ELSE left]
    /\ Goto(p, "rolledback")
    /\ UNCHANGED <<history, lock, resume, idx, latest, attempt, outcome, cancelled, lockLost>>

\* PHASE_ROLLED_BACK; the lock stays, for a resume to steal once it expires.
InsertRolledBack(p) ==
    /\ pc[p] = "rolledback"
    /\ InsertEvent(p, Event(Phase(p).name, attempt[p], "PHASE_ROLLED_BACK"), "failed", "failed")
    /\ UNCHANGED <<lock, effect, resume, idx, latest, attempt, outcome, cancelled, lockLost>>

\* Mutant: ReleaseLock ends the lease instead of deleting the row.
RowExpired(r) == IF r = "error" THEN lock ELSE [lock EXCEPT !.live = FALSE]

RowDeleted(r) == IF r = "error" THEN lock ELSE NoLock

\* ReleaseLock deletes the migration's row whoever holds it, after a success
\* ("release") and after an attempt that could not start ("abort").
ReleaseLock(p) ==
    /\ pc[p] \in {"release", "abort"}
    /\ \E r \in Replies(p) : lock' = RowDeleted(r)
    /\ IF pc[p] = "release" THEN NextPhase(p) ELSE Goto(p, "failed") /\ UNCHANGED idx
    /\ UNCHANGED <<history, effect, resume, latest, attempt, outcome, cancelled, lockLost>>

Step(p) ==
    \/ Start(p) \/ ReadLatest(p) \/ ReadLock(p)
    \/ AcquireInsert(p) \/ AcquireSteal(p) \/ ReadMaxAttempt(p)
    \/ InsertStarted(p) \/ Execute(p) \/ TerminalGuard(p) \/ InsertTerminal(p)
    \/ Rollback(p) \/ InsertRolledBack(p) \/ ReleaseLock(p)

-----------------------------------------------------------------------------
(* The heartbeat goroutine, the clock and the faults                       *)

Ended == {"done", "failed", "dead"}
Alive(p) == pc[p] \notin Ended \cup {"idle"}

\* The statements between STARTED and the return of runPhase, and those
\* between AcquireLock and that return.
HeartbeatOn == {"exec", "guard", "terminal", "rollback", "rolledback", "release"}
Working(p) == pc[p] \in HeartbeatOn \cup {"maxattempt", "start", "abort"}

\* RefreshLock extends the row of its own process, expired or not; no such row
\* is ErrLockLost, and the goroutine returns: nothing else happens.  Any other
\* error is only logged.
Heartbeat(p) ==
    /\ pc[p] \in HeartbeatOn /\ ~cancelled[p] /\ ~lockLost[p]
    /\ IF lock.holder = p
         THEN lock' = [lock EXCEPT !.live = TRUE] /\ UNCHANGED lockLost
         ELSE lockLost' = [lockLost EXCEPT ![p] = TRUE] /\ UNCHANGED lock
    /\ UNCHANGED <<history, effect, pc, resume, idx, latest, attempt, outcome, cancelled>>

\* EXPIRES_AT passes.  With timely heartbeats this happens only to the row of
\* an invocation that no longer works under it.
Expire ==
    /\ lock.live
    /\ ~(TimelyHeartbeats /\ lock.holder \in Procs /\ Working(lock.holder))
    /\ lock' = [lock EXCEPT !.live = FALSE]
    /\ UNCHANGED <<history, effect, pc, resume, idx, latest, attempt, outcome, cancelled, lockLost>>

\* SIGTERM or Ctrl-C: main's context, which every statement is sent under.
Cancel(p) ==
    /\ "sigterm" \in Faults /\ Alive(p) /\ ~cancelled[p]
    /\ cancelled' = [cancelled EXCEPT ![p] = TRUE]
    /\ UNCHANGED <<history, lock, effect, pc, resume, idx, latest, attempt, outcome, lockLost>>

Crash(p) ==
    /\ "crash" \in Faults /\ Alive(p)
    /\ Goto(p, "dead")
    /\ UNCHANGED <<history, lock, effect, resume, idx, latest, attempt, outcome, cancelled, lockLost>>

-----------------------------------------------------------------------------

Init ==
    /\ history = << >>
    /\ lock = NoLock
    /\ effect = [i \in Phases |-> "absent"]
    /\ pc = [p \in Procs |-> "idle"]
    /\ resume = [p \in Procs |-> FALSE]
    /\ idx = [p \in Procs |-> 1]
    /\ latest = [p \in Procs |-> "none"]
    /\ attempt = [p \in Procs |-> 0]
    /\ outcome = [p \in Procs |-> "nil"]
    /\ cancelled = [p \in Procs |-> FALSE]
    /\ lockLost = [p \in Procs |-> FALSE]

Next ==
    \/ \E p \in Procs : Step(p) \/ Heartbeat(p) \/ Cancel(p) \/ Crash(p)
    \/ Expire

Spec == Init /\ [][Next]_vars

-----------------------------------------------------------------------------
(* Properties                                                              *)

Labels == {"idle", "latest", "getlock", "acquire", "steal", "maxattempt", "start", "abort"}
            \cup HeartbeatOn \cup Ended

DistinctNames == \A i, j \in Phases : Migration[i].name = Migration[j].name => i = j

TypeOK ==
    /\ history \in Seq(Events)
    /\ lock \in [holder : Procs \cup {Nobody}, live : BOOLEAN]
    /\ effect \in [Phases -> {"absent", "partial", "applied"}]
    /\ pc \in [Procs -> Labels]
    /\ resume \in [Procs -> BOOLEAN]
    /\ idx \in [Procs -> Phases]
    /\ latest \in [Procs -> EventTypes \cup {"none"}]
    /\ attempt \in [Procs -> Nat]
    /\ outcome \in [Procs -> {"nil", "error", "timeout"}]
    /\ cancelled \in [Procs -> BOOLEAN]
    /\ lockLost \in [Procs -> BOOLEAN]

Completed(name) == \E n \in RowsOf(name) : history[n].type = "PHASE_COMPLETED"

\* No two invocations ever run, judge or roll back the same attempt: the
\* unique key on PHASE_STARTED decides between two that computed the same
\* number, whatever happened to the lock.
OneOwnerPerAttempt ==
    \A p, q \in Procs :
      pc[p] \in HeartbeatOn /\ pc[q] \in HeartbeatOn /\ p # q
        => <<Phase(p).name, attempt[p]>> # <<Phase(q).name, attempt[q]>>

\* The audit log numbers the attempts of a phase 1, 2, 3, ... in the order in
\* which they started: a lost answer or a lost lock leaves no gap and no reuse.
AttemptsDense ==
    \A n \in DOMAIN history : history[n].type = "PHASE_STARTED" =>
      LET earlier == {m \in RowsOf(history[n].phase) :
                        m < n /\ history[m].type = "PHASE_STARTED"} IN
      /\ \A m \in earlier : history[m].attempt < history[n].attempt
      /\ \A k \in 1 .. (history[n].attempt - 1) : \E m \in earlier : history[m].attempt = k

\* An attempt has a verdict only after it started, never two of them, and is
\* rolled back only after it failed or timed out, once.
AttemptLifecycle ==
    \A n \in DOMAIN history :
      LET Before(types) == \E m \in RowsOfAttempt(history[n].phase, history[n].attempt) :
                             m < n /\ history[m].type \in types IN
      CASE history[n].type = "PHASE_STARTED" -> ~Before(EventTypes)
        [] history[n].type = "PHASE_ROLLED_BACK" ->
             Before({"PHASE_FAILED", "PHASE_TIMED_OUT"}) /\ ~Before({"PHASE_ROLLED_BACK"})
        [] OTHER -> Before({"PHASE_STARTED"}) /\ ~Before(TerminalTypes)

\* A phase is never started before every phase in front of it has completed
\* (of two phases with one name, which the loader accepts, the second is
\* skipped, so this is about migrations without them).
PhaseOrder ==
    DistinctNames =>
      \A i, j \in Phases : \A n \in RowsOf(Migration[i].name) :
        j < i => \E m \in RowsOf(Migration[j].name) :
                   m < n /\ history[m].type = "PHASE_COMPLETED"

\* A command that reports success has a completed attempt of every phase on
\* record, through skipped phases, lost answers and failed releases alike.
DoneMeansCompleted ==
    \A p \in Procs : pc[p] = "done" => \A i \in Phases : Completed(Migration[i].name)

\* While heartbeats are on time the lock lets one invocation work at a time.
MutualExclusion ==
    TimelyHeartbeats =>
      \A p, q \in Procs : Working(p) /\ Working(q) => p = q

\* While heartbeats are on time the latest event of a phase, the one that
\* decides what the next command does, is about its newest attempt: no
\* superseded invocation has the last word.
LatestIsNewest ==
    TimelyHeartbeats =>
      \A n \in DOMAIN history :
        (\A m \in RowsOf(history[n].phase) : m <= n)
          => history[n].attempt = MaxAttemptNumber(history[n].phase)

\* While heartbeats are on time a phase whose latest event is PHASE_COMPLETED,
\* which every later command skips, has its SQL in the schema (a gate has none;
\* of two phases with one name the second is skipped, as above).
CompletedIsApplied ==
    TimelyHeartbeats /\ DistinctNames =>
      \A i \in Phases :
        LatestEvent(Migration[i].name) = "PHASE_COMPLETED" /\ Migration[i].name # "gate"
          => effect[i] = "applied"

\* Where statements do not fail, a command that reports success leaves no lock
\* of its own behind to hold up the next one.
DoneLeavesNoLock ==
    Faults \subseteq {"crash"} =>
      \A p \in Procs : pc[p] = "done" => lock.holder # p

-----------------------------------------------------------------------------
(* The history as the ledger of Ledger: the status of every attempt        *)

\* The latest event of an attempt says how it stands.
StatusOf(name, k) ==
    [PHASE_STARTED |-> "started", PHASE_COMPLETED |-> "completed", PHASE_FAILED |-> "failed",
     PHASE_TIMED_OUT |-> "timedout", PHASE_ROLLED_BACK |-> "rolledback", none |-> "none"]
      [LatestEventForAttempt(name, k)]

Names == [i \in Phases |-> Migration[i].name]

ledgerOfHistory ==
    [name \in {Names[i] : i \in Phases} |->
       [k \in 1 .. MaxAttemptNumber(name) |-> StatusOf(name, k)]]

Abstract == INSTANCE Ledger WITH Order <- Names, ledger <- ledgerOfHistory

\* The table of events implements a ledger of attempts: every statement of
\* every invocation opens the next attempt of a phase whose predecessors have
\* completed, settles an open one, undoes a failed one, or changes nothing.
ImplementsLedger == Abstract!Spec

LockView == INSTANCE Lock WITH row <- lock, working <- {p \in Procs : Working(p)}

\* While heartbeats are on time the statements on the lock's row, lost answers,
\* failures and releases of whatever row is there included, never take the row
\* from an invocation that works under it.
ImplementsLock == LockView!Spec

-----------------------------------------------------------------------------
(* Liveness.  The server answers every statement, one way or another, and  *)
(* Execute returns; an invocation is never stuck behind another one.       *)

FairSpec == Spec /\ \A p \in Procs : WF_vars(Step(p))

\* Every command returns, whoever crashed holding the lock and whenever it is
\* interrupted: nothing waits for the lock, and the loop over the phases
\* advances through skipped ones too.
EveryCommandReturns == \A p \in Procs : <>(pc[p] \in Ended)

\* The most statements an invocation can still send: the longest way from each
\* one to the end of its phase, and all twelve of every phase behind.
ToTheEnd ==
    [idle |-> 13, latest |-> 12, getlock |-> 11, acquire |-> 10, steal |-> 9, maxattempt |-> 8,
     start |-> 7, exec |-> 6, guard |-> 5, terminal |-> 4, rollback |-> 3, rolledback |-> 2,
     release |-> 1, abort |-> 1, done |-> 0, failed |-> 0, dead |-> 0]

StatementsLeft(p) == (Len(Migration) - idx[p]) * 12 + ToTheEnd[pc[p]]

\* What makes every command return: each statement brings its invocation nearer
\* to the end, whatever the answer, and nothing that others, the clock or a
\* fault do sends it back.  A command therefore sends a bounded number of
\* statements; it neither retries nor returns to a phase.
StatementsRunOut ==
    [][\A p \in Procs : /\ StatementsLeft(p)' <= StatementsLeft(p)
                        /\ Step(p) => StatementsLeft(p)' < StatementsLeft(p)]_vars

-----------------------------------------------------------------------------
(* What the documentation says and the code does not do                    *)

\* docs/cli-reference.md: run "skips phases already in COMPLETED state".
CompletedIsSkipped ==
    [][\A i \in Phases : LatestEvent(Migration[i].name) = "PHASE_COMPLETED"
                           => LatestEvent(Migration[i].name)' # "PHASE_STARTED"]_vars

\* internal/runner/heartbeat.go, on ErrLockLost: "context cancellation will
\* propagate through the running phase", so that the phase cannot succeed.
LostLockStopsPhase ==
    [][\A p \in Procs : lockLost[p] /\ Execute(p) => outcome'[p] # "nil"]_vars

=============================================================================
