------------------------------ MODULE Commands ------------------------------
(***************************************************************************)
(* The commands that work on a migration without its lock, beside the      *)
(* invocations of `phasedb run` and `resume` that Runner describes:        *)
(*                                                                         *)
(*   gc        deletes heartbeat rows, by what the history says            *)
(*             (DeleteHeartbeatsForCompletedMigrations);                   *)
(*   status    reads the latest event of every phase and then the lock     *)
(*             (internal/output/status.go);                                *)
(*   rollback  undoes the phases behind a target                           *)
(*             (internal/phase/rollback.go).                               *)
(*                                                                         *)
(* A behaviour has one of them next to the invocations: none of them reads *)
(* anything that another one writes, the schema apart.  Every statement of *)
(* theirs is a step, and every one of them may fail.                       *)
(***************************************************************************)
EXTENDS Runner

CONSTANT Targets    \* what may stand behind `rollback --to`

ASSUME TargetsAssumption == Targets \subseteq STRING

VARIABLES
    beats,  \* PHASEDB_HEARTBEATS: the attempts that have rows
    cmd     \* the command: which one, how far it is and what it has found

commandVars == <<vars, beats, cmd>>

NoEvent == Event("none", 0, "none")

\* at: the phases read (status), or the executor in hand (rollback: it is done
\* with those behind it, also when it has returned).
\* alone: no attempt has been in progress since the rollback began.
Command(name, target, running) ==
    [name |-> name, target |-> target, running |-> running, at |-> 0, since |-> 0,
     alone |-> FALSE, event |-> NoEvent]

Running(name) == cmd.name = name /\ cmd.running
Returned == Command(cmd.name, cmd.target, FALSE)

-----------------------------------------------------------------------------
(* Heartbeats and gc                                                       *)

\* One tick of RunHeartbeat: InsertHeartbeat, whose failure is only logged,
\* then RefreshLock.  Either may fail, so gc also finds what is between them.
\* Nothing but gc looks at the rows: they are kept only where there is one.
RunHeartbeat(p) ==
    /\ \/ Heartbeat(p)
       \/ pc[p] \in HeartbeatOn /\ ~cancelled[p] /\ ~lockLost[p] /\ UNCHANGED vars
    /\ beats' \in IF cmd.name = "gc" THEN {beats, beats \cup {<<Phase(p).name, attempt[p]>>}}
                                     ELSE {beats}
    /\ UNCHANGED cmd

\* Mutant: any verdict on the phase finishes its attempts.
VerdictOnPhase(n) ==
    \E m \in RowsOf(history[n].phase) : IsTerminal(history[m].type)

\* A PHASE_STARTED row is finished by a later verdict on the same attempt.
Finished(n) ==
    \E m \in RowsOfAttempt(history[n].phase, history[n].attempt) :
      m > n /\ IsTerminal(history[m].type)

InProgress(name) ==
    \E n \in RowsOf(name) : history[n].type = "PHASE_STARTED" /\ ~Finished(n)

\* One DELETE, over both tables at one moment; cron sends it again and again.
Gc ==
    /\ Running("gc")
    /\ beats' = {b \in beats : InProgress(b[1])}
    /\ UNCHANGED <<vars, cmd>>

-----------------------------------------------------------------------------
(* status                                                                  *)

\* The phases BuildStatus asks for, whether or not the migration has them.
ReadOrder == <<"expand", "backfill", "gate", "contract">>

\* The last phase with an event among the first n rows; 0 if there is none.
LastActive(n) ==
    Max({0} \cup {i \in DOMAIN ReadOrder : \E m \in RowsOf(ReadOrder[i]) : m <= n})

\* Mutant: the loop ends at the first phase that has no event.
StopAtGap(name) == IF RowsOf(name) = {} THEN Len(ReadOrder) ELSE cmd.at + 1

\* The loop goes past phases that have no event.
NextToRead(name) == cmd.at + 1

\* LatestEvent of one phase after the other; the last one found is kept.
\* (since: the last phase with an event when the first was read.)
StatusReadEvent ==
    /\ Running("status") /\ cmd.at < Len(ReadOrder)
    /\ LET name == ReadOrder[cmd.at + 1] IN
       \/ cmd' = Returned
       \/ cmd' = [cmd EXCEPT
            !.at = NextToRead(name),
            !.since = IF cmd.at = 0 THEN LastActive(Len(history)) ELSE @,
            !.event = IF RowsOf(name) = {} THEN @ ELSE history[Max(RowsOf(name))]]
    /\ UNCHANGED <<vars, beats>>

\* The warning, from the row GetLock has read; its error counts as no row.
Warning(row, event) ==
    CASE row # NoLock /\ ~row.live                     -> "stale"
      [] row = NoLock /\ event.type = "PHASE_STARTED"  -> "dead"
      [] OTHER                                         -> "none"

\* GetLock, unless no phase has an event ("not_started"), and what is printed:
\* nothing that a later step reads.
StatusReadLock ==
    /\ Running("status") /\ cmd.at = Len(ReadOrder) /\ cmd.event # NoEvent
    /\ cmd' = Returned
    /\ UNCHANGED <<vars, beats>>

-----------------------------------------------------------------------------
(* rollback                                                                *)

TypeOfPhase ==
    [expand |-> "EXPAND", backfill |-> "BACKFILL", gate |-> "GATE", contract |-> "CONTRACT"]

\* BuildExecutors: the phases whose names it knows, in the order of the file.
Known == {i \in Phases : Migration[i].name \in PhaseNames}

Executors ==
    [k \in 1 .. Cardinality(Known) |->
        CHOOSE i \in Known : Cardinality({j \in Known : j <= i}) = k]

\* The executor that the target names by its type, or by the name of the phase
\* at its position, the last of them if there are several; 0 if there is none.
TargetIndex(target) ==
    LET matches == {k \in 1 .. Len(Executors) :
                      \/ TypeOfPhase[Migration[Executors[k]].name] = target
                      \/ Migration[k].name = target}
    IN  IF matches = {} THEN 0 ELSE Max(matches)

\* The file is parsed and the target looked up before any statement.
RollbackBegin ==
    /\ Running("rollback") /\ cmd.at = 0
    /\ cmd' = IF TargetIndex(cmd.target) = 0
                THEN Returned
                ELSE [cmd EXCEPT !.at = Len(Executors),
                                 !.alone = \A p \in Procs : pc[p] \notin HeartbeatOn]
    /\ UNCHANGED <<vars, beats>>

HasRollback(ph) == ph.name \in {"expand", "contract"} /\ ph.rollbackSQL

BehindTarget == cmd.at > TargetIndex(cmd.target)

\* Mutant: an error is only logged, as in the runner.
LogsErrors(ok) == [cmd EXCEPT !.at = @ - 1]

StopsAtError(ok) == [cmd EXCEPT !.at = @ - 1, !.running = ok]

\* Rollback of the executor in hand.  It succeeds only if the phase is gone, or
\* if there is nothing to undo it with.  No event is inserted, no lock is read.
RollbackPhase ==
    /\ Running("rollback") /\ cmd.at > 0 /\ BehindTarget
    /\ LET i == Executors[cmd.at] IN
       \E left \in RollbackResults(Migration[i], effect[i]), ok \in BOOLEAN :
         /\ IF ok THEN HasRollback(Migration[i]) => left = "absent"
                  ELSE HasRollback(Migration[i])
         /\ effect' = [effect EXCEPT ![i] = left]
         /\ cmd' = StopsAtError(ok)
    /\ UNCHANGED <<history, lock, pc, resume, idx, latest, attempt, outcome, cancelled,
                   lockLost, beats>>

RollbackEnd ==
    /\ Running("rollback") /\ cmd.at > 0 /\ ~BehindTarget
    /\ cmd' = [cmd EXCEPT !.running = FALSE]
    /\ UNCHANGED <<vars, beats>>

-----------------------------------------------------------------------------

\* A history variable: alone stays TRUE while no attempt is in progress.
Watch ==
    cmd' = [cmd EXCEPT !.alone = @ /\ \A p \in Procs : pc'[p] \notin HeartbeatOn]

CommandsInit ==
    /\ Init
    /\ beats = {}
    /\ cmd \in {Command("gc", "none", TRUE), Command("status", "none", TRUE)}
                 \cup {Command("rollback", target, TRUE) : target \in Targets}

CommandsNext ==
    \/ \E p \in Procs : (Step(p) \/ Cancel(p) \/ Crash(p)) /\ Watch /\ UNCHANGED beats
    \/ Expire /\ UNCHANGED <<beats, cmd>>
    \/ \E p \in Procs : RunHeartbeat(p)
    \/ Gc
    \/ StatusReadEvent \/ StatusReadLock
    \/ RollbackBegin \/ RollbackPhase \/ RollbackEnd

CommandsSpec == CommandsInit /\ [][CommandsNext]_commandVars

-----------------------------------------------------------------------------
(* Properties                                                              *)

\* gc never deletes a heartbeat of an attempt that an invocation works on and
\* that has no verdict yet, whatever became of earlier attempts of the phase.
GcKeepsLive ==
    [][\A p \in Procs :
         LET row == <<Phase(p).name, attempt[p]>> IN
         pc[p] \in {"exec", "guard", "terminal"} /\ row \in beats => row \in beats']_commandVars

\* The phase and event that status reports, found by several statements while the
\* invocations go on, are what it would have found at one single moment, and
\* never a phase that was left behind before it began.
StatusIsOfOneMoment ==
    Running("status") /\ cmd.at = Len(ReadOrder)
      => \E n \in 0 .. Len(history) :
           LET i == LastActive(n) IN
           /\ i >= cmd.since
           /\ cmd.event = IF i = 0 THEN NoEvent
                           ELSE history[Max({m \in RowsOf(ReadOrder[i]) : m <= n})]

\* While heartbeats are on time, and if the lock can be read, status warns of a
\* stale or missing lock only when nobody works on the attempt it reports,
\* though it has read the attempt first and the lock later.
WarningIsTrue ==
    TimelyHeartbeats /\ Running("status") /\ cmd.at = Len(ReadOrder)
      /\ Warning(lock, cmd.event) # "none"
      => \A p \in Procs : pc[p] \in HeartbeatOn
           => <<Phase(p).name, attempt[p]>> # <<cmd.event.phase, cmd.event.attempt>>

UndoneFrom(least) ==
    \A k \in least .. Len(Executors) :
      HasRollback(Migration[Executors[k]]) => effect[Executors[k]] = "absent"

\* At every moment of a rollback everything behind the phase in hand that can
\* be undone is undone: wherever it stops, no phase is undone under a later one
\* that is still in the schema.  (If no attempt has been in progress since it
\* began: the command does not look.)
UndoneFromTheEnd ==
    Running("rollback") /\ cmd.alone => UndoneFrom(cmd.at + 1)

\* While heartbeats are on time, and whoever runs beside it: a phase that the
\* history calls completed is not whole in the schema only if a rollback has got
\* to it, be it that it stopped there with an error, and then everything behind it
\* is undone (as far as no attempt has been in progress since).
MissingIsUndone ==
    TimelyHeartbeats /\ DistinctNames =>
      \A i \in Phases :
        /\ effect[i] # "applied" /\ Migration[i].name # "gate"
        /\ LatestEvent(Migration[i].name) = "PHASE_COMPLETED"
        => /\ cmd.name = "rollback" /\ cmd.at > 0
           /\ \E k \in (cmd.at + 1) .. Len(Executors) :
                Executors[k] = i /\ (cmd.alone => UndoneFrom(k + 1))

=============================================================================
