# phasedb, specified

TLA+ modules, TLC models and TLAPS proofs about phasedb: a command-line tool that
takes a MySQL schema migration through its phases (expand, backfill, gate,
contract), keeps an append-only history of what it did in the database it
migrates, and lets several invocations meet there.

Paths are relative to the repository; `src/` in `PROJECT.json` is its root.

## 1. Inventory

| Component (code) | State it keeps | Operations | Interacts with |
|---|---|---|---|
| **Runner** `internal/runner/{runner,transitions}.go`, `cli/{run,resume}.go` | phase index, attempt number, the result of Execute, all in memory | Run, runPhase, DetermineState, CheckStateGate | store (every step is a statement), executors, heartbeat |
| **Heartbeat** `internal/runner/heartbeat.go` | a ticker; whether it gave up | InsertHeartbeat and RefreshLock at every tick | store; stopped by runPhase's `defer` |
| **Event store** `internal/store/*` | tables PHASEDB_HISTORY, PHASEDB_LOCKS, PHASEDB_HEARTBEATS, PHASEDB_CHECKPOINTS | InsertEvent, LatestEvent(ForAttempt), MaxAttemptNumber, AcquireLock, RefreshLock, ReleaseLock, GetLock, checkpoints, heartbeats, gc | everybody |
| **Expand** `internal/phase/expand.go` | the user's schema | one DDL statement, rollback_sql | adapter |
| **Contract** `internal/phase/contract.go`, `db/mysql/ddl.go` | the user's schema; checkpoints | a script of DDL statements with a checkpoint after each, lock-wait retries, rollback script | adapter, checkpoints |
| **Backfill** `internal/phase/backfill.go` | cursor `last_pk`, backoff counters; checkpoints; the user's table | batches until `done_when`, throttling by replica lag | adapter, checkpoints, lag checker, the application's writes |
| **Gate** `internal/phase/gate.go` | a deadline, a count of consecutive errors | polls a query until it answers what is expected | adapter |
| **Replica lag** `db/mysql/replication.go` | none | SHOW REPLICA STATUS as a number | backfill |
| **Executor factory** `internal/phase/executor.go` | none | phase name to executor | runner, rollback command |
| **Rollback command** `internal/phase/rollback.go`, `cli/rollback.go` | none | Rollback of phases in reverse order, without lock and events | user's schema |
| **gc** `cli/gc.go`, DeleteHeartbeatsForCompletedMigrations | PHASEDB_HEARTBEATS | a DELETE that decides by two tables | store |
| **status** `cli/status.go`, `output/*` | none | several reads, one report | store |
| **Migration file** `internal/config/*` | none | load, validate, resolve the DSN | everybody |
| **lint** `internal/lint/*` | none | rules over SQL text, size estimates | migration file |
| **Adapter** `internal/db/*` | a connection pool | ExecBatch, QueryScalar, ExecDDL, information_schema | executors |
| **Logging and command tree** `output/logger.go`, `cli/root.go` | none | wording, flags | |

### What is hard here

* Invocations share nothing but tables. Every decision is taken from rows read one
  statement earlier (latest event, lock, largest attempt number), and anything may
  happen between two statements: another invocation, an expiry, a crash.
* The lock is a lease whose expiry one clock writes and another clock compares. The
  holder refreshes it from a goroutine that cannot stop the phase when the lease is
  lost. ReleaseLock deletes the row whoever holds it.
* A statement may take effect though its answer is an error (a lost connection, a
  context cancelled by SIGTERM while it is in flight). After SIGTERM every further
  statement, the terminal event and the release included, is sent under the
  cancelled context.
* DDL is neither transactional nor repeatable, so that an attempt leaves things half
  done. Checkpoints are written separately from what they record.
* The backfill walks a table that the application writes to.
* Loops that end by a deadline, a count of errors, or only by an answer that must come.
* status, gc and rollback take no lock: they read, delete and undo while invocations are
  at work, in several statements.
* What a file may contain is decided in four places that do not know of each other: the loader,
  the command-line flags, the executors, and the rules of lint, which are searches for text.

### What makes each component correct

* **Runner and store:** one owner per attempt; attempts numbered densely; one verdict
  per attempt; phases in order; success only with every phase completed; one
  invocation at work while heartbeats are on time; the latest event is about the newest
  attempt and is true of the schema; every command returns.
* **Lock lease:** the row of a process at work neither expires nor changes hands; a dead
  process' row can be stolen within one lease.
* **Contract:** success means every statement is applied; nothing is applied out of order;
  checkpoints are never ahead of the schema.
* **Backfill:** success means every row that was there is filled; no row is left behind the
  cursor (unless it arrived there); the backoff ends at the third good reading; it returns.
* **Gate:** returns, and in bounded time after its deadline; errors are counted as consecutive.
* **Rollback command:** undoes from the end and stops at the first error; a phase that the history calls
  completed goes missing only where a rollback has got to it.
* **gc:** keeps what a live attempt needs. **status:** a report describes one moment, its warning
  is true of the attempt it reports, and it never promises less work than there is.
* **Migration file, lint:** what the loader lets pass the executors can run; the batches of a query that
  lint accepts, and can read, get to every row; its estimates hold.

## 2. Modules

```
Ledger  <--refined by--  Runner  --refines-->  Lock  <--refined by--  Lease
                           |                   (what TimelyHeartbeats stands for)
                        Commands = Runner + gc, status, rollback

Runner --> Results <-- Contract   what Execute and Rollback can do to the schema
Backfill, Gate                what one Execute does
MigrationFile <-- Lint        what a file decides of run, resume and lint

RunnerProofs <-- StoreProofs <-- CommandsProofs
LeaseProofs, ContractProofs, BackfillProofs, GateProofs, LintProofs
MCRunner, MCCommands, MCLease, MCContract, MCBackfill, MCGate, MCLint
```

**`Runner`** is `phasedb run` and `phasedb resume`, any number of them, on one
migration. One action is one statement sent to the server together with the code up to the
next statement:

| Action | Code |
|---|---|
| `Start` | the command line and EnsureSchema |
| `ReadLatest`, `ReadLock` | LatestEvent, GetLock; then DetermineState and CheckStateGate on what was read |
| `AcquireInsert`, `AcquireSteal` | the INSERT and the conditional UPDATE of AcquireLock |
| `ReadMaxAttempt` | MaxAttemptNumber and BuildSingleExecutor |
| `InsertStarted` | PHASE_STARTED, from which the heartbeat goroutine runs |
| `Execute` | the executor, as the set of what it can leave in the schema and return |
| `TerminalGuard`, `InsertTerminal` | LatestEventForAttempt, then the verdict |
| `Rollback`, `InsertRolledBack` | on_failure: rollback |
| `ReleaseLock` | after a success, and after an attempt that could not start |
| `Heartbeat`, `Expire`, `Cancel`, `Crash` | the goroutine, the clock, SIGTERM, a killed process |

`Replies(p)` gives every statement its three outcomes: answered, failed without
effect, effective with a lost answer. `cancelled` leaves only the second. The state
is the three tables' relevant columns (`history`, `lock`, and `effect`, the user's
schema) and the local variables of each invocation.

**`Ledger`** is what the history promises without processes or locks: for every phase
the list of its attempts' statuses, an attempt opened only after all phases in front have
completed, settled once, undone only after a failure. `Runner!ImplementsLedger`
is `Ledger!Spec` under the refinement mapping `ledgerOfHistory`, which reads the status
of an attempt off its events.

**`Lock`** is what the lock promises while heartbeats are on time: a row, the set of those who work
under it, and four steps, none of which takes the row of one who works. `Runner` (statements,
no clocks) and `Lease` (clocks, hardly any statements) both implement it
(`ImplementsLock`, `LeaseImplementsLock`). That is why `Runner` may do without the clocks:
`TimelyHeartbeats` says of `Runner!Expire` what `Lease` shows of the clocks.

**`Lease`** is the lock in time. `Runner` abstracts the clock to `lock.live` and assumes
with `TimelyHeartbeats` that a working invocation's row does not expire. `Lease` has the
clocks (`skew`), statements that take up to `Delay`, the stamp that AcquireLock takes before
its INSERT and reuses in its UPDATE, the ticker, and `Misses` failed refreshes in a row, and
shows for which `lockTTL` that assumption is true.

**`Results`** says what `Runner` knows of an executor: what Execute can leave in the schema and return,
and what Rollback can leave (`ExecResults`, `RollbackResults`). For a contract `Contract` shows that the
statements do just that: its history variable `began` keeps the schema at the beginning of the call in hand, and
`DeliversResults` compares it with the schema at the call's end. A DDL phase may succeed again on a schema where it
is applied or partly applied, as the server repeats some DDL (MODIFY COLUMN) and refuses other (DROP COLUMN).

**`Contract`**, **`Backfill`** and **`Gate`** are the inside of `Runner!Execute` for the
phases that have one. `Contract` has the loop with its two indices (`pos` counts blank
statements, `realIdx` does not), `Backfill` both modes of the batch loop on a table that
grows, with its row counts and what status makes of them, `Gate` the poll loop in time. Each runs several executions or answers under
every error the code handles. Some choices are made in `Init` and cover alternatives of the
code or the file rather than one of them: `cursorMode`, `throttled` and `checkpointEvery` (the batch
block), `fresh` (whether every execution has a new attempt number,
as the runner arranges, or the same one, as the executor's own unit tests do), and
`classified` (whether the driver's error has the method `Number()` that the code asks for;
the shipped driver's has a field of that name, so the code's retries never happen).

**`Commands`** sets one of gc, status and rollback beside the invocations of `Runner`, whose
actions it takes as they are. Every statement of the command is a step:

| Action | Code |
|---|---|
| `RunHeartbeat` | one tick: InsertHeartbeat, then Runner's `Heartbeat` (RefreshLock) |
| `Gc` | the DELETE of DeleteHeartbeatsForCompletedMigrations, at any time and again and again |
| `StatusReadEvent`, `StatusReadLock` | BuildStatus: LatestEvent of one phase after the other, then GetLock |
| `RollbackBegin` | BuildExecutors and the two look-ups of the target in RollbackToPhase |
| `RollbackPhase`, `RollbackEnd` | Rollback of the executor in hand, which may fail; the target is where the loop ends |

`cmd.at` keeps where a rollback ended or stopped, and `cmd.alone` (a history variable) whether an attempt has been
in progress since it began, so that properties can relate what it left to what invocations do afterwards.

A behaviour has one of the three commands: none of them reads anything that another one writes, the
schema apart, which gc and status do not look at.

**`MigrationFile`** is the loader (validation, `--on-failure`) and what executors take from a phase: which
blocks they follow, and what batches of a query do to a table. **`Lint`** is
one command on one file: run and resume as far as the file decides them, and lint with each of its rules,
EXPLAIN as a set of answers, and the estimates with their arithmetic. A batch query is the handful of things a
rule looks for in its text and the server in its meaning: blanks before it; the assignments, of a constant or of
an expression, with or without a blank before their "="; a WHERE clause with AND, OR and NOT, under
SQL's three-valued logic; the LIMITs. A rule that searches for text is modelled by what it finds: `Stated` are the
conditions that occur in the text, wherever they stand in it, `Matches` is what the server makes of them. An
expression over the row counts as the value of one of its columns, which may be NULL, as
`SHA2(CONCAT(user_id, payload), 256)` is for a row without a payload.

The `MC*` modules hold only constants. Operators with a comment "Mutant:" are wrong variants
of the definition they stand in front of; nothing in the specifications uses them. They are
there to show that each property can fail: put in place of the definition, each makes TLC find
the property violated.

## 3. Runs

`tlc -config X.cfg M`. All passing runs are exhaustive within their bounds and
take between some seconds and a minute.

| Run | Bounds | Distinct states | Shows |
|---|---|---|---|
| `commands` | 2 invocations and one of gc, status, rollback to a gate, to expand or to an unknown name; gate + expand (on_failure: rollback) + contract, crashes | 660,021 | `MutualExclusion`, `DoneLeavesNoLock`, `StatusIsOfOneMoment`, `WarningIsTrue`, `UndoneFromTheEnd`, `MissingIsUndone`, `GcKeepsLive`, and `TypeOK` |
| `faults` | 2 invocations, expand + contract under `--on-failure rollback`, the contract without rollback_sql, all four faults, timely heartbeats | 406,301 | `LatestIsNewest`, `CompletedIsApplied`, `DoneMeansCompleted`, `EveryCommandReturns`, `StatementsRunOut`, `ImplementsLock` |
| `late` | 2 invocations, backfill + gate, lost answers, heartbeats at any time or never | 212,147 | `OneOwnerPerAttempt`, `AttemptsDense`, `AttemptLifecycle`, `PhaseOrder`, `ImplementsLedger` when the lock excludes nobody |
| `contract` | 3 executions, script with a blank and a repeatable statement, a rollback script | 13,912 | `SuccessMeansAll`, `AppliedIsPrefix`, `CheckpointsTruthful`, `DeliversResults` |
| `gate` | timeout 20, poll interval 2, cap 5, query at most 1 | 4,621 | `EndsInTime`, `CountsTransients`, `EveryGateReturns`, `RoundsRunOut` |
| `backfill` | keys up to 5, 3 rows at the start, batches of 2, a checkpoint after every batch or every other, 2 executions | 571,896 | `NothingLeftBehind`, `SuccessMeansDone`, `BackoffForgets`, `ReportedIsLeft`, `BatchesRunOut`, `EveryBackfillEnds` |
| `lease` | 2 processes; TTL 30, interval 10, delay 1, skew 3, one failed refresh | 361,172 | `LeaseKept`, `LeaseBounded`, `LeaseImplementsLock` |
| `lint` | every file of three kinds, all command lines | 204,572 | `NoPanic`, `AcceptedFillsAll`, `EstimateHolds` |
| `skip`, `lost`, `contract_resume`, `gate_transient` | as above, no faults in `skip` and `lost` | | counterexamples, section 6 |

Why the bounds are enough to be interesting:

* Two invocations are enough for every race between a decision and another's step. Two phases
  are enough for order, skipping and the end of the loop.
  The number of attempts is bounded by the number of invocations, as each is used once. What the runs
  show of two invocations, the theorems of section 4 show of any number.
* `faults` has a DDL phase with an automatic rollback in front of one whose rollback is recorded with nothing
  sent, which is what `--on-failure rollback` makes of a phase without rollback_sql;
  `late` has a phase whose rollback does nothing in front of one that can time out, so
  between them all verdicts and all four executors occur. `late` needs no crash: where nothing is
  said about heartbeats, a crashed invocation is one that takes no more steps.
* `commands` has a gate in front, so that `rollback --to GATE` has two phases to undo and an error can
  come between them, and `--to expand` (the name rather than the type) one; a name that is neither is refused. One invocation's crash and another's
  resume pass while a command is between two of its statements.
* In `contract` three executions are a failure, a rollback or a resume, and another failure. The
  script has blanks in front of and between its statements, where an off-by-one in `realIdx` shows.
* In `gate` five transient errors with their sleeps (2 x 2 + 3 x 5 = 19) fit before the
  deadline, which the MC module asserts, and a sleep may also begin just before it.
* In `backfill` the table starts with the keys 1, 2 and 4, so that the application can insert in front
  of, between and behind them, and a batch is smaller than the table. With a checkpoint after every other
  batch the latest one is behind the table. Inserts are finitely many (`MaxId`), which also is what
  `EveryBackfillEnds` needs.
* In `lease` the proportion TTL : interval is the code's 90 s : 30 s.
* `lint` takes any phase with each block there or absent behind a good one; a backfill with any query of at
  most two conditions, joined by AND or OR, with or without NOT, on two columns, one of whose names is the end of
  the other's, and with assignments of constants, of a column and of two, tried on every table of two rows with
  four values (NULL among them); and a backfill and a gate with sizes, delays, timeouts and row counts on both sides of every
  comparison, 0 and, for delays and timeouts, negative ones included.

Bounds of the environment are no bounds of the code: queries, statements and clocks have no limit
there. `QueryTime`, `Delay`, `Skew` and `Misses` are named in the modules and the results
are relative to them. `SYMMETRY` is used in runs without liveness only.
`commands` also has a `VIEW`: two states are one if they differ only in what an invocation has
left in variables of its own that nobody reads again before they are written: `latest` outside
of `getlock`, `attempt` before START and after the attempt, `outcome` outside of `guard` and
`terminal`, `lockLost` without a heartbeat, all of them once it has returned. Every guard, effect and property of
the run has the same value in both, but for the types of those variables, which section 4 has for all states. Deadlock is checked in
`lease`; the other systems stop when their commands have returned.

### Fairness

* `Runner!FairSpec`: weak fairness of each invocation's own `Step`. The server answers every
  statement, if only with an error, and Execute returns. No fairness of heartbeats, of `Expire` or
  of other invocations, and a crash may pre-empt everything: a command waits for nobody.
* `Gate!FairSpec`: weak fairness of the loop: timers fire and queries answer. Nobody has to cancel.
* `Backfill!FairSpec`: weak fairness of the executor's own steps. Queries answer, and the replicas
  keep up again at some time: `Throttle` is no part of `Execute`, so that `GoodReading` cannot be put
  off for ever. That is an assumption about the environment; a replica that never catches up throttles a
  backfill without end, as documented. The application may do what it likes, but `MaxId` ends its inserts.

## 4. Proofs

tlapm checks every step; the modules with proofs declare no `RECURSIVE` operator.

**`RunnerProofs`** (from the assumptions on constants in `Runner` only: any set of invocations, any
migration, any faults). The invariants of the runs are not inductive by themselves:

* `TypeInv` is `TypeOK` with `Numbered` (events have attempt numbers from 1), which is
  what `MaxAttemptNumber` and the guards need.
* `AttemptInv` adds what each invocation knows about the history at the statement it is about to
  send: the attempt in hand has its PHASE_STARTED (`Owned`); it has no verdict while its owner may still
  give one (`Undecided`); it has failed and is not yet rolled back while its owner is undoing
  (`Undoing`); all attempts below a number computed for the next one have started (`NextNumber`).
  The unique key of PHASEDB_HISTORY then gives `OneOwnerPerAttempt`,
  `AttemptLifecycle` and `AttemptsDense` with no assumption about the lock: that is the
  fallback the code has when the lock fails.
* `OrderInv` adds `Passed`: every phase in front of an invocation's index has a completed
  attempt. The latest event may later be another one, so it is the existence of the event, which nothing
  deletes, that is carried. It gives `PhaseOrder` and `DoneMeansCompleted`.
* `Holds` (a working invocation's row is its own and is live) gives `MutualExclusion` under
  `TimelyHeartbeats`.

`CommandsRunOut` (`StatementsRunOut`) is the part of `EveryCommandReturns` that needs no fairness:
`StatementsLeft`, the longest way from an invocation's statement to its end, gets smaller with each of
its statements and never larger. What is left to TLC is that a statement that can be sent is sent.

**`StoreProofs`**, about the two tables:

* `LockImplemented`: the mapping takes Runner's `lock` and the set of working invocations; each
  statement on the lock table is a step of `Lock`, and all others are stutters by `Holds`.
* `SuccessLeavesNoLock`: `Tidy` says that where only crashes happen an invocation has the row only while
  it works, or after it has failed or died.
* `NewestHasLastWord` (`LatestIsNewest`): strengthened by `Newest`, which says for the one invocation at work
  that its attempt is the largest of its phase, and for the moment before PHASE_STARTED that
  the number in hand is the one behind it. Writing needs the lock, so nobody else can change that.
* `CompletedHasItsEffect` (`CompletedIsApplied`): strengthened by `Fulfilled`, which follows the result of
  Execute from the schema to the verdict: between Execute and the terminal event
  the invocation that works knows that the phase is in the schema if the result was a success.
* `LedgerImplemented` shows Runner's history implements `Ledger`, for all faults and
  without the lock. The statements PHASE_STARTED, the verdict and PHASE_ROLLED_BACK are steps of `Ledger`; the
  status of an attempt is that of its last row, and `AttemptInv` gives which rows it has; that all
  attempts of the phases in front have one that completed is `OrderInv`'s `Passed`.

**`CommandsProofs`**, for any number of invocations beside the command. Of what the invocations read the
command writes only the schema (`CommandCases`), so `AttemptInv`, `Holds` and `Newest` hold as in `Runner`.

* `GcSparesTheLiving` (`GcKeepsLive`): an attempt with an owner that has not given its verdict has a
  PHASE_STARTED row that is not `Finished`. No assumption on the lock.
* `StatusHasItsMoment` (`StatusIsOfOneMoment`): the moment is found by induction over the reads. `Moment` says
  that after each read there is a number of rows `n` and a phase `j` such that the event kept is what these rows
  say (`Found`): a read that finds an event moves the moment to now, as all phases behind it are still
  to be read; one that finds nothing leaves it where it was, as rows are only added.
* `WarningsAreTrue` (`WarningIsTrue`): from `Holds`; the lock is read last.
* `RollbackUndoesFromTheEnd` (`UndoneFromTheEnd`): with `Lone` (whoever was not working when the command
  began has not worked since) the schema has no other writer, for every migration and target. `Lone` also says
  what a command that has returned has left: all that is behind the phase at which it stopped is undone.
* `MissingHasBeenUndone` (`MissingIsUndone`): the invariants of `CompletedHasItsEffect`, which are stated about
  all phases but a given set, with the phases that the rollback has `Touched` as that set. It only grows
  (`TouchedGrows`), which makes them weaker, and a step of the rollback writes nothing outside it. That what is
  behind is undone comes from `Lone`.
* `CommandsDisturbNothing`, `LedgerBesideCommands`, `LockBesideCommands`: everything proved in `RunnerProofs`
  and `StoreProofs` of what the invocations keep holds beside a command too, but for `CompletedIsApplied`, which a
  rollback makes false and `MissingIsUndone` replaces. Each invariant is carried over a step of
  the command by the columns that it leaves alone, and over a step of an invocation by Runner's own lemma.

**`LeaseProofs`**: `LeaseInv` is types, the bound of every variable, `OnTime` (no statement
is older than it may be) and `Secure`, which says for each place of the heartbeat goroutine how much
is left of the lease: at least the time to its next refresh, plus a reserve of one interval for each
refresh that may still fail. From `TimelyAssumption`
(TTL >= Skew + 7 Delay + (Misses + 1) Interval) follow `LeaseIsKept`, `LeaseIsBounded` and, with them,
`LeaseIsLock`, for any number of processes. The bound is exact: with a TTL one smaller TLC finds a lease
that is lost. With the code's constants (90 s, 30 s) one failed refresh is survived if 7 Delay + Skew is at
most 30 s; two failed refreshes in a row are not, whatever the delays.

**`ContractProofs`**, for every script, rollback script and number of executions: `Inv` says of each
point of the loop that what is in front of `pos` is applied (`WalkInv`) and that what a checkpoint
covers is (`CoveredInv`); blank statements make that a statement about two indices, which `IndexOf` relates.
`SuccessIsAll` and `CheckpointsAreTruthful` follow. `AppliedInOrder` assumes
`UndoIsBackwards`: rollback_sql undoes a statement only after those behind it, as the documentation
recommends; it is a condition of the theorem, since the loader does not look.
`ContractDelivers` (`DeliversResults`) is the link to `Runner`: `CallInv` says that during an execution the schema
only gains on `began` and during a rollback only loses, so that at the end one of the results that `Runner`
chooses from is there, and with `SuccessIsAll` a success is the one result it takes a success for.

**`BackfillProofs`**, for every table, batch size, `checkpoint_every` and number of executions:
`SuccessIsDone` and `BackoffIsForgotten` need little more than the property; `NothingIsLeftBehind` needs that
the rows a batch filled are all of those `NewPK` passes over; `ReportCovers` that at every moment the
remaining rows, the rows processed and those that joined balance with `nullAtStart`, and that a
checkpoint keeps that balance on the safe side when it grows old. `BackfillRunsOut` (`BatchesRunOut`) is the
part of `EveryBackfillEnds` that needs no fairness: `StepsLeft` weighs a row that is still to be filled as ten
steps, more than a round of the loop has. Every step of the phase but a reading above the threshold then makes
it smaller, as a batch that fills nothing means that there is nothing left (`EmptyBatch`, from
`NothingLeftBehind`'s invariant) and done_when ends the loop. Inserts make it larger, and a row behind the
cursor ends the argument (`~raced`), as it ends the truth of the property.

**`GateProofs`**: `TimeInv` bounds what is left before a query and before a sleep; `GateEndsInTime`
follows for every timeout, interval, cap and query time. `CountInv` says that as long as the gate
goes on, the counted errors are the last answers and fewer than five; `GateCountsTransients` follows.
`GateRunsOut` (`RoundsRunOut`) is the part of `EveryGateReturns` that needs no fairness: `StepsLeft` weighs a unit
of time as much as five errors, so that an error without progress and a good answer, which costs an interval but
gives the errors back, both make it smaller. It takes a poll interval of more than 0.

**`LintProofs`**, for any set of files, tables and sizes, and any command lines. `LintInv` has a part for each
step of the command at which something is known: that a file behind the loader is one that it let pass, with
its blocks untouched by the flag (`Runs`), that an accepted file has no errors (`Lints`), that each estimate counts a table and
warns if a gate is too short for it (`Counts`).

* `NothingMissing` (`NoPanic`): the cases of the loader cover those of the executors.
* `AcceptedTables` (`AcceptedFillsAll`): where the rule can read the query (`Readable`), each row it matches is
  left as it is by the assignment or not matched again after it (`KeptOrExcluded`, from the condition that the rule
  has found). So after `n` batches no row up to position `n` matches any more, or the batches stick at a row that
  the assignment leaves as it is, and have filled all in front of it (`OneBatch`, `Progress`), for a table of any
  length. `Batches` and `Assigned` are recursive functions: that their definitions have a solution
  (`BatchByBatch`, `OneAssignment`), and what it is, are shown by hand, as the library's induction takes an operator.
* `WarnedIfShort` (`EstimateHolds`): the arithmetic of the estimate, which divides twice, against the
  rounded-up number of batches, for all sizes, delays, timeouts and row counts.

Every safety invariant that a run checks is stated by a theorem, and so are the two refinements and the action
properties. Left to TLC: the three liveness properties
(`EveryCommandReturns`, `EveryGateReturns`, `EveryBackfillEnds`), as fairness needs ENABLED, which is out of the prover's reach.
For all three the decreasing measures are proved. What
is left to TLC is that a step that can be taken is taken and, for the backfill, that readings come good and the
inserts stop, which are fair by assumption.

## 5. What is conditional

* `MutualExclusion`, `LatestIsNewest`, `CompletedIsApplied`, `WarningIsTrue` and `MissingIsUndone` are
  stated under `TimelyHeartbeats`, and the theorem about `ImplementsLock` has it as its condition;
  without it they are false (an invocation that lost its lock goes on, section 6). `Lease` says
  when the condition holds.
* `NothingLeftBehind` and `EveryBackfillEnds` except the execution in which a NULL row arrived behind
  the cursor (`raced`): a row inserted with a smaller key, or between a batch and the query that
  moves the cursor. The phase then does not succeed and does not return either.
* `SuccessMeansDone` excepts rows inserted after `done_when` was asked (`late`).
* `DoneLeavesNoLock` is about statements that do not fail: a failed ReleaseLock after a
  success is only logged.
* `PhaseOrder`, `CompletedIsApplied` and `MissingIsUndone` are about migrations without two phases of one name, which the
  loader accepts and the runner cannot tell apart: it skips the second.
* `AppliedIsPrefix` is about rollback scripts that go backwards.
* `ReportedIsLeft` is about attempts with a number of their own, as the runner makes them, and allows for the
  rows that joined since the attempt counted.
* `WarningIsTrue` is about a lock that could be read: an error of GetLock counts as no lock, and the
  message then says only that the process "may be dead".
* `UndoneFromTheEnd` excepts a rollback beside an attempt in progress, which the command does not look for.
  `MissingIsUndone` holds beside one too, but for its last part: an attempt may bring back a phase that is undone.
* `CompletedIsApplied` and `DoneMeansCompleted` say of a phase recorded as rolled back only that nobody takes it
  for completed. What its Rollback has left in the schema is another matter: one that failed is logged and recorded
  all the same, and one without rollback_sql (`--on-failure rollback` comes over the validated file) or of a
  backfill sends nothing.
* `AcceptedFillsAll` is about queries the rule can read: one assignment, written `col = value`; no OR in the WHERE
  clause; no NOT in front of a condition on the column; no condition on a column whose name ends with that one's.
  The rule passes others too, since it searches for text: `col IS NULL OR x = 1` and `NOT col IS NULL` contain
  `col IS NULL`. And it lets a batch loop stop short behind a row that the assignment leaves as it is: an
  expression that is NULL for it, as the documents' `SHA2(CONCAT(user_id, payload), 256)` is for a row
  without a payload, or a constant equal to the one asked for. Such a row is matched by every batch, and when there are
  as many of them as a batch takes, it gets no further. Every one of these exceptions is needed: without it
  TLC finds a query that lint accepts and a table that it does not fill.
* `EstimateHolds` is about gates with a timeout of more than 0: 0 is two hours to the gate and not compared, and
  with a negative one, which the loader and lint let pass, the gate gives up at once.
* `RoundsRunOut` and `EveryGateReturns` assume a poll interval of more than 0 (`TimesAssumption`). Nothing refuses a
  negative one; such a gate asks without a pause until its deadline.
* The constants' assumptions: `FilesAssumption` and `SizesAssumption` are types (which fields a file has, row counts in
  Nat); `TimelyAssumption` of `Lease` is the inequality above, next to statements that take less than half an interval;
  the others are types and positive bounds.

## 6. Where code and documents disagree

* **`skip`**: `run` "skips phases already in COMPLETED state" (docs/cli-reference.md). The event and the
  lock are read before the lock is taken and not read again, so a phase that another invocation
  completes in between is started a second time. For a DDL phase that second attempt fails (the server
  refuses to repeat it), and with `on_failure: rollback` it undoes the phase that had completed.
* **`lost`**: heartbeat.go says on a lost lock that "context cancellation will propagate through the
  running phase". Nothing cancels that context; the phase goes on and may succeed.
* **`contract_resume`**: "Resume skips already-applied statements using statement_index"
  (docs/migration-yaml.md). Checkpoints are looked up under the new attempt's number, where there are none.
* **`gate_transient`**: transient errors are to be retried (docs/phases.md). The check asks the error for a
  method `Number() uint16`; the driver's error has a field, so the first error ends the gate.

Seen while modelling, without a run of their own:

* `rollback --to` is "inclusive" and inserts PHASE_ROLLED_BACK (docs/cli-reference.md:106,108). The loop ends
  in front of the target (phase/rollback.go:24), whose SQL stays, and inserts nothing. Later commands still read
  COMPLETED of what it has undone: `run` skips it and reports success on a schema without it, and `resume` does not
  bring it back. `MissingIsUndone` is stated so as to hold either way: it says nothing of the target, and that
  a completed phase may be missing behind the phase in hand is the consequence, which would be ruled out
  (as `CompletedIsApplied` does without the command) if the events were inserted.
* Rollback of a backfill is a no-op with the comment "rollback_sql handled by runner if configured"
  (phase/backfill.go:212); the runner only calls Rollback (runner.go:152), so that with `on_failure: rollback`
  a failed backfill is recorded as rolled back with its rollback_sql never sent. docs/migration-yaml.md:44 calls it
  "auto-rollback this phase on failure", and the comment of a test says that it "triggers rollback_sql and records
  PHASE_ROLLED_BACK" (tests/integration/e2e_full_migration_test.go:224).
* The rule of idempotency (docs/lint.md:23) is to make sure of a WHERE clause that excludes processed rows; the text it
  searches for (lint/rules_common.go:90) is also in clauses that do not, which section 5 lists under
  `AcceptedFillsAll`, and the query of docs/migration-yaml.md:48 excludes only the rows whose expression is not NULL.
* `isTransientMySQLError` aside, `gate` checkpoints do not exist, so status never prints a gate status; no checkpoint
  has a key `done_when`, so that progress is always "estimated"; the estimated completion is never set
  (docs/cli-reference.md shows all three).
* status reports the last phase in the canonical order that has any event, which for a file in another order
  is not the one that ran last.
* lint's errors "block execution" (docs/lint.md:14), but run never calls lint. Two of its rules (gate without
  wait_until, rollback without rollback_sql) cannot find anything, as the loader refuses the file first.
  `--post-gate` and the rule about pk_column (docs/lint.md:24,59) do not exist.
* "Every 5 min: SELECT COUNT(*) updates denominator" (docs/phases.md): the executor counts once, before its
  first batch, so that `ReportedIsLeft` allows for the rows that joined.
* An unknown phase name passes the loader and lint and fails when its turn comes; `done_when` is required by
  the documents and by nothing in the code.
* gc goes by "the latest event across all phases" and never touches a migration in progress
  (docs/cli-reference.md:141). The DELETE decides per phase: it takes the rows of the completed phases of a
  running migration, and keeps those of a phase for ever once one of its attempts has crashed without a verdict.

## 7. Not modelled, and the plan

Every component that keeps state or decides anything has a module. Worth doing next:

1. `StatementsRunOut` beside the commands, and a bound on the statements of each command.
2. The backfill against "Prevents chasing concurrent inserts" (docs/migration-yaml.md:67): the upper bound
   the documents promise for pk_column is not in the code, so there is nothing to model but its absence.
3. Two migrations in one database: their rows share tables but no keys, except that gc's DELETE goes over
   all of them.

Left out for good: parsing (YAML, SQL, DSN; resolving the DSN is a step that may fail), wording and
layout of reports, the progress display, the command tree, information_schema queries: text and I/O
without a state of their own. The server is modelled by
what its answers can be; its replication only as a reading above or below the threshold.
