-------------------------------- MODULE Gate --------------------------------
(***************************************************************************)
(* The gate executor (internal/phase/gate.go): it polls a query of the     *)
(* migration's until the answer is the expected one, a deadline passes, an *)
(* error is fatal, or transient errors come five in a row.                 *)
(*                                                                         *)
(* Time is the distance to the deadline, in units of PollInterval's.       *)
(***************************************************************************)
EXTENDS Integers, Sequences, FiniteSets

CONSTANTS
    Timeout,       \* wait_until.timeout_minutes
    PollInterval,  \* wait_until.poll_interval_ms
    BackoffCap,    \* 60 seconds
    QueryTime      \* the longest a query takes (bound)

ASSUME TimesAssumption ==
    /\ Timeout \in Nat /\ PollInterval \in Nat \ {0}
    /\ BackoffCap \in Nat \ {0} /\ QueryTime \in Nat

MaxErrors == 5

VARIABLES
    classified,         \* whether the driver's errors have a method Number()
    pc,
    left,               \* deadline - now
    consecutiveErrors,
    sleep,              \* what the select at the end of the loop waits for
    cancelled,          \* ctx is done
    answers             \* history: the latest answers of the query, MaxErrors at most

vars == <<classified, pc, left, consecutiveErrors, sleep, cancelled, answers>>

Answers == {"expected", "other", "transient", "fatal", "cancelled"}

\* How Execute returns.
Returns == {"passed", "timed out", "failed", "context"}

Smaller(a, b) == IF a < b THEN a ELSE b
Larger(a, b) == IF a < b THEN b ELSE a

\* Mutant: the interval doubles without a cap.
BackoffUncapped(n) == PollInterval * 2 ^ n

\* 1 << consecutiveErrors, for the counts at which the gate sleeps.
Shifted == <<2, 4, 8, 16>>

\* pollInterval, doubled for every error, at most a minute.
Backoff(n) == Smaller(PollInterval * Shifted[n], BackoffCap)

\* Mutant: the deadline is taken anew in every round.
LeftAnew == Timeout

LeftAfterRound == left

\* The head of the loop: the deadline first, then the context.
Check ==
    /\ pc = "check"
    /\ pc' = IF left < 0 THEN "timed out" ELSE IF cancelled THEN "context" ELSE "query"
    /\ left' = LeftAfterRound
    /\ UNCHANGED <<classified, consecutiveErrors, sleep, cancelled, answers>>

\* isTransientMySQLError: the number of the error is read through a method.
IsTransient(answer) == classified /\ answer = "transient"

\* Mutant: a good answer leaves the count of errors as it was.
ErrorsKept(answer) == IF IsTransient(answer) THEN consecutiveErrors + 1 ELSE consecutiveErrors

ErrorsAfter(answer) ==
    CASE IsTransient(answer) -> consecutiveErrors + 1
      [] answer \in {"expected", "other"} -> 0
      [] OTHER -> consecutiveErrors

\* The query takes its time, a cancelled one may still answer; the answer
\* ends the gate or says how long to sleep.
Query ==
    /\ pc = "query"
    /\ \E time \in 0 .. QueryTime : left' = left - time
    /\ \E answer \in Answers :
         /\ answer = "cancelled" => cancelled
         /\ answers' = LET all == Append(answers, answer)
                       IN  IF Len(all) > MaxErrors THEN Tail(all) ELSE all
         /\ consecutiveErrors' = ErrorsAfter(answer)
         /\ \/ /\ answer = "expected" /\ pc' = "passed" /\ UNCHANGED sleep
            \/ /\ answer = "other" /\ pc' = "sleep" /\ sleep' = PollInterval
            \/ /\ IsTransient(answer) /\ consecutiveErrors' < MaxErrors
               /\ pc' = "sleep" /\ sleep' = Backoff(consecutiveErrors')
            \/ /\ IsTransient(answer) /\ consecutiveErrors' >= MaxErrors
               /\ pc' = "failed" /\ UNCHANGED sleep
            \/ /\ answer \notin {"expected", "other"} /\ ~IsTransient(answer)
               /\ pc' = "failed" /\ UNCHANGED sleep
    /\ UNCHANGED <<classified, cancelled>>

\* The timer fires; if the context is done as well, either may be chosen.
Wake ==
    /\ pc = "sleep"
    /\ left' = left - sleep
    /\ pc' = "check"
    /\ UNCHANGED <<classified, consecutiveErrors, sleep, cancelled, answers>>

\* The context ends the sleep, at whatever moment of it.
WakeCancelled ==
    /\ pc = "sleep" /\ cancelled
    /\ \E time \in 0 .. sleep : left' = left - time
    /\ pc' = "context"
    /\ UNCHANGED <<classified, consecutiveErrors, sleep, cancelled, answers>>

Cancel ==
    /\ ~cancelled /\ pc \notin Returns
    /\ cancelled' = TRUE
    /\ UNCHANGED <<classified, pc, left, consecutiveErrors, sleep, answers>>

Init ==
    /\ classified \in BOOLEAN
    /\ pc = "check"
    /\ left = Timeout
    /\ consecutiveErrors = 0 /\ sleep = 0
    /\ cancelled = FALSE
    /\ answers = <<>>

Next == Check \/ Query \/ Wake \/ WakeCancelled \/ Cancel

Spec == Init /\ [][Next]_vars

\* Execute keeps running, timers fire and queries answer; nobody has to
\* cancel anything.
FairSpec == Spec /\ WF_vars(Check \/ Query \/ Wake \/ WakeCancelled)

-----------------------------------------------------------------------------

\* Nothing is read after the last sleep, however long it was and whenever it
\* began: a gate returns at most one query and one sleep after its deadline
\* (gate.go: the deadline is only looked at between rounds, and only the
\* backoff is capped, not the poll interval).
EndsInTime == left >= -(QueryTime + Larger(BackoffCap, PollInterval))

\* The number of errors counted is the number of transient errors at the end of
\* what the query answered, so that one good answer starts it anew; a gate
\* that gave up saw a fatal error last, or MaxErrors transient ones in a row.
CountsTransients ==
    LET trailing(n) == /\ n <= Len(answers)
                       /\ \A i \in Len(answers) - n + 1 .. Len(answers) : answers[i] = "transient"
    IN  /\ trailing(consecutiveErrors) \/ pc = "failed"
        /\ pc = "failed" =>
             \/ answers[Len(answers)] \in {"fatal", "cancelled"}
             \/ classified => trailing(MaxErrors)

\* Every gate returns, whatever the query answers and whether or not somebody
\* cancels it (gate.go: the deadline is set once, in front of the loop).
EveryGateReturns == <>(pc \in Returns)

\* A bound on the rounds that fit into some time: fewer than MaxErrors errors
\* between two answers that cost a unit of it.
Rounds(time) == MaxErrors * Larger(time + 1, 0) + MaxErrors - consecutiveErrors

StepsLeft ==
    CASE pc = "sleep" -> 3 * Rounds(left - sleep) + 3
      [] pc = "check" -> 3 * Rounds(left) + 2
      [] pc = "query" -> 3 * Rounds(left) + 1
      [] OTHER        -> 0

\* What makes every gate return: each step of the loop uses up time or one of the
\* errors it may see in a row, and a good answer, which gives the errors back,
\* always costs time.  A gate therefore asks its query boundedly often,
\* whatever the answers.
RoundsRunOut ==
    [][IF Check \/ Query \/ Wake \/ WakeCancelled THEN StepsLeft' < StepsLeft
                                                 ELSE StepsLeft' = StepsLeft]_vars

\* docs/phases.md, error classification: "Transient | 1040, 1205, 2003, 2006 |
\* Retry with exponential backoff, max 5 consecutive": a transient error that is
\* not the fifth in a row does not end the gate.
TransientIsRetried ==
    pc = "failed" /\ answers[Len(answers)] = "transient" =>
      Len(answers) = MaxErrors /\ \A i \in DOMAIN answers : answers[i] = "transient"

=============================================================================
