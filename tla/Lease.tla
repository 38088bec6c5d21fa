-------------------------------- MODULE Lease --------------------------------
(***************************************************************************)
(* The lock as a lease in time (AcquireLock, RefreshLock and ReleaseLock   *)
(* of internal/store/mysql_store.go, internal/runner/heartbeat.go): when   *)
(* does the row of a process that is alive not expire?                     *)
(*                                                                         *)
(* A process stamps the expiry by its own clock, the server compares it    *)
(* with its clock; statements take time, and a refresh may fail.  Runner   *)
(* takes the answer as its constant TimelyHeartbeats.                      *)
(***************************************************************************)
EXTENDS Integers, FiniteSets

CONSTANTS
    Procs,
    Nobody,    \* the owner of a lock that has no row
    TTL,       \* lockTTL
    Interval,  \* heartbeatInterval
    Delay,     \* the longest a statement takes (bound)
    Skew,      \* how far a process' clock may be off the server's (bound)
    Misses     \* how many refreshes in a row may fail (bound)

\* From the answer of the lock's INSERT or UPDATE to the first moment of the
\* ticker there are two more statements.
Setup == 3 * Delay

ASSUME NobodyAssumption == Nobody \notin Procs

ASSUME TimesAssumption ==
    /\ TTL \in Nat /\ Interval \in Nat /\ Delay \in Nat /\ Skew \in Nat /\ Misses \in Nat
    /\ 2 * Delay < Interval

\* What makes a heartbeat timely: from the stamp of an acquisition until its
\* first refresh two statements, the setup, the intervals and two statements.
ASSUME TimelyAssumption ==
    TTL >= Skew + 2 * Delay + Setup + (Misses + 1) * Interval + 2 * Delay

VARIABLES
    skew,   \* per process, its clock minus the server's
    owner,  \* PROCESS_ID of the lock row, or Nobody
    left,   \* EXPIRES_AT - NOW(3) of the row; -1 once it is over
    pc,
    wait,   \* since the expiry was stamped, or the statement in hand was sent
    heart   \* the heartbeat goroutine, see Beating

locks == <<owner, left>>
main == <<pc, wait>>
vars == <<skew, locks, main, heart>>

\* Where it is, since when its statement is out, the time since the last tick
\* of the ticker, and the refreshes that failed in a row.
Beating(at, since, timer, missed) ==
    [at |-> at, since |-> since, timer |-> timer, missed |-> missed]

Off == Beating("off", 0, 0, 0)

\* time.Now().UTC().Add(lockTTL), age units after it was taken, seen from the
\* server.
Expiry(p, age) == TTL + skew[p] - age

Working == {"setup", "working", "release"}

Go(p, label) == pc' = [pc EXCEPT ![p] = label]

\* A statement goes out.
Send(p, label) == Go(p, label) /\ wait' = [wait EXCEPT ![p] = 0]

\* The expiry is stamped once, for the INSERT and for the UPDATE after it.
Acquire(p) ==
    /\ pc[p] = "idle"
    /\ Send(p, "insert")
    /\ UNCHANGED <<skew, locks, heart>>

Insert(p) ==
    /\ pc[p] = "insert"
    /\ \/ /\ owner = Nobody
          /\ owner' = p /\ left' = Expiry(p, wait[p])
          /\ Send(p, "setup")
       \/ /\ owner # Nobody
          /\ Go(p, "steal")
          /\ UNCHANGED <<locks, wait>>
    /\ UNCHANGED <<skew, heart>>

\* Mutant: whatever the row says.
AlwaysExpired == TRUE

\* WHERE EXPIRES_AT < NOW(3)
Expired == left < 0

\* The UPDATE; it finds no row if the lock was released in the meantime.
Steal(p) ==
    /\ pc[p] = "steal"
    /\ \/ /\ owner # Nobody /\ Expired
          /\ owner' = p /\ left' = Expiry(p, wait[p])
          /\ Send(p, "setup")
       \/ /\ owner = Nobody \/ ~Expired
          /\ Send(p, "idle")
          /\ UNCHANGED locks
    /\ UNCHANGED <<skew, heart>>

\* The ticker starts; its first tick comes an interval later.
Start(p) ==
    /\ pc[p] = "setup"
    /\ Send(p, "working")
    /\ heart' = [heart EXCEPT ![p] = Beating("sleep", 0, 0, 0)]
    /\ UNCHANGED <<skew, locks>>

InsertHeartbeat(p) ==
    /\ heart[p].at = "sleep" /\ heart[p].timer = Interval
    /\ heart' = [heart EXCEPT ![p] = Beating("heartbeat", 0, 0, heart[p].missed)]
    /\ UNCHANGED <<skew, locks, main>>

\* The heartbeat's answer, an error or not, and the stamp of the refresh.
Restamp(p) ==
    /\ heart[p].at = "heartbeat"
    /\ heart' = [heart EXCEPT ![p] = Beating("refresh", 0, heart[p].timer, heart[p].missed)]
    /\ UNCHANGED <<skew, locks, main>>

\* Mutant: a refresh adds to what is left.
AddToLease(p) == left + TTL

NewLease(p) == Expiry(p, heart[p].since)

\* WHERE PROCESS_ID = ?: without a row of its own the goroutine returns.
RefreshLock(p) ==
    /\ heart[p].at = "refresh"
    /\ \/ /\ owner = p
          /\ left' = NewLease(p)
          /\ heart' = [heart EXCEPT ![p] = Beating("sleep", 0, heart[p].timer, 0)]
       \/ /\ owner # p
          /\ heart' = [heart EXCEPT ![p] = Off]
          /\ UNCHANGED left
    /\ UNCHANGED <<skew, owner, main>>

\* An error of the refresh is only logged.
MissRefresh(p) ==
    /\ heart[p].at = "refresh" /\ heart[p].missed < Misses
    /\ heart' = [heart EXCEPT ![p] = Beating("sleep", 0, heart[p].timer, heart[p].missed + 1)]
    /\ UNCHANGED <<skew, locks, main>>

\* The phase is over; the goroutine still beats until runPhase returns.
Finish(p) ==
    /\ pc[p] = "working"
    /\ Send(p, "release")
    /\ UNCHANGED <<skew, locks, heart>>

\* WHERE MIGRATION_NAME = ?: the row goes, whoever has it.
ReleaseLock(p) ==
    /\ pc[p] = "release"
    /\ owner' = Nobody /\ left' = -1
    /\ Send(p, "return")
    /\ UNCHANGED <<skew, heart>>

\* cancelHeartbeat; or a crash, after which another process takes the dead
\* one's place: the row stays.
Return(p) ==
    /\ pc[p] = "return"
    /\ Send(p, "idle")
    /\ heart' = [heart EXCEPT ![p] = Off]
    /\ UNCHANGED <<skew, locks>>

Crash(p) ==
    /\ pc[p] \notin {"idle", "return"}
    /\ Send(p, "idle")
    /\ heart' = [heart EXCEPT ![p] = Off]
    /\ UNCHANGED <<skew, locks>>

\* How long a process may stay where it is.
Patience(label) ==
    CASE label \in {"insert", "release", "return"} -> Delay
      [] label = "steal" -> 2 * Delay
      [] label = "setup" -> Setup

Timed == {"insert", "steal", "setup", "release", "return"}

\* No statement takes longer than Delay, and the ticker is punctual.
MayTick(p) ==
    /\ pc[p] \in Timed => wait[p] < Patience(pc[p])
    /\ heart[p].at \in {"heartbeat", "refresh"} => heart[p].since < Delay
    /\ heart[p].at = "sleep" => heart[p].timer < Interval

\* The goroutine a unit of time later.
Older(h) ==
    CASE h.at = "off" -> h
      [] h.at = "sleep" -> Beating("sleep", h.since, h.timer + 1, h.missed)
      [] OTHER -> Beating(h.at, h.since + 1, h.timer + 1, h.missed)

Tick ==
    /\ \A p \in Procs : MayTick(p)
    /\ left' = IF left < 0 THEN left ELSE left - 1
    /\ wait' = [p \in Procs |-> IF pc[p] \in Timed THEN wait[p] + 1 ELSE wait[p]]
    /\ heart' = [p \in Procs |-> Older(heart[p])]
    /\ UNCHANGED <<skew, owner, pc>>

Init ==
    /\ skew \in [Procs -> -Skew .. Skew]
    /\ owner = Nobody /\ left = -1
    /\ pc = [p \in Procs |-> "idle"] /\ wait = [p \in Procs |-> 0]
    /\ heart = [p \in Procs |-> Off]

Step(p) ==
    \/ Acquire(p) \/ Insert(p) \/ Steal(p) \/ Start(p)
    \/ InsertHeartbeat(p) \/ Restamp(p) \/ RefreshLock(p) \/ MissRefresh(p)
    \/ Finish(p) \/ ReleaseLock(p) \/ Return(p) \/ Crash(p)

Next == Tick \/ \E p \in Procs : Step(p)

Spec == Init /\ [][Next]_vars

-----------------------------------------------------------------------------

\* The row of a process that has acquired the lock, works and has not yet
\* released it is its own and has not expired, so that nobody may steal it:
\* lockTTL against heartbeatInterval, slow statements, clocks that differ and
\* failed refreshes (docs/runner-internals.md, Timing Constants).
LeaseKept == \A p \in Procs : pc[p] \in Working => owner = p /\ left >= 0

\* What a dead process leaves behind can be stolen after lockTTL, give or take
\* the clocks, however often it had refreshed the row.
LeaseBounded == left <= TTL + Skew

Row == [holder |-> owner, live |-> owner # Nobody /\ left >= 0]

LockView == INSTANCE Lock WITH row <- Row, working <- {p \in Procs : pc[p] \in Working}

\* The lease implements the lock that Runner assumes with TimelyHeartbeats: with
\* clocks, slow statements and failed refreshes it expires, changes hands and
\* is renewed only as Lock allows.
LeaseImplementsLock == LockView!Spec

=============================================================================
