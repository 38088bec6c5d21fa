---------------------------- MODULE LeaseProofs ----------------------------
(***************************************************************************)
(* A lease of TTL is long enough, for every number of processes and every  *)
(* value of the times that TimelyAssumption allows: the row of a process   *)
(* at work never expires, so that no two processes are ever at work.       *)
(***************************************************************************)
EXTENDS Lease, TLAPS

Labels == Timed \cup {"idle", "working"}
Beats == {"off", "sleep", "heartbeat", "refresh"}

LeaseType ==
    /\ skew \in [Procs -> -Skew .. Skew]
    /\ left \in Int
    /\ pc \in [Procs -> Labels]
    /\ wait \in [Procs -> Nat]
    /\ heart \in [Procs -> [at : Beats, since : Nat, timer : Nat, missed : Nat]]

\* How long everything takes: no statement longer than it may, and the
\* statements of a heartbeat are over before the next tick of the ticker.
OnTime(p) ==
    /\ pc[p] \in {"insert", "release", "return"} => wait[p] <= Delay
    /\ pc[p] = "steal" => wait[p] <= 2 * Delay
    /\ pc[p] = "setup" => wait[p] <= Setup
    /\ pc[p] \in {"idle", "insert", "steal", "setup"} => heart[p].at = "off"
    /\ heart[p].missed <= Misses
    /\ heart[p].at = "sleep" => heart[p].timer <= Interval
    /\ heart[p].at = "heartbeat" => heart[p].timer = heart[p].since /\ heart[p].since <= Delay
    /\ heart[p].at = "refresh" => heart[p].timer <= Delay + heart[p].since /\ heart[p].since <= Delay

\* The time that the refreshes take which may still fail.
Reserve(m) == (Misses - m) * Interval

\* The lease of a process at work lasts until the latest moment of the refresh
\* that does not fail: 2 * Delay after a tick of the ticker.
Secure(p) ==
    pc[p] \in Working =>
      /\ owner = p
      /\ pc[p] = "setup" => left >= TTL - Skew - 2 * Delay - wait[p]
      /\ pc[p] # "setup" =>
           /\ heart[p].at # "off"
           /\ heart[p].at = "sleep" =>
                left >= 2 * Delay + Reserve(heart[p].missed) + Interval - heart[p].timer
           /\ heart[p].at # "sleep" =>
                left >= 2 * Delay + Reserve(heart[p].missed) - heart[p].timer

LeaseInv ==
    /\ LeaseType
    /\ LeaseBounded
    /\ \A p \in Procs : OnTime(p) /\ Secure(p)

-----------------------------------------------------------------------------

LEMMA ReserveFacts ==
    /\ \A m \in 0 .. Misses : Reserve(m) \in Nat
    /\ \A m \in 0 .. Misses : m < Misses => Reserve(m) = Reserve(m + 1) + Interval
    /\ Reserve(0) + Interval = (Misses + 1) * Interval
<1> USE TimesAssumption
<1>1. ASSUME NEW m \in 0 .. Misses PROVE Reserve(m) \in Nat
  <2>1. Misses - m \in Nat /\ Interval \in Nat
    OBVIOUS
  <2>2. \A a, b \in Nat : a * b \in Nat
    OBVIOUS
  <2> QED
    BY <2>1, <2>2 DEF Reserve
<1>2. ASSUME NEW m \in 0 .. Misses, m < Misses PROVE Reserve(m) = Reserve(m + 1) + Interval
  BY <1>2 DEF Reserve
<1>3. Reserve(0) + Interval = (Misses + 1) * Interval
  BY DEF Reserve
<1> QED
  BY <1>1, <1>2, <1>3

\* What TimelyAssumption says of a fresh lease.
LEMMA Enough ==
    /\ TTL \in Nat /\ Skew \in Nat /\ Delay \in Nat /\ Interval \in Nat /\ Misses \in Nat
    /\ Setup = 3 * Delay /\ 2 * Delay < Interval
    /\ Reserve(0) \in Nat
    /\ TTL >= Skew + 7 * Delay + Reserve(0) + Interval
<1> HIDE DEF Reserve
<1>1. (Misses + 1) * Interval = Reserve(0) + Interval /\ Reserve(0) \in Nat
  BY ReserveFacts, TimesAssumption
<1> QED
  BY <1>1, TimesAssumption, TimelyAssumption DEF Setup

\* A secure lease has not expired.
LEMMA SecureIsValid ==
    ASSUME LeaseInv, NEW p \in Procs, pc[p] \in Working
    PROVE  owner = p /\ left >= 0
<1> USE Enough DEF LeaseInv, LeaseType
<1>1. OnTime(p) /\ Secure(p) /\ left \in Int /\ wait[p] \in Nat
  OBVIOUS
<1>2. heart[p].timer \in Nat /\ heart[p].since \in Nat /\ heart[p].missed \in 0 .. Misses
  BY <1>1 DEF OnTime
<1>3. Reserve(heart[p].missed) \in Nat
  BY <1>2, ReserveFacts
<1>4. CASE pc[p] = "setup"
  BY <1>1, <1>4 DEF OnTime, Secure, Working
<1>5. CASE pc[p] # "setup" /\ heart[p].at = "sleep"
  BY <1>1, <1>2, <1>3, <1>5 DEF OnTime, Secure, Working
<1>6. CASE pc[p] # "setup" /\ heart[p].at # "sleep"
  <2>1. heart[p].timer <= 2 * Delay
    BY <1>1, <1>2, <1>6 DEF OnTime, Secure, Beats
  <2> QED
    BY <1>1, <1>2, <1>3, <1>6, <2>1 DEF Secure, Working
<1> QED
  BY <1>4, <1>5, <1>6


LEMMA LeaseInit == Init => LeaseInv
<1> SUFFICES ASSUME Init PROVE LeaseInv
  OBVIOUS
<1> USE Enough DEF Init, Off, Beating
<1>1. LeaseType
  BY DEF LeaseType, Labels, Timed, Beats
<1>2. LeaseBounded
  BY DEF LeaseBounded
<1>3. ASSUME NEW p \in Procs PROVE OnTime(p) /\ Secure(p)
  BY DEF OnTime, Secure, Working
<1> QED
  BY <1>1, <1>2, <1>3 DEF LeaseInv

\* A beating heart is a record of its type.
LEMMA BeatingType ==
    ASSUME NEW at \in Beats, NEW since \in Nat, NEW timer \in Nat, NEW missed \in Nat
    PROVE  /\ Beating(at, since, timer, missed) \in [at : Beats, since : Nat, timer : Nat, missed : Nat]
           /\ Beating(at, since, timer, missed).at = at
           /\ Beating(at, since, timer, missed).since = since
           /\ Beating(at, since, timer, missed).timer = timer
           /\ Beating(at, since, timer, missed).missed = missed
BY DEF Beating

LEMMA OffType ==
    /\ Off \in [at : Beats, since : Nat, timer : Nat, missed : Nat]
    /\ Off.at = "off" /\ Off.missed = 0
BY BeatingType DEF Off, Beats

LEMMA TypeStep ==
    ASSUME LeaseType, Next
    PROVE  LeaseType'
<1> USE Enough, OffType DEF LeaseType, Labels, Timed
<1>1. CASE Tick
  <2>1. ASSUME NEW h \in [at : Beats, since : Nat, timer : Nat, missed : Nat]
        PROVE  Older(h) \in [at : Beats, since : Nat, timer : Nat, missed : Nat]
    BY DEF Older, Beating, Beats
  <2>2. heart' \in [Procs -> [at : Beats, since : Nat, timer : Nat, missed : Nat]]
    BY <1>1, <2>1 DEF Tick
  <2>3. left' \in Int /\ wait' \in [Procs -> Nat] /\ UNCHANGED <<skew, pc>>
    BY <1>1 DEF Tick
  <2> QED
    BY <2>2, <2>3
<1>2. ASSUME NEW p \in Procs, Step(p) PROVE LeaseType'
  <2> USE DEF main, locks, Send, Go
  <2>0. /\ heart[p].at \in Beats /\ heart[p].since \in Nat
        /\ heart[p].timer \in Nat /\ heart[p].missed \in Nat /\ skew[p] \in Int
    OBVIOUS
  <2>1. CASE Acquire(p)
    BY <2>1 DEF Acquire
  <2>2. CASE Insert(p)
    BY <2>0, <2>2 DEF Insert, Expiry
  <2>3. CASE Steal(p)
    BY <2>0, <2>3 DEF Steal, Expiry
  <2>4. CASE Start(p)
    <3>1. Beating("sleep", 0, 0, 0) \in [at : Beats, since : Nat, timer : Nat, missed : Nat]
      BY BeatingType DEF Beats
    <3> QED
      BY <2>4, <3>1 DEF Start
  <2>5. CASE InsertHeartbeat(p)
    <3>1. Beating("heartbeat", 0, 0, heart[p].missed) \in [at : Beats, since : Nat, timer : Nat, missed : Nat]
      BY <2>0, BeatingType DEF Beats
    <3> QED
      BY <2>5, <3>1 DEF InsertHeartbeat
  <2>6. CASE Restamp(p)
    <3>1. Beating("refresh", 0, heart[p].timer, heart[p].missed)
            \in [at : Beats, since : Nat, timer : Nat, missed : Nat]
      BY <2>0, BeatingType DEF Beats
    <3> QED
      BY <2>6, <3>1 DEF Restamp
  <2>7. CASE RefreshLock(p)
    <3>1. Beating("sleep", 0, heart[p].timer, 0) \in [at : Beats, since : Nat, timer : Nat, missed : Nat]
      BY <2>0, BeatingType DEF Beats
    <3> QED
      BY <2>0, <2>7, <3>1 DEF RefreshLock, NewLease, Expiry
  <2>8. CASE MissRefresh(p)
    <3>1. Beating("sleep", 0, heart[p].timer, heart[p].missed + 1)
            \in [at : Beats, since : Nat, timer : Nat, missed : Nat]
      <4>1. heart[p].missed + 1 \in Nat
        BY <2>0
      <4> QED
        BY <2>0, <4>1, BeatingType DEF Beats
    <3> QED
      BY <2>8, <3>1 DEF MissRefresh
  <2>9. CASE Finish(p)
    BY <2>9 DEF Finish
  <2>10. CASE ReleaseLock(p)
    BY <2>10 DEF ReleaseLock
  <2>11. CASE Return(p)
    BY <2>11 DEF Return
  <2>12. CASE Crash(p)
    BY <2>12 DEF Crash
  <2> QED
    BY <1>2, <2>1, <2>2, <2>3, <2>4, <2>5, <2>6, <2>7, <2>8, <2>9, <2>10, <2>11, <2>12 DEF Step
<1> QED
  BY <1>1, <1>2 DEF Next


\* What a step of p leaves alone of another process.
LEMMA StepOfAnother ==
    ASSUME LeaseType, NEW p \in Procs, NEW q \in Procs, p # q, Step(p)
    PROVE  pc'[q] = pc[q] /\ wait'[q] = wait[q] /\ heart'[q] = heart[q] /\ skew' = skew
<1> USE DEF LeaseType, main, locks, Send, Go
<1>1. CASE Acquire(p) \/ Insert(p) \/ Steal(p) \/ Start(p)
  BY <1>1 DEF Acquire, Insert, Steal, Start
<1>2. CASE InsertHeartbeat(p) \/ Restamp(p) \/ RefreshLock(p) \/ MissRefresh(p)
  BY <1>2 DEF InsertHeartbeat, Restamp, RefreshLock, MissRefresh
<1>3. CASE Finish(p) \/ ReleaseLock(p) \/ Return(p) \/ Crash(p)
  BY <1>3 DEF Finish, ReleaseLock, Return, Crash
<1> QED
  BY <1>1, <1>2, <1>3 DEF Step

\* The lock row changes only under a process that takes it while nobody is at
\* work, refreshes its own, or releases its own.
LEMMA LocksOfAnother ==
    ASSUME LeaseInv, NEW p \in Procs, NEW q \in Procs, p # q, Step(p), pc[q] \in Working
    PROVE  UNCHANGED locks
<1>1. owner = q /\ left >= 0 /\ left \in Int /\ q # Nobody
  BY SecureIsValid, NobodyAssumption DEF LeaseInv, LeaseType
<1>2. pc[p] \notin Working
  BY <1>1, SecureIsValid
<1>3. CASE Insert(p)
  BY <1>1, <1>3 DEF Insert
<1>4. CASE Steal(p)
  BY <1>1, <1>4 DEF Steal, Expired
<1>5. CASE RefreshLock(p)
  BY <1>1, <1>5 DEF RefreshLock, locks
<1>6. CASE ReleaseLock(p)
  BY <1>2, <1>6 DEF ReleaseLock, Working
<1>7. CASE Acquire(p) \/ Start(p) \/ InsertHeartbeat(p) \/ Restamp(p) \/ MissRefresh(p)
        \/ Finish(p) \/ Return(p) \/ Crash(p)
  BY <1>7 DEF Acquire, Start, InsertHeartbeat, Restamp, MissRefresh, Finish, Return, Crash
<1> QED
  BY <1>3, <1>4, <1>5, <1>6, <1>7 DEF Step

LEMMA BoundedStep ==
    ASSUME LeaseInv, Next
    PROVE  LeaseBounded'
<1> USE Enough DEF LeaseInv, LeaseType, LeaseBounded
<1>1. CASE Tick
  BY <1>1 DEF Tick
<1>2. ASSUME NEW p \in Procs, Step(p) PROVE LeaseBounded'
  <2>0. /\ \A age \in Nat : Expiry(p, age) <= TTL + Skew
        /\ wait[p] \in Nat /\ heart[p].since \in Nat
    <3>1. skew[p] \in -Skew .. Skew
      OBVIOUS
    <3> QED
      BY <3>1 DEF Expiry
  <2>1. CASE Insert(p)
    BY <2>0, <2>1 DEF Insert, locks
  <2>2. CASE Steal(p)
    BY <2>0, <2>2 DEF Steal, locks
  <2>3. CASE RefreshLock(p)
    BY <2>0, <2>3 DEF RefreshLock, NewLease
  <2>4. CASE ReleaseLock(p)
    BY <2>4 DEF ReleaseLock
  <2>5. CASE Acquire(p) \/ Start(p) \/ InsertHeartbeat(p) \/ Restamp(p) \/ MissRefresh(p)
          \/ Finish(p) \/ Return(p) \/ Crash(p)
    BY <2>5 DEF Acquire, Start, InsertHeartbeat, Restamp, MissRefresh, Finish, Return, Crash, locks
  <2> QED
    BY <1>2, <2>1, <2>2, <2>3, <2>4, <2>5 DEF Step
<1> QED
  BY <1>1, <1>2 DEF Next


\* Time passes for the lease and for the ticker alike, and nobody overstays.
LEMMA TickSecures ==
    ASSUME LeaseInv, Tick, NEW p \in Procs
    PROVE  OnTime(p)' /\ Secure(p)'
<1> USE Enough DEF LeaseInv, LeaseType
<1>0. OnTime(p) /\ Secure(p) /\ MayTick(p) /\ left \in Int /\ wait[p] \in Nat
  BY DEF Tick
<1>1. /\ heart[p].at \in Beats /\ heart[p].since \in Nat
      /\ heart[p].timer \in Nat /\ heart[p].missed \in Nat
  OBVIOUS
<1>2. /\ pc'[p] = pc[p] /\ owner' = owner /\ heart'[p] = Older(heart[p])
      /\ left' = IF left < 0 THEN left ELSE left - 1
      /\ wait'[p] = IF pc[p] \in Timed THEN wait[p] + 1 ELSE wait[p]
  BY DEF Tick
<1>3. /\ heart'[p].at = heart[p].at /\ heart'[p].missed = heart[p].missed
      /\ heart[p].at # "off" => heart'[p].timer = heart[p].timer + 1
      /\ heart[p].at \in {"heartbeat", "refresh"} => heart'[p].since = heart[p].since + 1
  BY <1>1, <1>2, BeatingType DEF Older, Beating, Beats
<1>4. OnTime(p)'
  <2>1. /\ pc[p] \in {"insert", "release", "return"} => wait'[p] <= Delay
        /\ pc[p] = "steal" => wait'[p] <= 2 * Delay
        /\ pc[p] = "setup" => wait'[p] <= Setup
    BY <1>0, <1>2 DEF MayTick, Timed, Patience
  <2>2. /\ heart[p].at = "sleep" => heart'[p].timer <= Interval
        /\ heart[p].at = "heartbeat" =>
             heart'[p].timer = heart'[p].since /\ heart'[p].since <= Delay
        /\ heart[p].at = "refresh" =>
             heart'[p].timer <= Delay + heart'[p].since /\ heart'[p].since <= Delay
    BY <1>0, <1>1, <1>3 DEF MayTick, OnTime
  <2> QED
    BY <1>0, <1>2, <1>3, <2>1, <2>2 DEF OnTime
<1>5. Secure(p)'
  <2> SUFFICES ASSUME pc[p] \in Working PROVE Secure(p)'
    BY <1>2 DEF Secure
  <2>1. owner = p /\ left >= 0 /\ left' = left - 1
    BY <1>0, <1>2, SecureIsValid
  <2>2. heart[p].missed \in 0 .. Misses
    BY <1>0, <1>1 DEF OnTime
  <2>3. Reserve(heart[p].missed) \in Nat /\ Reserve(heart'[p].missed) = Reserve(heart[p].missed)
    BY <1>3, <2>2, ReserveFacts
  <2>4. CASE pc[p] = "setup"
    BY <1>0, <1>2, <2>1, <2>4 DEF Secure, Timed
  <2>5. CASE pc[p] # "setup"
    BY <1>0, <1>1, <1>2, <1>3, <2>1, <2>3, <2>5 DEF Secure, Reserve
  <2> QED
    BY <2>4, <2>5
<1> QED
  BY <1>4, <1>5


\* A process' own steps: a fresh lease is long enough, and a refresh that fails
\* uses up an interval of the reserve.
LEMMA OwnStepSecures ==
    ASSUME LeaseInv, NEW p \in Procs, Step(p)
    PROVE  OnTime(p)' /\ Secure(p)'
<1> USE Enough DEF LeaseInv, LeaseType, main, locks, Send, Go
<1>0. /\ OnTime(p) /\ Secure(p) /\ left \in Int /\ wait[p] \in Nat /\ p # Nobody
      /\ skew[p] \in Int /\ skew[p] >= -Skew
  BY NobodyAssumption
<1>1. /\ heart[p].at \in Beats /\ heart[p].since \in Nat
      /\ heart[p].timer \in Nat /\ heart[p].missed \in 0 .. Misses
  BY DEF OnTime
<1>2. \A m \in 0 .. Misses : Reserve(m) \in Nat
  BY ReserveFacts
<1>3. CASE Acquire(p)
  BY <1>0, <1>3 DEF Acquire, OnTime, Secure, Working
<1>4. CASE Insert(p)
  <2>1. CASE owner = Nobody
    <3>1. pc'[p] = "setup" /\ wait'[p] = 0 /\ owner' = p /\ heart'[p] = heart[p]
          /\ left' = TTL + skew[p] - wait[p] /\ wait[p] <= Delay /\ heart[p].at = "off"
      BY <1>0, <1>4, <2>1 DEF Insert, Expiry, OnTime
    <3>2. OnTime(p)'
      BY <1>0, <3>1 DEF OnTime
    <3> QED
      BY <1>0, <3>1, <3>2 DEF Secure
  <2>2. CASE owner # Nobody
    <3>1. pc'[p] = "steal" /\ wait'[p] = wait[p] /\ heart'[p] = heart[p] /\ wait[p] <= Delay
          /\ heart[p].at = "off"
      BY <1>0, <1>4, <2>2 DEF Insert, OnTime
    <3> QED
      BY <1>0, <3>1 DEF OnTime, Secure, Working
  <2> QED
    BY <2>1, <2>2
<1>5. CASE Steal(p)
  <2>1. CASE owner # Nobody /\ Expired
    <3>1. pc'[p] = "setup" /\ wait'[p] = 0 /\ owner' = p /\ heart'[p] = heart[p]
          /\ left' = TTL + skew[p] - wait[p] /\ wait[p] <= 2 * Delay /\ heart[p].at = "off"
      BY <1>0, <1>5, <2>1 DEF Steal, Expiry, OnTime
    <3>2. OnTime(p)'
      BY <1>0, <3>1 DEF OnTime
    <3> QED
      BY <1>0, <3>1, <3>2 DEF Secure
  <2>2. CASE ~(owner # Nobody /\ Expired)
    <3>1. pc'[p] = "idle" /\ heart'[p] = heart[p] /\ heart[p].at = "off"
      BY <1>0, <1>5, <2>2 DEF Steal, OnTime
    <3> QED
      BY <1>0, <3>1 DEF OnTime, Secure, Working
  <2> QED
    BY <2>1, <2>2
<1>6. CASE Start(p)
  <2>1. /\ pc'[p] = "working" /\ owner' = owner /\ left' = left
        /\ heart'[p].at = "sleep" /\ heart'[p].timer = 0 /\ heart'[p].missed = 0
    <3>1. heart'[p] = Beating("sleep", 0, 0, 0)
      BY <1>6 DEF Start
    <3> QED
      BY <1>6, <3>1 DEF Start, Beating
  <2>2. owner = p /\ left >= TTL - Skew - 2 * Delay - Setup
    BY <1>0, <1>6 DEF Start, OnTime, Secure, Working
  <2>3. OnTime(p)'
    BY <2>1 DEF OnTime
  <2>4. Reserve(heart'[p].missed) = Reserve(0)
    BY <2>1
  <2> QED
    BY <2>1, <2>2, <2>3, <2>4 DEF Secure, Reserve
<1>7. CASE InsertHeartbeat(p)
  <2>1. /\ heart[p].at = "sleep" /\ heart[p].timer = Interval
        /\ pc'[p] = pc[p] /\ wait'[p] = wait[p] /\ owner' = owner /\ left' = left
        /\ heart'[p].at = "heartbeat" /\ heart'[p].since = 0 /\ heart'[p].timer = 0
        /\ heart'[p].missed = heart[p].missed
    <3>1. heart'[p] = Beating("heartbeat", 0, 0, heart[p].missed)
      BY <1>7 DEF InsertHeartbeat
    <3> QED
      BY <1>1, <1>7, <3>1 DEF InsertHeartbeat, Beating
  <2>2. Reserve(heart'[p].missed) = Reserve(heart[p].missed) /\ Reserve(heart[p].missed) \in Nat
    BY <1>1, <1>2, <2>1
  <2> QED
    BY <1>0, <1>1, <2>1, <2>2 DEF OnTime, Secure, Reserve
<1>8. CASE Restamp(p)
  <2>1. /\ heart[p].at = "heartbeat"
        /\ pc'[p] = pc[p] /\ wait'[p] = wait[p] /\ owner' = owner /\ left' = left
        /\ heart'[p].at = "refresh" /\ heart'[p].since = 0 /\ heart'[p].timer = heart[p].timer
        /\ heart'[p].missed = heart[p].missed
    <3>1. heart'[p] = Beating("refresh", 0, heart[p].timer, heart[p].missed)
      BY <1>8 DEF Restamp
    <3> QED
      BY <1>1, <1>8, <3>1 DEF Restamp, Beating
  <2>2. Reserve(heart'[p].missed) = Reserve(heart[p].missed) /\ Reserve(heart[p].missed) \in Nat
    BY <1>1, <1>2, <2>1
  <2> QED
    BY <1>0, <1>1, <2>1, <2>2 DEF OnTime, Secure, Reserve
<1>9. CASE RefreshLock(p)
  <2>1. CASE owner = p
    <3>1. /\ heart[p].at = "refresh"
          /\ pc'[p] = pc[p] /\ wait'[p] = wait[p] /\ owner' = owner
          /\ left' = TTL + skew[p] - heart[p].since
          /\ heart'[p].at = "sleep" /\ heart'[p].timer = heart[p].timer /\ heart'[p].missed = 0
      <4>1. heart'[p] = Beating("sleep", 0, heart[p].timer, 0)
        BY <1>9, <2>1 DEF RefreshLock
      <4> QED
        BY <1>1, <1>9, <2>1, <4>1 DEF RefreshLock, NewLease, Expiry, Beating
    <3>2. Reserve(heart'[p].missed) = Reserve(0)
      BY <3>1
    <3>3. heart[p].since <= Delay /\ heart[p].timer <= 2 * Delay /\ pc[p] # "setup"
      BY <1>0, <1>1, <3>1 DEF OnTime
    <3>4. OnTime(p)'
      BY <1>0, <1>1, <3>1, <3>3 DEF OnTime
    <3> QED
      BY <1>0, <1>1, <3>1, <3>2, <3>3, <3>4 DEF Secure, Reserve
  <2>2. CASE owner # p
    <3>1. pc'[p] = pc[p] /\ wait'[p] = wait[p] /\ heart'[p] = Off
      BY <1>9, <2>2 DEF RefreshLock
    <3> QED
      BY <1>0, <2>2, <3>1, OffType DEF OnTime, Secure
  <2> QED
    BY <2>1, <2>2
<1>10. CASE MissRefresh(p)
  <2>1. /\ heart[p].at = "refresh" /\ heart[p].missed < Misses
        /\ pc'[p] = pc[p] /\ wait'[p] = wait[p] /\ owner' = owner /\ left' = left
        /\ heart'[p].at = "sleep" /\ heart'[p].timer = heart[p].timer
        /\ heart'[p].missed = heart[p].missed + 1
    <3>1. heart'[p] = Beating("sleep", 0, heart[p].timer, heart[p].missed + 1)
      BY <1>10 DEF MissRefresh
    <3> QED
      BY <1>1, <1>10, <3>1 DEF MissRefresh, Beating
  <2>2. Reserve(heart'[p].missed) + Interval = Reserve(heart[p].missed)
        /\ Reserve(heart'[p].missed) \in Nat
    BY <1>1, <1>2, <2>1, ReserveFacts
  <2>3. heart[p].timer <= 2 * Delay
    BY <1>0, <1>1, <2>1 DEF OnTime
  <2>4. OnTime(p)'
    BY <1>0, <1>1, <2>1, <2>3 DEF OnTime
  <2> QED
    BY <1>0, <1>1, <2>1, <2>2, <2>4 DEF Secure, Reserve
<1>11. CASE Finish(p)
  BY <1>0, <1>1, <1>11 DEF Finish, OnTime, Secure, Working, Reserve
<1>12. CASE ReleaseLock(p)
  BY <1>0, <1>1, <1>12 DEF ReleaseLock, OnTime, Secure, Working
<1>13. CASE Return(p)
  BY <1>0, <1>13, OffType DEF Return, OnTime, Secure, Working
<1>14. CASE Crash(p)
  BY <1>0, <1>14, OffType DEF Crash, OnTime, Secure, Working
<1> QED
  BY <1>3, <1>4, <1>5, <1>6, <1>7, <1>8, <1>9, <1>10, <1>11, <1>12, <1>13, <1>14 DEF Step

LEMMA LeaseStep == LeaseInv /\ [Next]_vars => LeaseInv'
<1> SUFFICES ASSUME LeaseInv, [Next]_vars PROVE LeaseInv'
  OBVIOUS
<1>1. CASE UNCHANGED vars
  BY <1>1 DEF vars, main, locks, LeaseInv, LeaseType, LeaseBounded, OnTime, Secure, Working, Reserve
<1>2. CASE Next
  <2>1. LeaseType' /\ LeaseBounded'
    BY <1>2, TypeStep, BoundedStep DEF LeaseInv
  <2>2. ASSUME NEW q \in Procs PROVE OnTime(q)' /\ Secure(q)'
    <3>1. CASE Tick
      BY <3>1, TickSecures
    <3>2. ASSUME NEW p \in Procs, Step(p) PROVE OnTime(q)' /\ Secure(q)'
      <4>1. CASE p = q
        BY <3>2, <4>1, OwnStepSecures
      <4>2. CASE p # q
        <5>1. pc'[q] = pc[q] /\ wait'[q] = wait[q] /\ heart'[q] = heart[q]
          BY <3>2, <4>2, StepOfAnother DEF LeaseInv
        <5>2. pc[q] \in Working => owner' = owner /\ left' = left
          BY <3>2, <4>2, LocksOfAnother DEF locks
        <5> QED
          BY <5>1, <5>2 DEF LeaseInv, OnTime, Secure, Reserve
      <4> QED
        BY <4>1, <4>2
    <3> QED
      BY <1>2, <3>1, <3>2 DEF Next
  <2> QED
    BY <2>1, <2>2 DEF LeaseInv
<1> QED
  BY <1>1, <1>2

\* docs/runner-internals.md, Timing Constants: with lockTTL as long as the
\* missed intervals, the clocks and the statements ask for, a process at work
\* keeps its lock.
THEOREM LeaseIsKept == Spec => []LeaseKept
<1>1. LeaseInv => LeaseKept
  BY SecureIsValid DEF LeaseKept
<1> QED
  BY <1>1, LeaseInit, LeaseStep, PTL DEF Spec

\* mysql_store.go: AcquireLock and RefreshLock stamp the expiry anew, so that
\* a dead process' lock lasts no longer than one lease.
THEOREM LeaseIsBounded == Spec => []LeaseBounded
<1>1. LeaseInv => LeaseBounded
  BY DEF LeaseInv
<1> QED
  BY <1>1, LeaseInit, LeaseStep, PTL DEF Spec

-----------------------------------------------------------------------------
(* The lease implements the lock of Lock                                   *)

Workers == {p \in Procs : pc[p] \in Working}

LEMMA InvKeeps == LeaseInv => LeaseKept
  BY SecureIsValid DEF LeaseKept

\* A stamp that is not too old is in the future.
LEMMA StampIsLive ==
    ASSUME LeaseType, NEW p \in Procs, NEW age \in Nat, age <= 2 * Delay
    PROVE  TTL + skew[p] - age >= 0
<1>1. skew[p] \in Int /\ -Skew <= skew[p]
  BY Enough DEF LeaseType
<1> QED
  BY <1>1, Enough

\* A step of one process moves no other, which leaves three sets of workers.
LEMMA WorkersAfter ==
    ASSUME LeaseType, NEW p \in Procs, Step(p)
    PROVE  /\ pc'[p] \in Working => Workers' = Workers \cup {p}
           /\ pc'[p] \notin Working => Workers' = Workers \ {p}
<1>1. \A q \in Procs : q # p => pc'[q] = pc[q]
  BY DEF Step, Acquire, Insert, Steal, Start, InsertHeartbeat, Restamp, RefreshLock, MissRefresh,
         Finish, ReleaseLock, Return, Crash, Send, Go, main, LeaseType
<1> QED
  BY <1>1 DEF Workers

LEMMA TakeIsAllowed ==
    ASSUME LeaseType, NEW p \in Procs, Step(p), pc[p] \notin Working, ~Row.live,
           owner' = p, left' >= 0
    PROVE  LockView!Next
<1>1. Row' = [holder |-> p, live |-> TRUE]
  BY NobodyAssumption DEF Row
<1>2. Workers' \in {Workers, Workers \cup {p}} /\ p \notin Workers
  BY WorkersAfter DEF Workers
<1> QED
  BY <1>1, <1>2 DEF LockView!Next, LockView!Take, Workers

LEMMA LeaveIsAllowed ==
    ASSUME LeaseType, NEW p \in Procs, Step(p), pc[p] \in Working, pc'[p] \notin Working,
           Row' \in {Row, LockView!NoRow}
    PROVE  LockView!Next
<1>1. Workers' = Workers \ {p} /\ p \in Workers
  BY WorkersAfter DEF Workers
<1> QED
  BY <1>1 DEF LockView!Next, LockView!Leave, Workers

LEMMA LeaseStepIsLockStep ==
    ASSUME LeaseInv, LeaseInv', [Next]_vars
    PROVE  [LockView!Next]_<<Row, Workers>>
<1>1. LeaseType /\ LeaseKept /\ LeaseKept'
  <2>1. LeaseInv' => LeaseKept'
    BY InvKeeps, PTL
  <2> QED
    BY <2>1, InvKeeps DEF LeaseInv
<1>2. CASE UNCHANGED vars
  BY <1>2 DEF vars, locks, main, Row, Workers
<1>3. CASE Tick
  <2>1. Workers' = Workers /\ owner' = owner /\ pc' = pc
    BY <1>3 DEF Tick, Workers
  <2>2. CASE Row' = Row
    BY <2>1, <2>2
  <2>3. CASE Row' # Row
    <3>1. left' < 0 /\ left >= 0 /\ owner # Nobody
      <4>1. owner # Nobody /\ ~(left' >= 0 <=> left >= 0)
        BY <2>1, <2>3 DEF Row
      <4>2. left \in Int /\ left' = IF left < 0 THEN left ELSE left - 1
        BY <1>1, <1>3 DEF Tick, LeaseType
      <4> QED
        BY <4>1, <4>2
    <3>2. owner \notin Workers
      <4>1. left \in Int /\ left' \in Int /\ ~(left' >= 0)
        BY <1>1, <1>3, <3>1 DEF Tick, LeaseType
      <4>2. \A p \in Procs : pc[p] \in Working => left' >= 0
        BY <1>1, <2>1 DEF LeaseKept
      <4> QED
        BY <4>1, <4>2 DEF Workers
    <3>3. Row' = [holder |-> Row.holder, live |-> FALSE] /\ Row.live /\ Row.holder = owner
      <4>1. left \in Int /\ left' \in Int /\ ~(left' >= 0)
        BY <1>1, <1>3, <3>1 DEF Tick, LeaseType
      <4>2. /\ (owner # Nobody /\ left' >= 0) = FALSE
            /\ (owner # Nobody /\ left >= 0) = TRUE
        BY <3>1, <4>1
      <4>3. Row' = [holder |-> owner, live |-> FALSE]
        BY <2>1, <4>2 DEF Row
      <4>4. Row = [holder |-> owner, live |-> TRUE]
        BY <4>2 DEF Row
      <4>5. Row.live /\ Row.holder = owner
        BY <4>4
      <4> QED
        BY <4>3, <4>5
    <3> QED
      BY <2>1, <3>2, <3>3 DEF LockView!Next, LockView!Expire, Workers
  <2> QED
    BY <2>2, <2>3
<1>4. ASSUME NEW p \in Procs, Insert(p) \/ Steal(p) PROVE [LockView!Next]_<<Row, Workers>>
  <2>1. pc[p] \notin Working /\ Step(p) /\ wait[p] \in Nat /\ wait[p] <= 2 * Delay
    BY <1>1, <1>4, Enough DEF Insert, Steal, Working, Step, LeaseInv, OnTime, LeaseType
  <2>2. CASE owner' = p /\ left' = Expiry(p, wait[p]) /\ ~Row.live
    <3>1. left' >= 0
      BY <1>1, <2>1, <2>2, StampIsLive DEF Expiry
    <3> QED
      BY <1>1, <2>1, <2>2, <3>1, TakeIsAllowed
  <2>3. CASE owner' = owner /\ left' = left /\ pc'[p] \notin Working
    <3>1. Row' = Row /\ Workers' = Workers \ {p} /\ p \notin Workers
      BY <1>1, <2>1, <2>3, WorkersAfter DEF Row, Workers
    <3> QED
      BY <3>1
  <2>4. \/ owner' = p /\ left' = Expiry(p, wait[p]) /\ ~Row.live
        \/ owner' = owner /\ left' = left /\ pc'[p] \notin Working
    <3>1. CASE Insert(p)
      <4>1. CASE owner = Nobody
        BY <3>1, <4>1 DEF Insert, Row
      <4>2. CASE owner # Nobody
        BY <1>1, <3>1, <4>2 DEF Insert, Go, Working, LeaseType, locks
      <4> QED
        BY <4>1, <4>2
    <3>2. CASE Steal(p)
      <4>1. CASE owner # Nobody /\ Expired
        <5>1. ~(left >= 0)
          BY <1>1, <4>1 DEF Expired, LeaseType
        <5>2. ~Row.live
          BY <5>1 DEF Row
        <5> QED
          BY <3>2, <4>1, <5>2 DEF Steal
      <4>2. CASE owner = Nobody \/ ~Expired
        BY <1>1, <3>2, <4>2 DEF Steal, Send, Go, Working, LeaseType, locks
      <4> QED
        BY <4>1, <4>2
    <3> QED
      BY <1>4, <3>1, <3>2
  <2> QED
    BY <2>2, <2>3, <2>4
<1>5. ASSUME NEW p \in Procs, RefreshLock(p) PROVE [LockView!Next]_<<Row, Workers>>
  <2>1. pc' = pc /\ owner' = owner /\ heart[p].since \in Nat /\ heart[p].since <= 2 * Delay
    BY <1>1, <1>5, Enough DEF RefreshLock, main, LeaseInv, OnTime, LeaseType
  <2>2. Workers' = Workers
    BY <2>1 DEF Workers
  <2>3. CASE owner = p
    <3>1. left' >= 0
      BY <1>1, <1>5, <2>1, <2>3, StampIsLive DEF RefreshLock, NewLease, Expiry
    <3>2. CASE Row.live
      BY <2>1, <2>2, <2>3, <3>1, <3>2 DEF Row
    <3>3. CASE ~Row.live
      <4>1. pc[p] \notin Working
        BY <1>1, <2>3, <3>3, NobodyAssumption DEF Row, LeaseKept
      <4> QED
        BY <1>1, <1>5, <2>1, <2>3, <3>1, <3>3, <4>1, TakeIsAllowed DEF Step
    <3> QED
      BY <3>2, <3>3
  <2>4. CASE owner # p
    BY <1>5, <2>1, <2>2, <2>4 DEF RefreshLock, Row
  <2> QED
    BY <2>3, <2>4
<1>6. ASSUME NEW p \in Procs, ReleaseLock(p) PROVE [LockView!Next]_<<Row, Workers>>
  <2>1. Step(p) /\ pc[p] \in Working /\ pc'[p] \notin Working
    BY <1>1, <1>6 DEF ReleaseLock, Step, Send, Go, Working, LeaseType
  <2>2. Row' = LockView!NoRow
    BY <1>6 DEF ReleaseLock, Row, LockView!NoRow
  <2> QED
    BY <1>1, <2>1, <2>2, LeaveIsAllowed
<1>7. ASSUME NEW p \in Procs,
             \/ Acquire(p) \/ Start(p) \/ InsertHeartbeat(p) \/ Restamp(p) \/ MissRefresh(p)
             \/ Finish(p) \/ Return(p) \/ Crash(p)
      PROVE  [LockView!Next]_<<Row, Workers>>
  <2>1. Row' = Row
    BY <1>7 DEF Acquire, Start, InsertHeartbeat, Restamp, MissRefresh, Finish, Return, Crash, locks, Row
  <2>2. pc'[p] \in Working => pc[p] \in Working
    BY <1>1, <1>7 DEF Acquire, Start, InsertHeartbeat, Restamp, MissRefresh, Finish, Return, Crash,
                      Send, Go, main, Working, LeaseType
  <2>3. CASE pc[p] \in Working /\ pc'[p] \notin Working
    BY <1>1, <1>7, <2>1, <2>3, LeaveIsAllowed DEF Step
  <2>4. CASE pc[p] \in Working <=> pc'[p] \in Working
    <3>1. Workers' = Workers
      BY <1>1, <1>7, <2>4, WorkersAfter DEF Step, Workers
    <3> QED
      BY <2>1, <3>1
  <2> QED
    BY <2>2, <2>3, <2>4
<1> QED
  BY <1>2, <1>3, <1>4, <1>5, <1>6, <1>7 DEF Next, Step

\* With a lockTTL that TimelyAssumption allows, the lease with its clocks, slow
\* statements and failed refreshes implements the lock that Runner assumes with
\* TimelyHeartbeats.
THEOREM LeaseIsLock == Spec => LeaseImplementsLock
<1>1. Init => LockView!Init
  BY DEF Init, LockView!Init, LockView!NoRow, Row, Working
<1>2. LeaseInv /\ LeaseInv' /\ [Next]_vars
        => [LockView!Next]_<<Row, {p \in Procs : pc[p] \in Working}>>
  BY LeaseStepIsLockStep DEF Workers
<1> QED
  BY <1>1, <1>2, LeaseInit, LeaseStep, PTL DEF Spec, LeaseImplementsLock, LockView!Spec

=============================================================================
