----------------------------- MODULE GateProofs -----------------------------
(***************************************************************************)
(* A gate returns at most one query and one sleep after its deadline, for  *)
(* every timeout, interval and cap, and gives up on errors only as its     *)
(* count of them allows.                                                   *)
(***************************************************************************)
EXTENDS Gate, SequenceTheorems, TLAPS

Longest == Larger(BackoffCap, PollInterval)

\* What bounds the time at each point of the loop: a query is only sent before
\* the deadline, a sleep is never longer than Longest.
TimeInv ==
    /\ left \in Int /\ sleep \in Nat /\ consecutiveErrors \in Nat
    /\ sleep <= Longest
    /\ pc = "query" => left >= 0
    /\ pc = "sleep" => left >= -QueryTime
    /\ left >= -(QueryTime + Longest)

LEMMA LongestIsLongest ==
    Longest \in Nat /\ BackoffCap <= Longest /\ PollInterval <= Longest
BY TimesAssumption DEF Longest, Larger

\* gate.go: the backoff is capped.
LEMMA BackoffIsCapped ==
    ASSUME NEW n \in 1 .. MaxErrors - 1
    PROVE  Backoff(n) \in Nat /\ Backoff(n) <= BackoffCap
<1>1. n \in {1, 2, 3, 4}
  BY DEF MaxErrors
<1>2. Shifted[n] \in {2, 4, 8, 16}
  BY <1>1 DEF Shifted
<1>3. PollInterval * Shifted[n] \in Nat
  BY <1>2, TimesAssumption
<1> QED
  BY <1>3, TimesAssumption DEF Backoff, Smaller

LEMMA CountedError ==
    ASSUME NEW answer, IsTransient(answer)
    PROVE  ErrorsAfter(answer) = consecutiveErrors + 1
BY DEF ErrorsAfter, IsTransient

LEMMA TimeInit == Init => TimeInv
BY LongestIsLongest, TimesAssumption DEF Init, TimeInv

LEMMA TimeStep == TimeInv /\ [Next]_vars => TimeInv'
<1> SUFFICES ASSUME TimeInv, [Next]_vars
             PROVE  TimeInv'
  OBVIOUS
<1> USE LongestIsLongest, TimesAssumption DEF TimeInv
<1>1. CASE Check
  <2>1. pc' # "sleep" /\ (pc' = "query" => ~(left < 0))
    BY <1>1, Zenon DEF Check
  <2>2. UNCHANGED <<left, sleep, consecutiveErrors>>
    BY <1>1 DEF Check, LeftAfterRound
  <2> QED
    BY <2>1, <2>2 DEF Longest
<1>2. CASE Query
  <2>1. PICK time \in 0 .. QueryTime : left' = left - time
    BY <1>2 DEF Query
  <2>2. pc = "query" /\ left >= 0
    BY <1>2 DEF Query
  <2>3. left' \in Int /\ left' >= -QueryTime
    BY <2>1, <2>2
  <2>4. PICK answer \in Answers :
          /\ consecutiveErrors' = ErrorsAfter(answer)
          /\ \/ pc' = "passed" /\ UNCHANGED sleep
             \/ pc' = "sleep" /\ sleep' = PollInterval
             \/ /\ pc' = "sleep" /\ sleep' = Backoff(consecutiveErrors')
                /\ IsTransient(answer) /\ consecutiveErrors' < MaxErrors
             \/ pc' = "failed" /\ UNCHANGED sleep
    BY <1>2 DEF Query
  <2>5. consecutiveErrors' \in Nat
    BY <2>4 DEF ErrorsAfter
  <2>6. sleep' \in Nat /\ sleep' <= Longest
    <3>1. CASE IsTransient(answer) /\ consecutiveErrors' < MaxErrors
      <4>1. consecutiveErrors' \in 1 .. MaxErrors - 1
        BY <2>4, <3>1, CountedError DEF MaxErrors
      <4> QED
        BY <2>4, <4>1, BackoffIsCapped
    <3> QED
      BY <2>4, <3>1
  <2>7. pc' # "query"
    BY <2>4
  <2> QED
    BY <2>3, <2>5, <2>6, <2>7 DEF Longest
<1>3. CASE Wake
  BY <1>3 DEF Wake, Longest
<1>4. CASE WakeCancelled
  <2>1. PICK time \in 0 .. sleep : left' = left - time
    BY <1>4 DEF WakeCancelled
  <2> QED
    BY <1>4, <2>1 DEF WakeCancelled, Longest
<1>5. CASE Cancel
  BY <1>5 DEF Cancel, Longest
<1>6. CASE UNCHANGED vars
  BY <1>6 DEF vars, Longest
<1> QED
  BY <1>1, <1>2, <1>3, <1>4, <1>5, <1>6 DEF Next

\* gate.go: the deadline is looked at in front of every query, so a gate
\* outlives it by one query and one sleep at most.
THEOREM GateEndsInTime == Spec => []EndsInTime
<1>1. TimeInv => EndsInTime
  BY DEF TimeInv, EndsInTime, Longest
<1> QED
  BY <1>1, TimeInit, TimeStep, PTL DEF Spec

-----------------------------------------------------------------------------
(* The count of transient errors                                           *)

\* The last n answers were transient errors.
Trailing(n) ==
    /\ n <= Len(answers)
    /\ \A i \in Len(answers) - n + 1 .. Len(answers) : answers[i] = "transient"

\* Until the gate gives up there are fewer than MaxErrors of them, and they are
\* the last answers.
CountInv ==
    /\ answers \in Seq(Answers) /\ Len(answers) <= MaxErrors
    /\ consecutiveErrors \in Nat
    /\ pc # "failed" => consecutiveErrors < MaxErrors /\ Trailing(consecutiveErrors)
    /\ pc = "failed" =>
         \/ answers[Len(answers)] \in {"fatal", "cancelled"}
         \/ classified => Trailing(MaxErrors)

LEMMA FewOrFull ==
    ASSUME NEW k \in Nat, k <= MaxErrors
    PROVE  k \in 0 .. 5 /\ (k < 5 \/ k = 5)
BY DEF MaxErrors

\* The latest answers once a has come after s.
Window(s, a) == IF Len(Append(s, a)) > MaxErrors THEN Tail(Append(s, a)) ELSE Append(s, a)

\* What is at the end of w, if a followed s.
Moved(s, a, w) ==
    /\ w \in Seq(Answers) /\ Len(w) \in 1 .. MaxErrors /\ w[Len(w)] = a
    /\ \A n \in 0 .. MaxErrors - 1 :
         /\ n <= Len(s) /\ a = "transient"
         /\ \A i \in Len(s) - n + 1 .. Len(s) : s[i] = "transient"
         => /\ n + 1 <= Len(w)
            /\ \A i \in Len(w) - n .. Len(w) : w[i] = "transient"

\* The window over the latest answers moves by one.
LEMMA WindowMoves ==
    ASSUME NEW s \in Seq(Answers), Len(s) <= MaxErrors, NEW a \in Answers
    PROVE  Moved(s, a, Window(s, a))
<1> SUFFICES ASSUME NEW w, w = Window(s, a)
             PROVE  Moved(s, a, w)
  OBVIOUS
<1> USE DEF Window, Moved
<1> PICK all : all = Append(s, a)
  OBVIOUS
<1>0. MaxErrors = 5
  BY DEF MaxErrors
<1>1. Len(s) \in 0 .. 5 /\ (Len(s) < 5 \/ Len(s) = 5)
  <2>1. Len(s) \in Nat
    BY LenProperties
  <2> QED
    BY <2>1, FewOrFull, Zenon
<1>2. /\ all \in Seq(Answers) /\ Len(all) = Len(s) + 1
      /\ all[Len(s) + 1] = a /\ \A i \in 1 .. Len(s) : all[i] = s[i]
  BY AppendProperties
<1>3. CASE Len(s) < 5
  <2>1. w = all
    BY <1>0, <1>1, <1>2, <1>3
  <2>2. ASSUME NEW n \in 0 .. MaxErrors - 1, n <= Len(s), a = "transient",
               \A i \in Len(s) - n + 1 .. Len(s) : s[i] = "transient",
               NEW i \in Len(w) - n .. Len(w)
        PROVE  w[i] = "transient"
    <3>1. i = Len(s) + 1 \/ i \in Len(s) - n + 1 .. Len(s)
      BY <1>0, <1>1, <1>2, <2>1
    <3>2. i \in Len(s) - n + 1 .. Len(s) => i \in 1 .. Len(s)
      BY <1>0, <1>1, <2>2
    <3> QED
      BY <1>2, <2>1, <2>2, <3>1, <3>2
  <2>3. Len(w) = Len(s) + 1 /\ Len(w) \in 1 .. MaxErrors /\ w[Len(w)] = a /\ w \in Seq(Answers)
    BY <1>0, <1>1, <1>2, <1>3, <2>1
  <2>4. \A n \in 0 .. MaxErrors - 1 : n <= Len(s) => n + 1 <= Len(w)
    BY <1>0, <1>1, <2>3
  <2> QED
    BY <2>2, <2>3, <2>4
<1>4. CASE Len(s) = 5
  <2>1. w = Tail(all) /\ Len(all) = 6
    BY <1>0, <1>2, <1>4
  <2>2. w \in Seq(Answers) /\ Len(w) = 5 /\ \A i \in 1 .. 5 : w[i] = all[i + 1]
    <3>1. all # << >>
      BY AppendProperties, Zenon
    <3>2. all \in Seq(Answers)
      BY <1>2, Zenon
    <3>3. /\ Len(Tail(all)) = Len(all) - 1 /\ Tail(all) \in Seq(Answers)
          /\ \A i \in 1 .. Len(Tail(all)) : Tail(all)[i] = all[i + 1]
      BY <3>1, <3>2, HeadTailProperties, Zenon
    <3>4. /\ Len(w) = Len(all) - 1 /\ w \in Seq(Answers)
          /\ \A i \in 1 .. Len(w) : w[i] = all[i + 1]
      BY <2>1, <3>3, Zenon
    <3>5. Len(w) = 5
      BY <2>1, <3>4
    <3> QED
      BY <3>4, <3>5, Zenon
  <2>3. w[5] = a /\ \A i \in 1 .. 4 : w[i] = s[i + 1]
    BY <1>2, <1>4, <2>2
  <2>4. ASSUME NEW n \in 0 .. MaxErrors - 1, n <= Len(s), a = "transient",
               \A i \in Len(s) - n + 1 .. Len(s) : s[i] = "transient",
               NEW i \in Len(w) - n .. Len(w)
        PROVE  w[i] = "transient"
    <3>1. i = 5 \/ (i \in 1 .. 4 /\ i + 1 \in Len(s) - n + 1 .. Len(s))
      BY <1>0, <1>4, <2>2, <2>4
    <3> QED
      BY <2>3, <2>4, <3>1
  <2>5. Len(w) \in 1 .. MaxErrors /\ w[Len(w)] = a /\ w \in Seq(Answers)
    BY <1>0, <2>2, <2>3
  <2>6. \A n \in 0 .. MaxErrors - 1 : n + 1 <= Len(w)
    BY <1>0, <2>2
  <2> QED
    BY <2>4, <2>5, <2>6
<1> QED
  BY <1>1, <1>3, <1>4, Zenon

LEMMA CountStep ==
    ASSUME CountInv, [Next]_vars PROVE CountInv'
<1>1. CASE Query
  <2>1. PICK answer \in Answers :
          /\ answers' = LET all == Append(answers, answer)
                        IN  IF Len(all) > MaxErrors THEN Tail(all) ELSE all
          /\ consecutiveErrors' = ErrorsAfter(answer)
          /\ \/ answer \in {"expected", "other"} /\ pc' # "failed"
             \/ /\ IsTransient(answer) /\ consecutiveErrors' < MaxErrors /\ pc' # "failed"
             \/ /\ IsTransient(answer) /\ consecutiveErrors' >= MaxErrors /\ pc' = "failed"
             \/ /\ answer \notin {"expected", "other"} /\ ~IsTransient(answer) /\ pc' = "failed"
    BY <1>1 DEF Query
  <2>2. /\ pc # "failed" /\ classified' = classified
        /\ consecutiveErrors \in 0 .. MaxErrors - 1 /\ Trailing(consecutiveErrors)
    BY <1>1 DEF Query, CountInv, MaxErrors
  <2>3. /\ answers' \in Seq(Answers) /\ Len(answers') \in 1 .. MaxErrors
        /\ answers'[Len(answers')] = answer
        /\ answer = "transient" =>
             /\ consecutiveErrors + 1 <= Len(answers')
             /\ \A i \in Len(answers') - consecutiveErrors .. Len(answers') :
                  answers'[i] = "transient"
    <3>1. answers \in Seq(Answers) /\ Len(answers) <= MaxErrors
      BY DEF CountInv
    <3>2. answers' = IF Len(Append(answers, answer)) > MaxErrors
                     THEN Tail(Append(answers, answer)) ELSE Append(answers, answer)
      BY <2>1, Zenon
    <3>3. /\ consecutiveErrors <= Len(answers)
          /\ \A i \in Len(answers) - consecutiveErrors + 1 .. Len(answers) :
               answers[i] = "transient"
      BY <2>2, Zenon DEF Trailing
    <3>4. /\ answers' \in Seq(Answers) /\ Len(answers') \in 1 .. MaxErrors
          /\ answers'[Len(answers')] = answer
          /\ \A n \in 0 .. MaxErrors - 1 :
               /\ n <= Len(answers) /\ answer = "transient"
               /\ \A i \in Len(answers) - n + 1 .. Len(answers) : answers[i] = "transient"
               => /\ n + 1 <= Len(answers')
                  /\ \A i \in Len(answers') - n .. Len(answers') : answers'[i] = "transient"
      <4>1. answers' = Window(answers, answer)
        BY <3>2 DEF Window
      <4>2. Moved(answers, answer, Window(answers, answer))
        BY <3>1, WindowMoves, Zenon
      <4>3. Moved(answers, answer, answers')
        BY <4>1, <4>2, Zenon
      <4> QED
        BY <4>3, Zenon DEF Moved
    <3> QED
      BY <2>2, <3>3, <3>4, Zenon
  <2>4. CASE answer \in {"expected", "other"}
    <3>1. consecutiveErrors' = 0 /\ pc' # "failed"
      BY <2>1, <2>4 DEF ErrorsAfter, IsTransient
    <3>2. Trailing(0)'
      BY <2>3 DEF Trailing
    <3> QED
      BY <2>3, <3>1, <3>2 DEF CountInv, MaxErrors
  <2>5. CASE IsTransient(answer)
    <3>1. consecutiveErrors' = consecutiveErrors + 1 /\ answer = "transient"
      BY <2>1, <2>5 DEF ErrorsAfter, IsTransient
    <3>2. Trailing(consecutiveErrors)'
      BY <2>2, <2>3, <3>1 DEF Trailing, MaxErrors
    <3>3. CASE pc' # "failed" /\ consecutiveErrors' < MaxErrors
      BY <2>2, <2>3, <3>1, <3>2, <3>3 DEF CountInv, MaxErrors
    <3>4. CASE pc' = "failed" /\ consecutiveErrors' >= MaxErrors
      <4>1. consecutiveErrors' = MaxErrors
        BY <2>2, <3>1, <3>4 DEF MaxErrors
      <4>2. Trailing(MaxErrors)'
        BY <3>2, <4>1 DEF MaxErrors
      <4> QED
        BY <2>3, <3>4, <4>1, <4>2 DEF CountInv, MaxErrors
    <3> QED
      BY <2>1, <2>5, <3>1, <3>3, <3>4
  <2>6. CASE answer \notin {"expected", "other"} /\ ~IsTransient(answer)
    <3>1. pc' = "failed" /\ consecutiveErrors' = consecutiveErrors
      BY <2>1, <2>6 DEF ErrorsAfter
    <3>2. answer \in {"fatal", "cancelled"} \/ ~classified'
      BY <2>2, <2>6 DEF IsTransient, Answers
    <3> QED
      BY <2>2, <2>3, <3>1, <3>2 DEF CountInv, MaxErrors
  <2> QED
    BY <2>1, <2>4, <2>5, <2>6
<1>2. CASE Check
  <2>1. pc # "failed" /\ pc' # "failed" /\ UNCHANGED <<consecutiveErrors, answers>>
    BY <1>2 DEF Check
  <2> QED
    BY <2>1 DEF CountInv, Trailing
<1>3. CASE Wake \/ WakeCancelled \/ Cancel
  <2>1. (pc' = "failed" <=> pc = "failed") /\ UNCHANGED <<classified, consecutiveErrors, answers>>
    BY <1>3 DEF Wake, WakeCancelled, Cancel
  <2> QED
    BY <2>1 DEF CountInv, Trailing
<1>4. CASE UNCHANGED vars
  BY <1>4 DEF vars, CountInv, Trailing
<1> QED
  BY <1>1, <1>2, <1>3, <1>4 DEF Next

LEMMA CountHolds == Spec => []CountInv
<1>1. Init => CountInv
  BY DEF Init, CountInv, Trailing, MaxErrors
<1>2. CountInv /\ [Next]_vars => CountInv'
  BY CountStep
<1> QED
  BY <1>1, <1>2, PTL DEF Spec

\* gate.go: consecutiveErrors is the number of transient errors that the query
\* has answered with last, and a gate gives up on a fatal error or on the fifth.
THEOREM GateCountsTransients == Spec => []CountsTransients
<1>1. CountInv => CountsTransients
  BY DEF CountInv, CountsTransients, Trailing
<1> QED
  BY <1>1, CountHolds, PTL

-----------------------------------------------------------------------------
(* Every round uses something up                                           *)

\* Less time, or as much time and one error more, leave fewer rounds.
LEMMA FewerRounds ==
    ASSUME NEW e \in 0 .. MaxErrors - 1, NEW f \in 0 .. MaxErrors - 1,
           NEW before \in Nat, NEW after \in Int,
           after < before \/ (after <= before /\ e < f)
    PROVE  MaxErrors * Larger(after + 1, 0) + MaxErrors - f
             < MaxErrors * Larger(before + 1, 0) + MaxErrors - e
BY DEF MaxErrors, Larger

LEMMA RoundsType ==
    ASSUME TimeInv, consecutiveErrors < MaxErrors, NEW time \in Int
    PROVE  Rounds(time) \in Nat
BY DEF TimeInv, Rounds, MaxErrors, Larger

LEMMA TimePasses ==
    ASSUME NEW a \in Nat, NEW b \in Nat, NEW c \in Nat
    PROVE  a - b - c \in Int /\ a - b - c <= a
OBVIOUS

LEMMA QueryUses ==
    ASSUME TimeInv, CountInv, Query
    PROVE  StepsLeft' < StepsLeft
<1>1. /\ left \in Nat /\ pc = "query" /\ consecutiveErrors \in 0 .. MaxErrors - 1
      /\ StepsLeft = 3 * Rounds(left) + 1 /\ Rounds(left) \in Nat
  BY RoundsType DEF TimeInv, CountInv, Query, StepsLeft, MaxErrors
<1>2. PICK time \in 0 .. QueryTime : left' = left - time
  BY DEF Query
<1>3. PICK answer \in Answers :
        /\ consecutiveErrors' = ErrorsAfter(answer)
        /\ \/ pc' \in {"passed", "failed"}
           \/ answer = "other" /\ pc' = "sleep" /\ sleep' = PollInterval
           \/ /\ IsTransient(answer) /\ consecutiveErrors' < MaxErrors
              /\ pc' = "sleep" /\ sleep' = Backoff(consecutiveErrors')
  BY Zenon DEF Query
<1>4. CASE pc' \in {"passed", "failed"}
  BY <1>1, <1>4 DEF StepsLeft
<1>5. ASSUME pc' = "sleep",
             consecutiveErrors' \in 0 .. MaxErrors - 1, left' - sleep' \in Int,
             \/ left' - sleep' < left
             \/ left' - sleep' <= left /\ consecutiveErrors < consecutiveErrors'
      PROVE  StepsLeft' < StepsLeft
  <2>1. /\ MaxErrors * Larger(left' - sleep' + 1, 0) + MaxErrors - consecutiveErrors' \in Int
        /\ MaxErrors * Larger(left' - sleep' + 1, 0) + MaxErrors - consecutiveErrors'
             < Rounds(left)
    BY <1>1, <1>5, FewerRounds DEF Rounds, MaxErrors, Larger
  <2>2. StepsLeft' = 3 * (MaxErrors * Larger(left' - sleep' + 1, 0) + MaxErrors
                            - consecutiveErrors') + 3
    BY <1>5 DEF StepsLeft, Rounds
  <2> QED
    BY <1>1, <2>1, <2>2
<1>6. CASE answer = "other" /\ pc' = "sleep" /\ sleep' = PollInterval
  <2>1. consecutiveErrors' = 0
    BY <1>3, <1>6 DEF ErrorsAfter, IsTransient
  <2>2. left' - sleep' \in Int /\ left' - sleep' < left
    BY <1>1, <1>2, <1>6, TimesAssumption
  <2> QED
    BY <1>5, <1>6, <2>1, <2>2 DEF MaxErrors
<1>7. CASE /\ IsTransient(answer) /\ consecutiveErrors' < MaxErrors
           /\ pc' = "sleep" /\ sleep' = Backoff(consecutiveErrors')
  <2>1. consecutiveErrors' = consecutiveErrors + 1 /\ consecutiveErrors' \in 1 .. MaxErrors - 1
    BY <1>1, <1>3, <1>7, CountedError DEF MaxErrors
  <2>2. sleep' \in Nat
    BY <1>7, <2>1, BackoffIsCapped
  <2>3. left \in Nat /\ time \in Nat /\ left' - sleep' = left - time - sleep'
    BY <1>1, <1>2, TimesAssumption
  <2>4. left' - sleep' \in Int /\ left' - sleep' <= left
    BY <2>2, <2>3, TimePasses
  <2>5. consecutiveErrors < consecutiveErrors' /\ consecutiveErrors' \in 0 .. MaxErrors - 1
    BY <1>1, <2>1 DEF MaxErrors
  <2> QED
    BY <1>5, <1>7, <2>4, <2>5
<1> QED
  BY <1>3, <1>4, <1>6, <1>7

LEMMA LoopUses ==
    ASSUME TimeInv, CountInv, Check \/ Query \/ Wake \/ WakeCancelled
    PROVE  StepsLeft' < StepsLeft
<1> USE DEF Returns
<1>1. pc \in {"check", "query", "sleep"} /\ consecutiveErrors < MaxErrors
  BY DEF Check, Query, Wake, WakeCancelled, CountInv
<1>2. /\ Rounds(left) \in Nat
      /\ Rounds(left - sleep) \in Nat
  BY <1>1, RoundsType DEF TimeInv
<1>3. CASE Check
  <2>1. Rounds(left)' = Rounds(left)
    BY <1>3 DEF Check, LeftAfterRound, Rounds
  <2>2. pc = "check" /\ pc' \in {"query", "timed out", "context"}
    BY <1>3, Zenon DEF Check
  <2>3. StepsLeft = 3 * Rounds(left) + 2 /\ StepsLeft' \in {3 * Rounds(left)' + 1, 0}
    BY <2>2 DEF StepsLeft
  <2> QED
    BY <1>2, <2>1, <2>3
<1>4. CASE Query
  BY <1>4, QueryUses
<1>5. CASE Wake
  <2>1. pc = "sleep" /\ pc' = "check" /\ Rounds(left)' = Rounds(left - sleep)
    BY <1>5 DEF Wake, Rounds
  <2> QED
    BY <1>2, <2>1 DEF StepsLeft
<1>6. CASE WakeCancelled
  BY <1>2, <1>6 DEF WakeCancelled, StepsLeft
<1> QED
  BY <1>3, <1>4, <1>5, <1>6

\* A gate asks its query boundedly often, for every timeout and interval; with
\* fairness, and without the prover, it follows that every gate returns.
THEOREM GateRunsOut == Spec => RoundsRunOut
<1> DEFINE Uses == IF Check \/ Query \/ Wake \/ WakeCancelled THEN StepsLeft' < StepsLeft
                                                              ELSE StepsLeft' = StepsLeft
<1>1. TimeInv /\ CountInv /\ [Next]_vars => [Uses]_vars
  <2>1. Cancel => StepsLeft' = StepsLeft
    BY DEF Cancel, StepsLeft, Rounds
  <2> QED
    BY <2>1, LoopUses DEF Next
<1>2. Spec => [](TimeInv /\ CountInv)
  BY TimeInit, TimeStep, CountHolds, PTL DEF Spec
<1> QED
  BY <1>1, <1>2, PTL DEF Spec, RoundsRunOut

=============================================================================
