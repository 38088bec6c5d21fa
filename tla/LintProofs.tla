----------------------------- MODULE LintProofs -----------------------------
(***************************************************************************)
(* What the loader and lint promise of a file, for every set of files,     *)
(* flags and tables: what is loaded can be executed, the batches of a query *)
(* that lint accepts and can read get to every row, and a gate that it     *)
(* does not warn of outlasts the batch loop.                               *)
(***************************************************************************)
EXTENDS Lint, WellFoundedInduction, TLAPS

-----------------------------------------------------------------------------
(* The batch query                                                         *)

LEMMA Least ==
    ASSUME NEW S \in SUBSET Nat, S # {}
    PROVE  Min(S) \in S /\ \A v \in S : Min(S) <= v
<1>1. IsWellFoundedOn(OpToRel(<, Nat), Nat)
  BY NatLessThanWellFounded
<1>2. PICK u \in S : \A v \in S : ~ <<v, u>> \in OpToRel(<, Nat)
  BY <1>1, WFMin
<1>3. \A v \in S : ~(v < u)
  BY <1>2 DEF OpToRel
<1>4. \A v \in S : u <= v
  BY <1>3
<1> QED
  BY <1>4 DEF Min

\* A batch query that lint accepts and can read: it sets one column.
Accepted(q) ==
    /\ q \in BatchQueries /\ Readable(q)
    /\ \E c \in Stated(q) : Excludes(q, c)

TheColumn(q) == q.set[1].col
TheValue(q, row) == ValueOf(q.set[1], row)

LEMMA OneAssignment ==
    ASSUME NEW q \in BatchQueries, Readable(q), NEW row \in Row
    PROVE  /\ TheColumn(q) \in Columns
           /\ Assigned(q, row) \in Row
           /\ \A col \in Columns : Assigned(q, row)[col] =
                IF col = TheColumn(q) THEN TheValue(q, row) ELSE row[col]
<1>1. Len(q.set) = 1 /\ q.set[1] \in Assignments
  BY DEF BatchQueries, Readable
<1>2. TheColumn(q) \in Columns /\ TheValue(q, row) \in Int
  BY <1>1 DEF TheColumn, TheValue, ValueOf, Assignments, Row
<1> DEFINE written(n, r) == [r EXCEPT ![q.set[n].col] = ValueOf(q.set[n], r)]
           Is(g) == g = [n \in 0 .. 1 |-> IF n = 0 THEN row ELSE written(n, g[n - 1])]
           h == [n \in 0 .. 1 |-> IF n = 0 THEN row ELSE written(1, row)]
           after == CHOOSE g : Is(g)
<1>3. Is(h)
  <2>1. h[0] = row /\ h[1] = written(1, row)
    OBVIOUS
  <2>2. \A n \in 0 .. 1 : h[n] = IF n = 0 THEN row ELSE written(n, h[n - 1])
    <3>1. 0 .. 1 = {0, 1}
      OBVIOUS
    <3> HIDE DEF h, written
    <3> QED
      BY <2>1, <3>1
  <2> HIDE DEF written
  <2> QED
    BY <2>2
<1>4. Is(after)
  BY <1>3
<1>5. Assigned(q, row) = after[1]
  BY <1>1 DEF Assigned
<1> HIDE DEF after, h
<1>6. Assigned(q, row) = [row EXCEPT ![TheColumn(q)] = TheValue(q, row)]
  <2>1. after[0] = row /\ after[1] = written(1, after[0])
    BY <1>4
  <2> QED
    BY <1>5, <2>1 DEF TheColumn, TheValue
<1> QED
  BY <1>2, <1>6 DEF Row

\* The query writes what stands in the row already, or what it has written it
\* does not match again.
LEMMA KeptOrExcluded ==
    ASSUME NEW q, Accepted(q), NEW row \in Row, Matches(q, row)
    PROVE  Assigned(q, row) = row \/ ~Matches(q, Assigned(q, row))
<1>1. PICK c \in Stated(q) : Excludes(q, c)
  BY DEF Accepted
<1>2. PICK all \in q.where : c \in all
  BY <1>1 DEF Stated
<1>3. q.where = {all}
  BY <1>2 DEF Accepted, Readable
<1>4. /\ c \in Conditions /\ c.col = TheColumn(q) /\ c.op \in {"IS NULL", "="} /\ ~c.negated
      /\ c.value \in Int /\ c.col \in Columns
  <2>1. q \in BatchQueries /\ 1 \in Spaced(q)
    BY DEF Accepted, Readable, Spaced, BatchQueries
  <2>2. SetColumn(q) = TheColumn(q)
    BY <2>1 DEF SetColumn, TheColumn
  <2>3. /\ <<c.col, TheColumn(q)>> \notin EndsWith
        /\ c.col = TheColumn(q) => ~c.negated
    BY <1>1 DEF Accepted, Readable, TheColumn
  <2>4. c \in Conditions
    BY <1>2, <2>1 DEF BatchQueries
  <2> QED
    BY <1>1, <2>2, <2>3, <2>4 DEF Excludes, Conditions
<1>5. PICK wanted \in Int : \A r \in Row : Meets(r, c) => r[TheColumn(q)] = wanted
  <2>1. CASE c.op = "IS NULL"
    <3>1. \A r \in Row : Meets(r, c) => r[TheColumn(q)] = 0
      BY <1>4, <2>1 DEF Meets, IsTrue
    <3> QED
      BY <3>1
  <2>2. CASE c.op = "="
    <3>1. \A r \in Row : Meets(r, c) => r[TheColumn(q)] = c.value
      BY <1>4, <2>2 DEF Meets, IsTrue
    <3> QED
      BY <1>4, <3>1
  <2> QED
    BY <1>4, <2>1, <2>2
<1>6. /\ Assigned(q, row) \in Row
      /\ \A col \in Columns : Assigned(q, row)[col] =
           IF col = TheColumn(q) THEN TheValue(q, row) ELSE row[col]
  BY OneAssignment DEF Accepted
<1>7. row[TheColumn(q)] = wanted
  <2>1. Meets(row, c)
    BY <1>2, <1>3 DEF Matches
  <2> QED
    BY <1>5, <2>1
<1>8. CASE TheValue(q, row) = wanted
  <2>1. \A col \in Columns : Assigned(q, row)[col] = row[col]
    BY <1>6, <1>7, <1>8
  <2> QED
    BY <1>6, <2>1 DEF Row
<1>9. CASE TheValue(q, row) # wanted
  <2>1. Assigned(q, row)[TheColumn(q)] = TheValue(q, row)
    BY <1>4, <1>6
  <2>2. ~Meets(Assigned(q, row), c)
    BY <1>5, <1>6, <1>9, <2>1
  <2> QED
    BY <1>2, <1>3, <2>2 DEF Matches
<1> QED
  BY <1>8, <1>9

-----------------------------------------------------------------------------
(* The batches                                                             *)

\* A table that some batches have worked on: every row is as it was or filled,
\* and one that was matched is filled or still matched.
Between(q, t, u) ==
    /\ u \in Seq(Row) /\ DOMAIN u = DOMAIN t
    /\ Matched(q, u) \subseteq Matched(q, t)
    /\ \A r \in Matched(q, t) : r \in Matched(q, u) \/ u[r] = Assigned(q, t[r])
    /\ \A r \in Matched(q, u) : u[r] = t[r]

\* The row at which the batches stick: still matched, and left as it is.
Sticks(q, t, u, s) == s \in Matched(q, u) /\ Assigned(q, t[s]) = t[s]

\* n batches have got past the first n rows, or stick in front of what is left.
Progress(q, t, u, n) ==
    \A r \in Matched(q, u) : r > n \/ \E s \in Matched(q, u) : s <= r /\ Sticks(q, t, u, s)

LEMMA OneBatch ==
    ASSUME NEW q, Accepted(q), NEW t \in Seq(Row), NEW u, Between(q, t, u),
           NEW n \in Nat, Progress(q, t, u, n)
    PROVE  Between(q, t, ExecBatch(q, u)) /\ Progress(q, t, ExecBatch(q, u), n + 1)
<1>1. u \in Seq(Row) /\ Matched(q, u) \in SUBSET DOMAIN u /\ DOMAIN u \subseteq Nat
  BY DEF Between, Matched
<1>2. CASE Matched(q, u) = {}
  BY <1>2 DEF ExecBatch, Progress
<1>3. CASE Matched(q, u) # {}
  <2> DEFINE m == Min(Matched(q, u))
             w == ExecBatch(q, u)
  <2>1. m \in Matched(q, u) /\ \A v \in Matched(q, u) : m <= v
    BY <1>1, <1>3, Least
  <2>2. w = [u EXCEPT ![m] = Assigned(q, u[m])]
    BY <1>3 DEF ExecBatch
  <2>3. m \in DOMAIN u /\ u[m] \in Row /\ m \in Nat /\ u[m] = t[m] /\ Matches(q, u[m])
    BY <1>1, <2>1 DEF Between, Matched
  <2>4. Assigned(q, u[m]) \in Row
    BY <2>3, OneAssignment DEF Accepted
  <2> HIDE DEF m, w
  <2>5. CASE Assigned(q, u[m]) = u[m]
    <3>1. w = u
      BY <1>1, <2>2, <2>3, <2>5
    <3>2. Sticks(q, t, u, m)
      BY <2>1, <2>3, <2>5 DEF Sticks
    <3> QED
      BY <2>1, <3>1, <3>2 DEF Progress, w
  <2>6. CASE Assigned(q, u[m]) # u[m]
    <3>1. DOMAIN w = DOMAIN u /\ w[m] = Assigned(q, u[m]) /\ \A r \in DOMAIN u : r # m => w[r] = u[r]
      BY <2>2, <2>3
    <3>2. w \in Seq(Row)
      BY <1>1, <2>2, <2>3, <2>4
    <3>3. m \notin Matched(q, w)
      BY <2>3, <2>6, <3>1, KeptOrExcluded DEF Matched
    <3>4. Matched(q, w) = Matched(q, u) \ {m}
      BY <3>1, <3>3 DEF Matched
    <3>5. Progress(q, t, w, n + 1)
      <4>1. m > n
        <5>1. ASSUME NEW s \in Matched(q, u), s <= m, Sticks(q, t, u, s) PROVE FALSE
          <6>1. s = m
            BY <1>1, <2>1, <2>3, <5>1
          <6> QED
            BY <2>3, <2>6, <5>1, <6>1 DEF Sticks
        <5> QED
          BY <2>1, <5>1 DEF Progress
      <4>2. ASSUME NEW r \in Matched(q, w) PROVE r > n + 1
        <5>1. r \in Nat /\ r # m /\ m <= r
          BY <1>1, <2>1, <3>4
        <5> QED
          BY <2>3, <4>1, <5>1
      <4> QED
        BY <4>2 DEF Progress
    <3>6. Between(q, t, w)
      <4>1. DOMAIN u = DOMAIN t /\ Matched(q, u) \subseteq Matched(q, t)
        BY DEF Between
      <4>2. ASSUME NEW r \in Matched(q, t) PROVE r \in Matched(q, w) \/ w[r] = Assigned(q, t[r])
        <5>1. r \in DOMAIN u
          BY <4>1 DEF Matched
        <5>2. CASE r = m
          BY <2>3, <3>1, <5>2
        <5>3. CASE r # m
          BY <3>1, <3>4, <5>1, <5>3 DEF Between
        <5> QED
          BY <5>2, <5>3
      <4>3. \A r \in Matched(q, w) : w[r] = t[r]
        BY <1>1, <3>1, <3>4 DEF Between
      <4> QED
        BY <3>1, <3>2, <3>4, <4>1, <4>2, <4>3 DEF Between
    <3> QED
      BY <3>5, <3>6 DEF w
  <2> QED
    BY <2>5, <2>6
<1> QED
  BY <1>2, <1>3

\* The recursion has a solution, and every solution goes batch by batch.
LEMMA BatchByBatch ==
    ASSUME NEW q, NEW t \in Seq(Row)
    PROVE  \E g : /\ g[0] = t
                  /\ \A n \in 1 .. Len(t) : g[n] = ExecBatch(q, g[n - 1])
                  /\ Batches(q, t) = g[Len(t)]
<1> DEFINE Is(g, N) == g = [n \in 0 .. N |-> IF n = 0 THEN t ELSE ExecBatch(q, g[n - 1])]
           Missing == {N \in Nat : ~ \E g : Is(g, N)}
<1>1. Missing = {}
  <2>1. SUFFICES ASSUME Missing # {} PROVE FALSE
    OBVIOUS
  <2>2. PICK N \in Missing : \A M \in Missing : N <= M
    BY <2>1, Least
  <2>3. N \in Nat /\ ~ \E g : Is(g, N)
    OBVIOUS
  <2>4. CASE N = 0
    <3>1. Is([n \in {0} |-> t], 0)
      OBVIOUS
    <3> QED
      BY <2>3, <2>4, <3>1
  <2>5. CASE N # 0
    <3>1. N - 1 \in Nat /\ N - 1 \notin Missing
      <4>1. N - 1 \in Nat /\ ~(N <= N - 1)
        BY <2>3, <2>5
      <4> HIDE DEF Missing
      <4> QED
        BY <2>2, <4>1
    <3>2. PICK g : Is(g, N - 1)
      BY <3>1
    <3> DEFINE h == [n \in 0 .. N |-> IF n = N THEN ExecBatch(q, g[N - 1]) ELSE g[n]]
    <3>3. \A n \in 0 .. N : n # N => n \in 0 .. (N - 1) /\ h[n] = g[n]
      BY <2>3
    <3>4. ASSUME NEW n \in 0 .. N
          PROVE  h[n] = IF n = 0 THEN t ELSE ExecBatch(q, h[n - 1])
      <4>1. CASE n = N
        <5>1. h[n] = ExecBatch(q, g[N - 1])
          BY <4>1
        <5>2. N - 1 \in 0 .. N /\ N - 1 # N
          BY <2>3, <3>1
        <5>3. h[n - 1] = g[N - 1]
          BY <3>3, <4>1, <5>2
        <5> QED
          BY <2>5, <4>1, <5>1, <5>3
      <4>2. CASE n = 0 /\ n # N
        <5>1. g[0] = t
          BY <3>1, <3>2
        <5> QED
          BY <3>3, <4>2, <5>1
      <4>3. CASE n # 0 /\ n # N
        <5>1. n \in 0 .. (N - 1) /\ n - 1 \in 0 .. N /\ n - 1 # N
          BY <2>3, <4>3
        <5>2. g[n] = ExecBatch(q, g[n - 1])
          BY <3>2, <4>3, <5>1
        <5>3. h[n] = g[n] /\ h[n - 1] = g[n - 1]
          BY <3>3, <4>3, <5>1
        <5> QED
          BY <4>3, <5>2, <5>3
      <4> QED
        BY <4>1, <4>2, <4>3
    <3>5. h = [n \in 0 .. N |-> h[n]]
      OBVIOUS
    <3> HIDE DEF h
    <3>6. Is(h, N)
      BY <3>4, <3>5
    <3> QED
      BY <2>3, <3>6
  <2> QED
    BY <2>4, <2>5
<1>2. \E g : Is(g, Len(t))
  BY <1>1
<1> DEFINE after == CHOOSE g : Is(g, Len(t))
<1>3. Is(after, Len(t))
  BY <1>2
<1>4. Batches(q, t) = after[Len(t)]
  BY DEF Batches
<1> HIDE DEF after
<1>5. Len(t) \in Nat
  OBVIOUS
<1>6. after[0] = t /\ \A n \in 1 .. Len(t) : after[n] = ExecBatch(q, after[n - 1])
  BY <1>3, <1>5
<1> QED
  BY <1>4, <1>6

\* A query that lint accepts fills every row that it matches, up to one that it
\* leaves as it is.
LEMMA AcceptedFills ==
    ASSUME NEW q, Accepted(q), NEW t \in Seq(Row), NEW r \in Matched(q, t)
    PROVE  \/ Batches(q, t)[r] = Assigned(q, t[r])
           \/ \E s \in Matched(q, t) : s < r /\ Assigned(q, t[s]) = t[s]
<1>1. PICK g : /\ g[0] = t
               /\ \A n \in 1 .. Len(t) : g[n] = ExecBatch(q, g[n - 1])
               /\ Batches(q, t) = g[Len(t)]
  BY BatchByBatch
<1>2. Len(t) \in Nat /\ DOMAIN t = 1 .. Len(t) /\ r \in DOMAIN t
  BY DEF Matched
<1> DEFINE Good(n) == Between(q, t, g[n]) /\ Progress(q, t, g[n], n)
           Wrong == {n \in Nat : n <= Len(t) /\ ~Good(n)}
           u == g[Len(t)]
<1>3. Good(0)
  <2>1. \A k \in Matched(q, t) : k > 0
    BY <1>2 DEF Matched
  <2> QED
    BY <1>1, <2>1 DEF Between, Progress
<1>4. Wrong = {}
  <2>1. SUFFICES ASSUME Wrong # {} PROVE FALSE
    OBVIOUS
  <2>2. PICK n \in Wrong : \A m \in Wrong : n <= m
    BY <2>1, Least
  <2>3. n \in 1 .. Len(t) /\ ~Good(n)
    BY <1>2, <1>3
  <2>4. n - 1 \in Nat /\ n - 1 <= Len(t) /\ ~(n <= n - 1) /\ (n - 1) + 1 = n
    BY <1>2, <2>3
  <2>5. n - 1 \notin Wrong
    <3> HIDE DEF Wrong
    <3> QED
      BY <2>2, <2>4
  <2>6. Good(n - 1)
    BY <2>4, <2>5
  <2>7. g[n] = ExecBatch(q, g[n - 1])
    BY <1>1, <2>3
  <2>8. Between(q, t, ExecBatch(q, g[n - 1])) /\ Progress(q, t, ExecBatch(q, g[n - 1]), (n - 1) + 1)
    BY <2>4, <2>6, OneBatch
  <2> QED
    BY <2>3, <2>4, <2>7, <2>8
<1>5. Good(Len(t))
  BY <1>2, <1>4
<1>6. CASE r \notin Matched(q, u)
  BY <1>1, <1>5, <1>6 DEF Between
<1>7. CASE r \in Matched(q, u)
  <2>1. u[r] = t[r] /\ Matched(q, u) \subseteq Matched(q, t)
    BY <1>5, <1>7 DEF Between
  <2>2. PICK s \in Matched(q, u) : s <= r /\ Sticks(q, t, u, s)
    BY <1>2, <1>5, <1>7 DEF Progress
  <2>3. s \in DOMAIN t /\ s \in Matched(q, t) /\ Assigned(q, t[s]) = t[s]
    BY <2>1, <2>2 DEF Sticks, Matched
  <2>4. s < r \/ s = r
    BY <1>2, <2>2, <2>3
  <2> QED
    BY <1>1, <2>1, <2>3, <2>4
<1> QED
  BY <1>6, <1>7

-----------------------------------------------------------------------------
(* The estimate                                                            *)

LEMMA TimesMonotone ==
    ASSUME NEW a \in Int, NEW b \in Int, a <= b, NEW c \in Nat PROVE a * c <= b * c
  OBVIOUS

\* As many batches as the loop sleeps after cover the rows but for the last.
LEMMA BatchesOfRows ==
    ASSUME NEW rows \in Nat, NEW size \in Nat \ {0}
    PROVE  LET k == (rows + size - 1) \div size IN k \in Int /\ (k - 1) * size <= rows - 1
<1> DEFINE a == rows + size - 1
           k == a \div size
<1>1. a \in Nat
  OBVIOUS
<1>2. k \in Int /\ size * k <= a
  BY <1>1
<1> HIDE DEF k
<1>3. (k - 1) * size = size * k - size
  BY <1>2
<1> QED
  BY <1>2, <1>3 DEF k

LEMMA LoopOutlasted ==
    ASSUME NEW rows \in Nat, NEW batch \in BatchConfigs, batch.size > 0,
           NEW timeout \in Int, timeout > 0, ~TooShort(timeout, rows, batch)
    PROVE  2 * timeout * Minute > 3 * (Sleeps(rows, batch) - Sleep(batch))
<1> DEFINE size == batch.size
           T == 2 * timeout * Minute
           k == (rows + size - 1) \div size
<1>1. size \in Nat \ {0} /\ batch.delay \in Int /\ T \in Nat \ {0} /\ Minute \in Nat
  BY MinuteAssumption DEF BatchConfigs
<1>2. k \in Int /\ (k - 1) * size <= rows - 1
  BY <1>1, BatchesOfRows
<1>3. Sleeps(rows, batch) = k * Sleep(batch)
  BY DEF Sleeps
<1> HIDE DEF k
<1>4. CASE batch.delay <= 0
  <2>1. Sleep(batch) = 0
    BY <1>1, <1>4 DEF Sleep
  <2>2. Sleeps(rows, batch) = 0
    BY <1>2, <1>3, <2>1
  <2> QED
    BY <1>1, <2>1, <2>2
<1>5. CASE batch.delay > 0
  <2> DEFINE d == batch.delay
  <2>1. d \in Nat \ {0} /\ Sleep(batch) = d
    BY <1>1, <1>5 DEF Sleep
  <2>2. T * size >= 3 * rows * d
    <3>1. ~(T * size < 3 * rows * d)
      BY <1>1, <1>5 DEF TooShort
    <3> QED
      BY <1>1, <2>1, <3>1
  <2> HIDE DEF T, d
  <2>3. SUFFICES ASSUME T <= 3 * (k * d - d) PROVE FALSE
    <3>1. k * d - d \in Int
      BY <1>2, <2>1
    <3> QED
      BY <1>1, <1>2, <1>3, <2>1, <2>3, <3>1 DEF T
  <2>4. T * size <= (3 * (k * d - d)) * size
    BY <1>1, <1>2, <2>1, <2>3, TimesMonotone
  <2>5. (3 * (k * d - d)) * size = ((k - 1) * size) * (3 * d)
    BY <1>1, <1>2, <2>1
  <2>6. ((k - 1) * size) * (3 * d) <= (rows - 1) * (3 * d)
    BY <1>1, <1>2, <2>1, TimesMonotone
  <2>7. (rows - 1) * (3 * d) = 3 * rows * d - 3 * d
    BY <2>1
  <2> QED
    BY <1>1, <1>2, <2>1, <2>2, <2>4, <2>5, <2>6, <2>7
<1> QED
  BY <1>1, <1>4, <1>5

-----------------------------------------------------------------------------
(* The command                                                             *)

\* Past the loader, which is all that an executor and an estimate look at.
Loaded == file \in Files /\ ParseMigration(file)

Runs ==
    /\ idx \in Nat \ {0}
    /\ at = "parse" => file \in Files
    /\ at = "override" => Loaded /\ command.name # "lint"
    /\ at = "phase" =>
         /\ command.name # "lint" /\ (command.onFailure = "" => Loaded)
         /\ Len(file.phases) \in Nat /\ Here = 1 .. Len(file.phases)
         /\ \A i \in Here : Supplied(file.phases[i])

Lints ==
    /\ at \in {"connect", "rules", "estimate"} => Loaded /\ command.name = "lint"
    /\ at = "estimate" => \A f \in Errors : <<"ERROR", f[1], f[2]>> \in findings
    /\ at = "done" /\ command.name = "lint" /\ outcome = "ok" => Loaded /\ Errors = {}

Counts ==
    \A i \in DOMAIN estimates :
      /\ Loaded /\ i \in WithBatch /\ command.name = "lint"
      /\ estimates[i].rows \in Nat
      /\ estimates[i].warned = Warned(estimates[i].rows, i)

LintInv == Runs /\ Lints /\ Counts /\ NoPanic

LEMMA LoadedFile ==
    ASSUME Loaded
    PROVE  /\ file.phases \in Seq(PhaseConfigs)
           /\ Len(file.phases) \in Nat /\ Here = 1 .. Len(file.phases)
           /\ \A i \in Here : /\ file.phases[i] \in PhaseConfigs
                               /\ HasItsBlocks(file.phases[i]) /\ FailureIsHandled(file.phases[i])
                               /\ Supplied(file.phases[i])
<1>1. /\ file.phases \in Seq(PhaseConfigs)
      /\ Len(file.phases) \in Nat /\ Here = 1 .. Len(file.phases)
  BY FilesAssumption DEF Loaded, MigrationFiles, Here
<1>2. ASSUME NEW i \in Here
      PROVE  /\ file.phases[i] \in PhaseConfigs
             /\ HasItsBlocks(file.phases[i]) /\ FailureIsHandled(file.phases[i])
  BY <1>1 DEF Loaded, ParseMigration, ValidatePhase, Here
<1>3. ASSUME NEW i \in Here PROVE Supplied(file.phases[i])
  BY <1>2 DEF HasItsBlocks, Supplied
<1> QED
  BY <1>1, <1>2, <1>3

\* --on-failure takes no block away.
LEMMA Overridden ==
    ASSUME Loaded, file' = ApplyCLIOverrides(file, command.onFailure)
    PROVE  /\ Len(file'.phases) \in Nat /\ Here' = 1 .. Len(file'.phases)
           /\ \A i \in Here' : Supplied(file'.phases[i])
<1>1. CASE command.onFailure = ""
  BY <1>1, LoadedFile DEF ApplyCLIOverrides, Here
<1>2. CASE command.onFailure # ""
  <2> DEFINE other(i) == [file.phases[i] EXCEPT !.onFailure = command.onFailure]
             phases == [i \in Here |-> other(i)]
             n == Len(file.phases)
  <2>1. n \in Nat /\ Here = 1 .. n /\ file \in MigrationFiles
    BY LoadedFile, FilesAssumption DEF Loaded
  <2>2. file'.phases = phases
    BY <1>2, <2>1 DEF ApplyCLIOverrides, MigrationFiles, Here
  <2>3. DOMAIN phases = 1 .. n /\ \A i \in 1 .. n : phases[i] = other(i)
    BY <2>1
  <2>4. Len(phases) = n
    BY <2>1, <2>3
  <2>5. ASSUME NEW i \in 1 .. n PROVE Supplied(other(i))
    <3>1. file.phases[i] \in PhaseConfigs /\ Supplied(file.phases[i])
      BY <2>1, LoadedFile
    <3>2. /\ other(i).name = file.phases[i].name /\ other(i).batch = file.phases[i].batch
          /\ other(i).waitUntil = file.phases[i].waitUntil
      BY <3>1 DEF PhaseConfigs
    <3> QED
      BY <3>1, <3>2 DEF Supplied
  <2>6. Here' = DOMAIN phases
    BY <2>2 DEF Here
  <2> HIDE DEF other, phases, n
  <2> QED
    BY <2>2, <2>3, <2>4, <2>5, <2>6
<1> QED
  BY <1>1, <1>2

LEMMA LintInit == Init => LintInv
<1> SUFFICES ASSUME Init PROVE LintInv
  OBVIOUS
<1>1. DOMAIN estimates = {}
  BY DEF Init
<1> QED
  BY <1>1 DEF Init, LintInv, Runs, Lints, Counts, NoPanic

LEMMA LintStep == LintInv /\ [Next]_vars => LintInv'
<1> SUFFICES ASSUME LintInv, [Next]_vars PROVE LintInv'
  OBVIOUS
<1> USE DEF LintInv, NoPanic, Go, Return
<1>1. CASE Parse
  <2>1. Runs'
    BY <1>1 DEF Parse, Runs, Loaded
  <2>2. Lints'
    BY <1>1 DEF Parse, Runs, Lints, Loaded
  <2>3. Counts' /\ NoPanic'
    BY <1>1 DEF Parse, Counts, Loaded, Here, WithBatch, Warned
  <2> QED
    BY <2>1, <2>2, <2>3
<1>2. CASE Override
  <2>1. Loaded /\ command.name # "lint"
    BY <1>2 DEF Override, Runs
  <2>2. Runs'
    <3>1. CASE at' = "done"
      BY <1>2, <3>1 DEF Override, Runs
    <3>2. CASE at' = "phase"
      <4>1. file' = ApplyCLIOverrides(file, command.onFailure)
        BY <1>2, <3>2 DEF Override
      <4>2. /\ Len(file'.phases) \in Nat /\ Here' = 1 .. Len(file'.phases)
            /\ \A i \in Here' : Supplied(file'.phases[i])
        BY <2>1, <4>1, Overridden
      <4>3. command.onFailure = "" => Loaded'
        BY <2>1, <4>1 DEF ApplyCLIOverrides, Loaded
      <4> QED
        BY <1>2, <2>1, <3>2, <4>2, <4>3 DEF Override, Runs
    <3> QED
      BY <1>2, <3>1, <3>2 DEF Override
  <2>3. Lints' /\ NoPanic'
    BY <1>2, <2>1 DEF Override, Lints
  <2>4. Counts'
    BY <1>2, <2>1 DEF Override, Counts
  <2> QED
    BY <2>2, <2>3, <2>4
<1>3. CASE RunPhase
  <2>1. /\ at = "phase" /\ command.name # "lint" /\ (command.onFailure = "" => Loaded)
        /\ Len(file.phases) \in Nat /\ Here = 1 .. Len(file.phases)
        /\ \A i \in Here : Supplied(file.phases[i])
        /\ UNCHANGED <<file, command, findings, estimates>>
    BY <1>3 DEF RunPhase, Runs
  <2>2. Counts' /\ Lints'
    BY <1>3, <2>1 DEF RunPhase, Counts, Lints
  <2>3. outcome' # "panic"
    <3>1. idx <= Len(file.phases) => Supplied(Phase)
      <4>1. idx \in Nat \ {0} /\ Len(file.phases) \in Nat /\ Here = 1 .. Len(file.phases)
        BY <2>1 DEF Runs
      <4>2. idx <= Len(file.phases) => idx \in Here
        BY <4>1
      <4> QED
        BY <2>1, <4>2 DEF Phase
    <3> QED
      BY <1>3, <3>1 DEF RunPhase
  <2>4. Runs'
    <3>1. idx' \in Nat \ {0}
      <4>1. idx \in Nat \ {0}
        BY DEF Runs
      <4>2. idx' \in {idx, idx + 1}
        BY <1>3 DEF RunPhase
      <4> QED
        BY <4>1, <4>2
    <3>2. at' \in {"phase", "done"}
      BY <1>3 DEF RunPhase
    <3>3. Loaded' = Loaded /\ Here' = Here
      BY <2>1 DEF Loaded, Here
    <3> QED
      BY <2>1, <3>1, <3>2, <3>3 DEF Runs
  <2> QED
    BY <2>2, <2>3, <2>4
<1>4. CASE Connect
  <2>1. Runs' /\ Lints' /\ NoPanic'
    BY <1>4 DEF Connect, Runs, Lints, Loaded
  <2>2. Counts'
    BY <1>4 DEF Connect, Counts, Loaded, Here, WithBatch, Warned
  <2> QED
    BY <2>1, <2>2
<1>5. CASE RunRules
  <2>1. Runs' /\ NoPanic'
    BY <1>5 DEF RunRules, Runs, Loaded
  <2>2. Counts'
    BY <1>5 DEF RunRules, Counts, Loaded, Here, WithBatch, Warned
  <2>3. Errors' = Errors
    BY <1>5 DEF RunRules, Errors, GateRequiresWaitUntil, RollbackSQLRequired, BatchSizePlaceholder,
         BackfillIdempotency, Stated, NoUserLimitInBatch, WithBatch, QueryOf, Here
  <2>4. \A f \in Errors : <<"ERROR", f[1], f[2]>> \in findings'
    BY <1>5 DEF RunRules
  <2>5. Lints'
    BY <1>5, <2>3, <2>4 DEF RunRules, Lints, Loaded
  <2> QED
    BY <2>1, <2>2, <2>5
<1>6. CASE RunEstimate
  <2>1. Runs' /\ NoPanic'
    BY <1>6 DEF RunEstimate, Runs, Loaded, Here
  <2>2. Errors' = Errors
    BY <1>6 DEF RunEstimate, Errors, GateRequiresWaitUntil, RollbackSQLRequired, BatchSizePlaceholder,
         BackfillIdempotency, Stated, NoUserLimitInBatch, WithBatch, QueryOf, Here
  <2>3. outcome' = "ok" => Errors = {}
    BY <1>6 DEF RunEstimate, Lints
  <2>4. Lints'
    BY <1>6, <2>2, <2>3 DEF RunEstimate, Lints, Loaded
  <2>5. Counts'
    <3>1. CASE UNCHANGED estimates
      BY <1>6, <3>1 DEF RunEstimate, Counts, Loaded, Here, WithBatch, Warned
    <3>2. CASE \E rows \in [Counted -> Rows] :
                 estimates' = [i \in Counted |-> [rows |-> rows[i], warned |-> Warned(rows[i], i)]]
      <4>1. PICK rows \in [Counted -> Rows] :
              estimates' = [i \in Counted |-> [rows |-> rows[i], warned |-> Warned(rows[i], i)]]
        BY <3>2
      <4>2. Loaded' /\ WithBatch' = WithBatch /\ command'.name = "lint"
        BY <1>6 DEF RunEstimate, Lints, Loaded, WithBatch, Here
      <4>3. ASSUME NEW i \in Counted
            PROVE  /\ i \in WithBatch /\ rows[i] \in Nat /\ estimates'[i].rows = rows[i]
                   /\ estimates'[i].warned = Warned(rows[i], i)
        BY <4>1, SizesAssumption DEF Counted
      <4>4. \A n, i : Warned(n, i)' = Warned(n, i)
        BY <1>6 DEF RunEstimate, Warned, Here
      <4>5. DOMAIN estimates' = Counted
        BY <4>1
      <4> QED
        BY <4>2, <4>3, <4>4, <4>5 DEF Counts
    <3> QED
      BY <1>6, <3>1, <3>2 DEF RunEstimate, Estimate
  <2> QED
    BY <2>1, <2>4, <2>5
<1>7. CASE UNCHANGED vars
  <2>1. Loaded' = Loaded /\ Here' = Here /\ Errors' = Errors /\ WithBatch' = WithBatch
    BY <1>7 DEF vars, Loaded, Here, WithBatch, Errors, QueryOf, GateRequiresWaitUntil,
         RollbackSQLRequired, BatchSizePlaceholder, BackfillIdempotency, Stated, NoUserLimitInBatch
  <2>2. \A n, i : Warned(n, i)' = Warned(n, i)
    BY <1>7 DEF vars, Warned, Here
  <2>3. Runs' /\ NoPanic'
    BY <1>7, <2>1 DEF vars, Runs
  <2>4. Lints'
    BY <1>7, <2>1 DEF vars, Lints
  <2>5. Counts'
    BY <1>7, <2>1, <2>2 DEF vars, Counts
  <2> QED
    BY <2>3, <2>4, <2>5
<1> QED
  BY <1>1, <1>2, <1>3, <1>4, <1>5, <1>6, <1>7 DEF Next

LEMMA LintInvariance == Spec => []LintInv
  BY LintInit, LintStep, PTL DEF Spec

\* No file makes an executor follow a block that is not there: the loader's
\* switch on the names covers what the factory knows, and --on-failure, which
\* is not validated again, takes no block away.
THEOREM NothingMissing == Spec => []NoPanic
  BY LintInvariance, PTL DEF LintInv

\* In a file without errors, a batch query of the shape the rule of idempotency
\* takes for granted (one assignment "col = value", of a constant or of a column
\* that may be NULL; no OR, no NOT before a condition on the column, no name that
\* ends with the column's) has batches that fill every row they matched, up to
\* the first that the assignment leaves as it is, whatever stands in the table.
THEOREM AcceptedTables == Spec => []AcceptedFillsAll
<1>1. LintInv => AcceptedFillsAll
  <2>1. SUFFICES ASSUME Loaded, Errors = {}, NEW i \in WithBatch, Readable(QueryOf(i)),
                        NEW t \in Tables, NEW r \in Matched(QueryOf(i), t)
                 PROVE  \/ Batches(QueryOf(i), t)[r] = Assigned(QueryOf(i), t[r])
                        \/ \E s \in Matched(QueryOf(i), t) :
                             s < r /\ Assigned(QueryOf(i), t[s]) = t[s]
    BY DEF LintInv, Lints, AcceptedFillsAll
  <2>2. QueryOf(i) \in BatchQueries
    <3>1. file.phases[i] \in PhaseConfigs /\ file.phases[i].batch # Nil
      BY <2>1, LoadedFile DEF WithBatch
    <3> QED
      BY <3>1 DEF PhaseConfigs, BatchConfigs, QueryOf
  <2>3. i \notin BackfillIdempotency
    <3>1. i \in BackfillIdempotency => <<"idempotency", i>> \in Errors
      BY DEF Errors
    <3> QED
      BY <2>1, <3>1
  <2>4. \E c \in Stated(QueryOf(i)) : Excludes(QueryOf(i), c)
    <3>1. QueryOf(i).set # <<>> /\ Spaced(QueryOf(i)) # {}
      BY <2>1, <2>2 DEF Readable, Spaced, BatchQueries
    <3> QED
      BY <2>3, <3>1 DEF BackfillIdempotency
  <2>5. Accepted(QueryOf(i)) /\ t \in Seq(Row)
    BY <2>1, <2>2, <2>4, SizesAssumption DEF Accepted
  <2> QED
    BY <2>5, AcceptedFills
<1> QED
  BY <1>1, LintInvariance, PTL

\* A gate that lint has not warned of outlasts 1.5 times the batch loop, give
\* or take its last sleep, for every size of table, batch, delay and timeout.
THEOREM WarnedIfShort == Spec => []EstimateHolds
<1>1. LintInv => EstimateHolds
  <2> SUFFICES ASSUME LintInv, NEW i \in DOMAIN estimates, NEW j \in Here,
                      file.phases[i].name = "backfill", ~estimates[i].warned,
                      file.phases[j].name = "gate", file.phases[j].waitUntil # Nil,
                      file.phases[j].waitUntil > 0
               PROVE  2 * file.phases[j].waitUntil * Minute
                        > 3 * (Sleeps(estimates[i].rows, file.phases[i].batch)
                                 - Sleep(file.phases[i].batch))
    BY DEF EstimateHolds
  <2>1. /\ Loaded /\ i \in Here /\ file.phases[i].batch # Nil /\ estimates[i].rows \in Nat
        /\ estimates[i].warned = Warned(estimates[i].rows, i)
    BY DEF LintInv, Counts, WithBatch
  <2>2. file.phases[i].batch \in BatchConfigs /\ file.phases[i].batch.size > 0
    BY <2>1, LoadedFile DEF PhaseConfigs, HasItsBlocks
  <2>3. file.phases[j].waitUntil \in Int
    BY <2>1, LoadedFile DEF PhaseConfigs
  <2>4. ~TooShort(file.phases[j].waitUntil, estimates[i].rows, file.phases[i].batch)
    BY <2>1 DEF Warned
  <2> QED
    BY <2>1, <2>2, <2>3, <2>4, LoopOutlasted
<1> QED
  BY <1>1, LintInvariance, PTL

=============================================================================
