------------------------------- MODULE Ledger -------------------------------
(***************************************************************************)
(* What PHASEDB_HISTORY promises its readers, without events, processes or *)
(* locks: a migration is a ledger that has, for every phase, the status of *)
(* its attempts in the order in which they were started.                   *)
(***************************************************************************)
EXTENDS Naturals, Sequences

CONSTANT Order  \* the names of the phases, in the order of the migration

VARIABLE ledger  \* for each name, the status of its attempts 1, 2, ...

PhaseSet == {Order[i] : i \in DOMAIN Order}

Statuses == {"started", "completed", "failed", "timedout", "rolledback"}

LedgerTypeOK == ledger \in [PhaseSet -> Seq(Statuses)]

HasCompleted(name) == \E k \in DOMAIN ledger[name] : ledger[name][k] = "completed"

Init == ledger = [name \in PhaseSet |-> << >>]

\* The next attempt of a phase whose predecessors have all completed.
Open(i) ==
    /\ \A j \in 1 .. (i - 1) : HasCompleted(Order[j])
    /\ ledger' = [ledger EXCEPT ![Order[i]] = Append(@, "started")]

Change(name, k, from, to) ==
    /\ ledger[name][k] \in from
    /\ ledger' = [ledger EXCEPT ![name][k] = to]

\* The one verdict on an attempt.
Settle(name, k) ==
    \E verdict \in {"completed", "failed", "timedout"} :
      Change(name, k, {"started"}, verdict)

\* The automatic rollback of an attempt that did not complete.
Undo(name, k) == Change(name, k, {"failed", "timedout"}, "rolledback")

Next ==
    \/ \E i \in DOMAIN Order : Open(i)
    \/ \E name \in PhaseSet : \E k \in DOMAIN ledger[name] : Settle(name, k) \/ Undo(name, k)

Spec == Init /\ [][Next]_ledger

=============================================================================
