-------------------------------- MODULE Lock --------------------------------
(***************************************************************************)
(* What the lock of a migration promises while heartbeats are on time, as  *)
(* a row and the set of those who work under it, without clocks, ticks and *)
(* statements: nobody takes the row of one who works.                      *)
(*                                                                         *)
(* Lease, which has the clocks, and Runner, which has the statements, both *)
(* implement it: that is what lets Runner do without the clocks.           *)
(***************************************************************************)
CONSTANTS Procs, Nobody

VARIABLES
    row,     \* the row: its holder, and whether EXPIRES_AT is still to come
    working  \* those between AcquireLock and ReleaseLock

NoRow == [holder |-> Nobody, live |-> FALSE]

Init == row = NoRow /\ working = {}

\* A row that is missing or over is taken; the taker may never learn that it
\* has it.
Take(p) ==
    /\ p \notin working /\ ~row.live
    /\ row' = [holder |-> p, live |-> TRUE]
    /\ working' \in {working, working \cup {p}}

\* Whoever leaves deletes the row, or leaves it to expire.
Leave(p) ==
    /\ p \in working
    /\ working' = working \ {p}
    /\ row' \in {row, NoRow}

Expire ==
    /\ row.live /\ row.holder \notin working
    /\ row' = [holder |-> row.holder, live |-> FALSE]
    /\ UNCHANGED working

Next == Expire \/ \E p \in Procs : Take(p) \/ Leave(p)

Spec == Init /\ [][Next]_<<row, working>>

=============================================================================
