------------------------------ MODULE MCRunner ------------------------------
(***************************************************************************)
(* Constants for model checking Runner.                                    *)
(***************************************************************************)
EXTENDS Runner, TLC

P(name, onFailure, rollbackSQL) ==
    [name |-> name, onFailure |-> onFailure, rollbackSQL |-> rollbackSQL]

\* One DDL phase with automatic rollback before one without.
MCExpandContract == << P("expand", "rollback", TRUE), P("contract", "none", FALSE) >>

\* The same under --on-failure rollback: the second has nothing to undo it with.
MCRollback == << P("expand", "rollback", TRUE), P("contract", "rollback", FALSE) >>

\* A phase whose rollback is a no-op, before one that can time out.
MCBackfillGate == << P("backfill", "rollback", TRUE), P("gate", "none", FALSE) >>

MCNoFaults == {}
MCAllFaults == {"crash", "sigterm", "dberror", "lostack"}
MCCrash == {"crash"}
MCLostAnswers == {"lostack"}

Symmetric == Permutations(Procs)

=============================================================================
