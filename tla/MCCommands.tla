----------------------------- MODULE MCCommands -----------------------------
(***************************************************************************)
(* A gate in front, so that a rollback to it has two phases to undo, and   *)
(* two phases that a resume may have to repeat.  A target may be the type  *)
(* of an executor, the name of a phase, or neither.                        *)
(***************************************************************************)
EXTENDS Commands, TLC

P(name, onFailure, rollbackSQL) ==
    [name |-> name, onFailure |-> onFailure, rollbackSQL |-> rollbackSQL]

MCMigration == << P("gate", "none", FALSE), P("expand", "rollback", TRUE),
                  P("contract", "none", TRUE) >>

MCCrash == {"crash"}
MCTargets == {"GATE", "expand", "verify"}

Symmetric == Permutations(Procs)

\* The view: of an invocation's own variables those that some step or property
\* still reads before they are written again.
StillRead(p) ==
    [pc        |-> pc[p],
     cancelled |-> cancelled[p],
     resume    |-> Alive(p) /\ resume[p],
     idx       |-> IF Alive(p) THEN idx[p] ELSE 1,
     latest    |-> IF pc[p] = "getlock" THEN latest[p] ELSE "none",
     attempt   |-> IF pc[p] \in HeartbeatOn \cup {"start"} THEN attempt[p] ELSE 0,
     outcome   |-> IF pc[p] \in {"guard", "terminal"} THEN outcome[p] ELSE "nil",
     lockLost  |-> pc[p] \in HeartbeatOn /\ lockLost[p]]

View == <<history, lock, effect, [p \in Procs |-> StillRead(p)], beats, cmd>>

=============================================================================
