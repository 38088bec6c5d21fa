------------------------------ MODULE Results ------------------------------
(***************************************************************************)
(* What the SQL of a phase can leave in the user's schema, which is what   *)
(* the runner and the commands know of an executor (internal/phase).  The  *)
(* phase is "absent" from the schema, "applied", or, if its SQL has        *)
(* several steps, "partial".                                               *)
(***************************************************************************)

\* What Execute can leave behind and return, from what was there.  The SQL of
\* an expand phase is one DDL statement, a contract has several and may stop
\* half way, as a backfill may after any batch; the server refuses to repeat
\* some DDL, and repeats other DDL and every batch; a gate only reads.
ExecResults(name, was) ==
    IF name = "gate"
      THEN {<<was, "nil">>, <<was, "error">>, <<was, "timeout">>}
      ELSE {<<"applied", "nil">>, <<was, "error">>}
             \cup (IF name # "expand" /\ was = "absent" THEN {<<"partial", "error">>} ELSE {})

\* What Rollback can leave behind.  Only expand and contract have one; it needs
\* a rollback_sql, and that of a contract has several statements too.
RollbackResults(ph, was) ==
    {was} \cup (IF ph.name \in {"expand", "contract"} /\ ph.rollbackSQL THEN {"absent"} ELSE {})
          \cup (IF ph.name = "contract" /\ ph.rollbackSQL /\ was = "applied"
                  THEN {"partial"} ELSE {})

=============================================================================
