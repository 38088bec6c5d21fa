------------------------------- MODULE MCGate -------------------------------
(***************************************************************************)
(* The cfgs give the numbers: a poll interval of two units and a cap of    *)
(* five, so that the cap bites at the second error, and a timeout that     *)
(* leaves time for five errors (2 * 2 + 3 * 5 = 19 of 20).                 *)
(***************************************************************************)
EXTENDS Gate

\* Room for the sleeps after all transient errors but the last: the first is of
\* two intervals, the others are capped.
ASSUME FiveErrorsFit == Timeout >= 2 * PollInterval + 3 * BackoffCap

=============================================================================
