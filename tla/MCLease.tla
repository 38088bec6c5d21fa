------------------------------ MODULE MCLease ------------------------------
(***************************************************************************)
(* lockTTL and heartbeatInterval in units of three seconds, and one        *)
(* refresh in a row that may fail.                                         *)
(***************************************************************************)
EXTENDS Lease, TLC

Symmetric == Permutations(Procs)

=============================================================================
