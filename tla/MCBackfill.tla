----------------------------- MODULE MCBackfill -----------------------------
(***************************************************************************)
(* Three rows to start with, in batches of two, with gaps for the          *)
(* application's rows in front of, between and behind them.                *)
(***************************************************************************)
EXTENDS Backfill

MCFirstIds == {1, 2, 4}

=============================================================================
