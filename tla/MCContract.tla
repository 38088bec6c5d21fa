----------------------------- MODULE MCContract -----------------------------
(***************************************************************************)
(* A script of three statements with blanks between them, and its          *)
(* rollback in reverse order.                                              *)
(***************************************************************************)
EXTENDS Contract

MCScript == <<"blank", "once", "again", "blank", "once">>
MCUndoScript == <<5, 3, 2>>

=============================================================================
