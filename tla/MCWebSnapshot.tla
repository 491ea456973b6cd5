---------------------------- MODULE MCWebSnapshot ----------------------------
(***************************************************************************)
(* Two tabs that begin three loads between them, and three publications,   *)
(* of which the second cannot be resolved.                                 *)
(***************************************************************************)
EXTENDS WebSnapshot

CONSTANTS t1, t2

=============================================================================
