---------------------------- MODULE MCCheckerPool ----------------------------
(***************************************************************************)
(* A pool of two workers over more batches than the output channel holds.  *)
(***************************************************************************)
EXTENDS CheckerPool

CONSTANTS w1, w2
=============================================================================
