----------------------------- MODULE MCBufPool ------------------------------
(***************************************************************************)
(* BufPool for TLC.  No symmetry: the run checks a liveness property.      *)
(***************************************************************************)
EXTENDS BufPool

=============================================================================
