------------------------------ MODULE MCServer ------------------------------
(****************************************************************************)
(* Small instances of Server for TLC.  The worker pids are interchangeable, *)
(* and so are the termination signals, in every safety property; no         *)
(* property of a run with SYMMETRY is a liveness property.                  *)
(****************************************************************************)
EXTENDS Server, TLC

Symmetry == Permutations(Pids) \cup Permutations(TermSigs)
=============================================================================
