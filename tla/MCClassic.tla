----------------------------- MODULE MCClassic -----------------------------
(***************************************************************************)
(* ClassicRunTime on a few threads and events.                             *)
(***************************************************************************)
EXTENDS ClassicRunTime

Symmetry == Permutations(Thread)
=============================================================================
