---------------------------- MODULE MCAsyncLogging ----------------------------
(***************************************************************************)
(* Instances of AsyncLogging for TLC: the buffers are model values, and    *)
(* interchangeable; the symmetry is used only where no liveness is         *)
(* checked.                                                                *)
(***************************************************************************)
EXTENDS AsyncLogging, TLC

Symmetry == Permutations(Buffers)
=============================================================================
