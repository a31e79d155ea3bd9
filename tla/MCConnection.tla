----------------------------- MODULE MCConnection -----------------------------
(***************************************************************************)
(* Instances of Connection for TLC: the descriptors are model values and   *)
(* interchangeable; the symmetry is used only where no liveness is         *)
(* checked.                                                                *)
(***************************************************************************)
EXTENDS Connection, TLC

Symmetry == Permutations(Fds)
=============================================================================
