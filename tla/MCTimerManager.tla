---------------------------- MODULE MCTimerManager ----------------------------
(***************************************************************************)
(* Instances of TimerManager for TLC.  Connections are interchangeable,    *)
(* and so are nodes; the clock goes around twice.                          *)
(***************************************************************************)
EXTENDS TimerManager, TLC

Symmetry == Permutations(Conns) \cup Permutations(Nodes)
=============================================================================
