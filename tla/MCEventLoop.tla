----------------------------- MODULE MCEventLoop -----------------------------
(***************************************************************************)
(* Instances of EventLoop for TLC: the loop's thread, other threads and    *)
(* functors are model values.  No symmetry: liveness is checked too.       *)
(***************************************************************************)
EXTENDS EventLoop
=============================================================================
