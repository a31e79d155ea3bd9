--------------------------- MODULE ConnectionTimers ---------------------------
(***************************************************************************)
(* What the connections of a loop and its TimerManager expect of each      *)
(* other.  A connection asks for a timer when it has none, and gives it up *)
(* while handlers run; a sweep, between rounds of handlers, takes timers   *)
(* that are overdue and no others, and does not end before it has taken    *)
(* them all.  Connection is written against this, TimerManager keeps it.   *)
(*                                                                         *)
(* The one thing that is not as expected is the clock: when it starts      *)
(* again, a timer that was overdue and not yet swept is overdue no longer. *)
(***************************************************************************)

CONSTANT Conns

VARIABLES
    timer,          \* of each connection: "none", "running" or "overdue"
    sweeping        \* handleExpired is running

vars == <<timer, sweeping>>

Init ==
    /\ timer = [c \in Conns |-> "none"]
    /\ sweeping = FALSE

Add(c) ==
    /\ ~sweeping
    /\ timer[c] = "none"
    /\ timer' = [timer EXCEPT ![c] = "running"]
    /\ UNCHANGED sweeping

Clear(c) ==
    /\ ~sweeping
    /\ timer' = [timer EXCEPT ![c] = "none"]
    /\ UNCHANGED sweeping

\* Time passes the timeouts of the connections in C.
Elapse(C) ==
    /\ \A c \in C : timer[c] = "running"
    /\ timer' = [c \in Conns |-> IF c \in C THEN "overdue" ELSE timer[c]]
    /\ UNCHANGED sweeping

StartAgain ==
    /\ timer' = [c \in Conns |-> IF timer[c] = "none" THEN "none" ELSE "running"]
    /\ UNCHANGED sweeping

StartSweep ==
    /\ ~sweeping
    /\ sweeping' = TRUE
    /\ UNCHANGED timer

Expire(c) ==
    /\ sweeping
    /\ timer[c] = "overdue"
    /\ timer' = [timer EXCEPT ![c] = "none"]
    /\ UNCHANGED sweeping

EndSweep ==
    /\ sweeping
    /\ \A c \in Conns : timer[c] # "overdue"
    /\ sweeping' = FALSE
    /\ UNCHANGED timer

Next ==
    \/ \E c \in Conns : Add(c) \/ Clear(c) \/ Expire(c)
    \/ \E C \in SUBSET Conns : Elapse(C)
    \/ StartAgain \/ StartSweep \/ EndSweep

Spec == Init /\ [][Next]_vars
=============================================================================
