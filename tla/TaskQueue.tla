------------------------------ MODULE TaskQueue ------------------------------
(***************************************************************************)
(* What the server promises three times over to those who hand it work: a  *)
(* task is done once, after every task handed over before it.  A functor   *)
(* given to queueInLoop runs once, on the loop (README.md:70; EventLoop);  *)
(* a line that is logged is written once (README.md:90; AsyncLogging); a   *)
(* client that connects is accepted once (README.md:82; Acceptor).         *)
(*                                                                         *)
(* A functor that runInLoop finds itself already on the loop's thread for  *)
(* runs at once.  What has stopped does nothing more.  Where system calls  *)
(* may fail, each failure may cost the tasks at the head of the queue, or  *)
(* come with the end, and then nothing is promised about the time the      *)
(* others take.                                                            *)
(***************************************************************************)
EXTENDS Integers, Sequences

CONSTANT Tasks      \* the functors, lines or clients

VARIABLES
    supply,         \* the tasks nobody has handed over yet
    queue,          \* the tasks accepted and not yet finished, in order
    done,           \* the tasks that were done, in the order they finished
    losses,         \* the failures so far
    stopped         \* nothing more is done

vars == <<supply, queue, done, losses, stopped>>

Init ==
    /\ supply = Tasks
    /\ queue = <<>>
    /\ done = <<>>
    /\ losses = 0
    /\ stopped = FALSE

Submit(t) ==
    /\ t \in supply
    /\ supply' = supply \ {t}
    /\ queue' = Append(queue, t)
    /\ UNCHANGED <<done, losses, stopped>>

RunAtOnce(t) ==
    /\ t \in supply
    /\ ~stopped
    /\ supply' = supply \ {t}
    /\ done' = Append(done, t)
    /\ UNCHANGED <<queue, losses, stopped>>

Execute ==
    /\ queue # <<>>
    /\ ~stopped
    /\ done' = Append(done, Head(queue))
    /\ queue' = Tail(queue)
    /\ UNCHANGED <<supply, losses, stopped>>

Lose ==
    /\ ~stopped
    /\ losses' = losses + 1
    /\ \E n \in 0 .. Len(queue) : queue' = SubSeq(queue, n + 1, Len(queue))
    /\ stopped' \in {FALSE, TRUE}
    /\ UNCHANGED <<supply, done>>

Stop ==
    /\ ~stopped
    /\ stopped' = TRUE
    /\ UNCHANGED <<supply, queue, done, losses>>

Next ==
    \/ \E t \in Tasks : Submit(t) \/ RunAtOnce(t)
    \/ Execute
    \/ Lose
    \/ Stop

SafeSpec == Init /\ [][Next]_vars

Spec == SafeSpec /\ ([](losses = 0) => WF_vars(Execute))
=============================================================================
