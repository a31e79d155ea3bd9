--------------------------- MODULE EventLoopProofs ---------------------------
(***************************************************************************)
(* Theorems about EventLoop for any set of threads and functors and any    *)
(* number of quits.  The invariant is WakeupInv: a functor that waits      *)
(* while the loop is not dispatching is announced on the eventfd.          *)
(***************************************************************************)
EXTENDS EventLoop, SequenceLemmas

USE DEF queueVars, pollVars, loopVars, quitVars, Channels, Threads, PCs, At

LEMMA InitWakeupInv == Init => WakeupInv
  <1> SUFFICES ASSUME Init PROVE WakeupInv
    OBVIOUS
  <1>1. <<>> \in Seq(Tasks)
    BY EmptySeq
  <1>2. quits \in 0 .. MaxQuits /\ wakeupCount \in Nat
    BY QuitsAssumption DEF Init
  <1>3. TypeOK
    BY <1>1, <1>2, Zenon DEF Init, TypeOK
  <1> QED
    BY <1>3 DEF Init, WakeupInv

(* One lemma for the calls, one for the steps of loop(): each preserves    *)
(* the types and every clause of the invariant.                            *)
LEMMA CallPreserves ==
  ASSUME WakeupInv, NEW p \in Threads, NEW t \in Tasks,
         QueueInLoop(p, t) \/ RunInLoop(p, t) \/ Quit(p) \/ Wakeup(p)
  PROVE  WakeupInv'
  <1> USE QuitsAssumption DEF WakeupInv, TypeOK, Signalled, MayCall
  <1>1. CASE QueueInLoop(p, t)
    BY <1>1 DEF QueueInLoop
  <1>2. CASE RunInLoop(p, t)
    <2>1. CASE p = Loop
      <3>1. /\ executed' = Append(executed, t)
            /\ supply' = supply \ {t}
            /\ UNCHANGED <<pendingFunctors_, functors, pollVars, loopVars,
                           quitVars, waking>>
        BY <1>2, <2>1 DEF RunInLoop
      <3> QED
        BY <3>1
    <2>2. CASE p # Loop
      BY <1>1, <1>2, <2>2 DEF RunInLoop
    <2> QED
      BY <2>1, <2>2
  <1>3. CASE Quit(p)
    BY <1>3 DEF Quit
  <1>4. CASE Wakeup(p)
    BY <1>4 DEF Wakeup
  <1> QED
    BY <1>1, <1>2, <1>3, <1>4

LEMMA LoopStepPreserves ==
  ASSUME WakeupInv, LoopStep
  PROVE  WakeupInv'
  <1> USE QuitsAssumption DEF WakeupInv, TypeOK, Signalled
  <1>1. CASE Enter
    BY <1>1 DEF Enter
  <1>2. CASE Check
    BY <1>2 DEF Check
  <1>3. CASE Poll
    BY <1>3 DEF Poll, ReadyChannels
  <1>4. CASE HandleRead
    BY <1>4 DEF HandleRead
  <1>5. CASE HandleIO
    BY <1>5 DEF HandleIO
  <1>6. CASE TakeFunctors
    BY <1>6 DEF TakeFunctors
  <1>7. CASE RunFunctor
    BY <1>7 DEF RunFunctor
  <1>8. CASE EndFunctors
    BY <1>8 DEF EndFunctors
  <1> QED
    BY <1>1, <1>2, <1>3, <1>4, <1>5, <1>6, <1>7, <1>8 DEF LoopStep

LEMMA NextPreserves ==
  ASSUME WakeupInv, [Next]_vars
  PROVE  WakeupInv'
  <1>1. CASE LoopStep
    BY <1>1, LoopStepPreserves
  <1>2. ASSUME NEW p \in Threads, NEW t \in Tasks,
               QueueInLoop(p, t) \/ RunInLoop(p, t)
        PROVE  WakeupInv'
    BY <1>2, CallPreserves
  <1>3. ASSUME NEW p \in Threads, Quit(p) PROVE WakeupInv'
    BY <1>3, QuitsAssumption
       DEF Quit, WakeupInv, TypeOK, Signalled, MayCall
  <1>4. ASSUME NEW p \in Threads, Wakeup(p) PROVE WakeupInv'
    BY <1>4, QuitsAssumption DEF Wakeup, WakeupInv, TypeOK, Signalled
  <1>5. CASE IOEvent
    BY <1>5, QuitsAssumption DEF IOEvent, WakeupInv, TypeOK, Signalled
  <1>6. CASE UNCHANGED vars
    BY <1>6, QuitsAssumption DEF vars, WakeupInv, TypeOK, Signalled
  <1> QED
    BY <1>1, <1>2, <1>3, <1>4, <1>5, <1>6 DEF Next

(* The inductive invariant holds throughout: whatever the threads and the  *)
(* handlers do, work that waits outside the dispatch is announced.         *)
THEOREM WakeupInvariant == SafeSpec => []WakeupInv
  <1> QED
    BY InitWakeupInv, NextPreserves, PTL DEF SafeSpec

(* Every variable keeps its type: in particular the queues hold functors   *)
(* that were handed over and nothing else.                                 *)
THEOREM TypeCorrect == SafeSpec => []TypeOK
  <1>1. WakeupInv => TypeOK
    BY DEF WakeupInv
  <1> QED
    BY <1>1, WakeupInvariant, PTL

(* No wakeup is lost: a loop that is about to block in epoll_wait with a   *)
(* functor queued or a quit requested has a signal coming (queueInLoop,    *)
(* quit and the edge-triggered eventfd).                                   *)
THEOREM NoWakeupIsLost == SafeSpec => []NoLostWakeup
  <1>1. WakeupInv => NoLostWakeup
    BY DEF WakeupInv, NoLostWakeup
  <1> QED
    BY <1>1, WakeupInvariant, PTL

(* The counter of the eventfd never outlives its edge when the loop polls  *)
(* (handleRead drains what the edge announced).                            *)
THEOREM EdgeOutlivesCounter == SafeSpec => []EdgeNotConsumed
  <1>1. WakeupInv => EdgeNotConsumed
    BY DEF WakeupInv, EdgeNotConsumed
  <1> QED
    BY <1>1, WakeupInvariant, PTL

-----------------------------------------------------------------------------
(* The safety part of ImplementsTaskQueue.                                 *)

LEMMA InitRefines == Init => Queue!Init
  <1> SUFFICES ASSUME Init PROVE Queue!Init
    OBVIOUS
  <1>1. <<>> \o <<>> = <<>>
    BY ConcatEmptySeq, EmptySeq
  <1>2. (pc = "returned") = FALSE
    BY DEF Init
  <1> QED
    BY <1>1, <1>2, Zenon DEF Init, Queue!Init

(* A functor handed over is a Submit of the abstract queue; run at once,   *)
(* on the loop's own thread, it is a RunAtOnce.                            *)
LEMMA CallRefines ==
  ASSUME WakeupInv, NEW p \in Threads, NEW t \in Tasks,
         QueueInLoop(p, t) \/ RunInLoop(p, t)
  PROVE  Queue!Next
  <1>1. functors \in Seq(Tasks) /\ pendingFunctors_ \in Seq(Tasks)
    BY DEF WakeupInv, TypeOK
  <1>2. ASSUME QueueInLoop(p, t) PROVE Queue!Submit(t)
    <2>1. /\ t \in supply
          /\ supply' = supply \ {t}
          /\ executed' = executed
          /\ pc' = pc
      BY <1>2 DEF QueueInLoop
    <2>2. functors' \o pendingFunctors_'
            = Append(functors \o pendingFunctors_, t)
      BY <1>1, <1>2, AppendConcat DEF QueueInLoop
    <2> QED
      BY <2>1, <2>2, Zenon DEF Queue!Submit
  <1>3. ASSUME RunInLoop(p, t), p = Loop PROVE Queue!RunAtOnce(t)
    <2>1. /\ t \in supply
          /\ supply' = supply \ {t}
          /\ executed' = Append(executed, t)
          /\ pendingFunctors_' = pendingFunctors_
          /\ functors' = functors
          /\ pc' = pc
      BY <1>3 DEF RunInLoop
    <2>2. ~(pc = "returned")
      BY <1>3 DEF RunInLoop, MayCall
    <2> QED
      BY <2>1, <2>2, Zenon DEF Queue!RunAtOnce
  <1>4. ASSUME RunInLoop(p, t), p # Loop PROVE QueueInLoop(p, t)
    BY <1>4 DEF RunInLoop
  <1> QED
    BY <1>2, <1>3, <1>4, Zenon DEF Queue!Next

(* A functor that finishes is an Execute; the swap moves the queue without *)
(* changing it; loop() returning is the Stop.                              *)
LEMMA LoopStepRefines ==
  ASSUME WakeupInv, LoopStep
  PROVE  [Queue!Next]_(Queue!vars)
  <1> DEFINE Same == /\ UNCHANGED <<supply, executed>>
                     /\ functors' \o pendingFunctors_'
                          = functors \o pendingFunctors_
  <1>1. functors \in Seq(Tasks) /\ pendingFunctors_ \in Seq(Tasks)
    BY DEF WakeupInv, TypeOK
  <1>2. ASSUME Same, pc # "returned", pc' # "returned"
        PROVE  UNCHANGED Queue!vars
    <2>1. (pc = "returned")' = (pc = "returned")
      BY <1>2
    <2> QED
      BY <1>2, <2>1, Zenon DEF Queue!vars
  <1>3. CASE Enter \/ Poll \/ HandleRead \/ HandleIO \/ EndFunctors
    <2>1. Same /\ pc # "returned" /\ pc' # "returned"
      BY <1>3 DEF Enter, Poll, HandleRead, HandleIO, EndFunctors
    <2> QED
      BY <2>1, <1>2
  <1>4. CASE Check
    <2>1. Same /\ pc # "returned"
      BY <1>4 DEF Check
    <2>2. CASE pc' # "returned"
      BY <2>1, <2>2, <1>2
    <2>3. CASE pc' = "returned"
      <3>1. Queue!Stop
        BY <2>1, <2>3, Zenon DEF Queue!Stop
      <3> QED
        BY <3>1 DEF Queue!Next
    <2> QED
      BY <2>2, <2>3
  <1>5. CASE TakeFunctors
    <2>1. functors = <<>> /\ functors' = pendingFunctors_
          /\ pendingFunctors_' = <<>>
      BY <1>5 DEF TakeFunctors, WakeupInv
    <2>2. functors' \o pendingFunctors_' = functors \o pendingFunctors_
      BY <1>1, <2>1, ConcatEmptySeq
    <2>3. Same /\ pc # "returned" /\ pc' # "returned"
      BY <1>5, <2>2 DEF TakeFunctors
    <2> QED
      BY <2>3, <1>2
  <1>6. CASE RunFunctor
    <2>1. /\ functors # <<>>
          /\ functors' = Tail(functors)
          /\ pendingFunctors_' = pendingFunctors_
          /\ executed' = Append(executed, Head(functors))
          /\ supply' = supply
          /\ pc' = pc
          /\ ~(pc = "returned")
      BY <1>6 DEF RunFunctor
    <2>2. /\ functors \o pendingFunctors_ # <<>>
          /\ Head(functors \o pendingFunctors_) = Head(functors)
          /\ Tail(functors \o pendingFunctors_)
               = Tail(functors) \o pendingFunctors_
      BY <1>1, <2>1, ConcatHeadTail
    <2>3. Queue!Execute
      BY <2>1, <2>2, Zenon DEF Queue!Execute
    <2> QED
      BY <2>3 DEF Queue!Next
  <1> QED
    BY <1>3, <1>4, <1>5, <1>6 DEF LoopStep

LEMMA NextRefines ==
  ASSUME WakeupInv, [Next]_vars
  PROVE  [Queue!Next]_(Queue!vars)
  <1>1. CASE LoopStep
    BY <1>1, LoopStepRefines
  <1>2. ASSUME NEW p \in Threads, NEW t \in Tasks,
               QueueInLoop(p, t) \/ RunInLoop(p, t)
        PROVE  Queue!Next
    BY <1>2, CallRefines
  <1>3. ASSUME UNCHANGED <<supply, pendingFunctors_, functors, executed, pc>>
        PROVE  UNCHANGED Queue!vars
    BY <1>3, Zenon DEF Queue!vars
  <1>4. ASSUME NEW p \in Threads, Quit(p) \/ Wakeup(p)
        PROVE  UNCHANGED Queue!vars
    BY <1>4, <1>3 DEF Quit, Wakeup
  <1>5. CASE IOEvent \/ UNCHANGED vars
    BY <1>5, <1>3 DEF IOEvent, vars
  <1> QED
    BY <1>1, <1>2, <1>4, <1>5 DEF Next

(* The loop keeps the safety half of its promise: each functor runs at     *)
(* most once, in the order of the calls of queueInLoop, and none after     *)
(* loop() has returned.                                                    *)
THEOREM LoopRefinesTaskQueue == SafeSpec => Queue!SafeSpec
  <1> QED
    BY InitRefines, NextRefines, WakeupInvariant, PTL
       DEF SafeSpec, Queue!SafeSpec
=============================================================================
