------------------------------ MODULE EventLoop ------------------------------
(***************************************************************************)
(* One EventLoop (EventLoop.cpp) and the threads that use it: loop()       *)
(* polls, dispatches the ready channels and runs the queued functors;      *)
(* queueInLoop, runInLoop and quit are called from other threads and from  *)
(* the handlers and functors the loop itself runs.                         *)
(*                                                                         *)
(* A step is one access to what the threads share: the vector under        *)
(* mutex_ (a critical section is one step), quit_, or the eventfd.  The    *)
(* eventfd is registered edge-triggered, so a write puts it on epoll's     *)
(* ready list and one epoll_wait takes it off.  The timers that            *)
(* handleExpired sweeps touch nothing here; Connection.tla models them.    *)
(***************************************************************************)
EXTENDS Integers, Sequences

CONSTANTS
    Loop,           \* the thread that constructed the loop and runs loop()
    Callers,        \* the other threads
    Tasks,          \* the functors, each handed over at most once
    MaxQuits        \* bound: calls of quit()

ASSUME LoopAssumption == Loop \notin Callers
ASSUME QuitsAssumption == MaxQuits \in Nat

Threads == Callers \cup {Loop}

VARIABLES
    supply,                  \* functors nobody has handed over yet
    pendingFunctors_,        \* the queue mutex_ guards
    functors,                \* doPendingFunctors' batch; its head is running
    callingPendingFunctors_,
    executed,                \* functors that ran, in order
    wakeupCount,             \* the counter of the eventfd wakeupFd_
    wakeupReady,             \* wakeupFd_ is on epoll's ready list
    ioReady,                 \* some other channel of this loop is ready
    ret,                     \* ready channels still to be dispatched
    quit_, looping_,
    quits,                   \* calls of quit() so far
    waking,                  \* threads inside wakeup(), before the write
    pc                       \* where loop() is

queueVars == <<supply, pendingFunctors_, functors, executed>>
pollVars == <<wakeupCount, wakeupReady, ioReady, ret>>
loopVars == <<callingPendingFunctors_, looping_, pc>>
quitVars == <<quit_, quits>>
vars == <<queueVars, pollVars, loopVars, quitVars, waking>>

Channels == {"wakeup", "io"}
PCs == {"start", "check", "poll", "dispatch", "run", "returned"}

Init ==
    /\ supply = Tasks
    /\ pendingFunctors_ = <<>> /\ functors = <<>> /\ executed = <<>>
    /\ callingPendingFunctors_ = FALSE
    /\ wakeupCount = 0 /\ wakeupReady = FALSE /\ ioReady = FALSE
    /\ ret = {}
    /\ quit_ = FALSE /\ looping_ = FALSE /\ quits = 0
    /\ waking = {}
    /\ pc = "start"

-----------------------------------------------------------------------------
(* Calls into the loop, from any thread.                                   *)

\* The loop's own thread calls out of a channel's handler or of the functor
\* that is running, and makes one call at a time; nothing it runs under
\* handleExpired queues a functor.  The other threads are free to call.
MayCall(p) ==
    /\ p \notin waking
    /\ p = Loop => \/ pc = "dispatch" /\ "io" \in ret
                   \/ pc = "run" /\ functors # <<>>

\* Without "|| callingPendingFunctors_".
MutantWakeOnlyForOthers(p, t) ==
    /\ MayCall(p)
    /\ t \in supply
    /\ supply' = supply \ {t}
    /\ pendingFunctors_' = Append(pendingFunctors_, t)
    /\ waking' = IF p # Loop THEN waking \cup {p} ELSE waking
    /\ UNCHANGED <<functors, executed, pollVars, loopVars, quitVars>>

\* queueInLoop: the critical section, then the decision to wake the loop.
QueueInLoop(p, t) ==
    /\ MayCall(p)
    /\ t \in supply
    /\ supply' = supply \ {t}
    /\ pendingFunctors_' = Append(pendingFunctors_, t)
    /\ waking' = IF p # Loop \/ callingPendingFunctors_
                 THEN waking \cup {p} ELSE waking
    /\ UNCHANGED <<functors, executed, pollVars, loopVars, quitVars>>

\* runInLoop on the loop's own thread calls the functor directly; on another
\* thread it is queueInLoop.
RunInLoop(p, t) ==
    IF p = Loop
    THEN /\ MayCall(p)
         /\ t \in supply
         /\ supply' = supply \ {t}
         /\ executed' = Append(executed, t)
         /\ UNCHANGED <<pendingFunctors_, functors, pollVars, loopVars,
                        quitVars, waking>>
    ELSE QueueInLoop(p, t)

\* The flag is set, the loop left asleep.
MutantQuitWithoutWakeup(p) ==
    /\ MayCall(p)
    /\ quits < MaxQuits
    /\ quits' = quits + 1
    /\ quit_' = TRUE
    /\ UNCHANGED <<queueVars, pollVars, loopVars, waking>>

Quit(p) ==
    /\ MayCall(p)
    /\ quits < MaxQuits
    /\ quits' = quits + 1
    /\ quit_' = TRUE
    /\ waking' = IF p # Loop THEN waking \cup {p} ELSE waking
    /\ UNCHANGED <<queueVars, pollVars, loopVars>>

\* The write of 1 to the eventfd: the counter grows and the edge fires.
Wakeup(p) ==
    /\ p \in waking
    /\ waking' = waking \ {p}
    /\ wakeupCount' = wakeupCount + 1
    /\ wakeupReady' = TRUE
    /\ UNCHANGED <<queueVars, ioReady, ret, loopVars, quitVars>>

\* Input arrives on another channel of the loop.
IOEvent ==
    /\ ~ioReady
    /\ ioReady' = TRUE
    /\ UNCHANGED <<queueVars, wakeupCount, wakeupReady, ret, loopVars,
                   quitVars, waking>>

-----------------------------------------------------------------------------
(* loop(), on the loop's thread, which is busy while it is in wakeup().    *)

At(l) == pc = l /\ Loop \notin waking

Enter ==
    /\ At("start")
    /\ looping_' = TRUE
    /\ quit_' = FALSE
    /\ pc' = "check"
    /\ UNCHANGED <<queueVars, pollVars, callingPendingFunctors_, quits, waking>>

\* while(!quit_)
Check ==
    /\ At("check")
    /\ looping_' = ~quit_
    /\ pc' = IF quit_ THEN "returned" ELSE "poll"
    /\ UNCHANGED <<queueVars, pollVars, callingPendingFunctors_, quitVars,
                   waking>>

\* The channels epoll_wait reports: the eventfd is readable only while its
\* counter is not zero.
ReadyChannels ==
    {ch \in Channels : \/ ch = "wakeup" /\ wakeupReady /\ wakeupCount > 0
                       \/ ch = "io" /\ ioReady}

\* Epoll::poll retries until some channel is ready.
Poll ==
    /\ At("poll")
    /\ ReadyChannels # {}
    /\ ret' = ReadyChannels
    /\ wakeupReady' = FALSE
    /\ ioReady' = FALSE
    /\ pc' = "dispatch"
    /\ UNCHANGED <<queueVars, wakeupCount, callingPendingFunctors_, looping_,
                   quitVars, waking>>

\* The wakeup channel has no read handler.
MutantCounterNotRead ==
    /\ At("dispatch")
    /\ "wakeup" \in ret
    /\ ret' = ret \ {"wakeup"}
    /\ UNCHANGED <<queueVars, wakeupCount, wakeupReady, ioReady, loopVars,
                   quitVars, waking>>

\* Called on every iteration, the counter read like a semaphore's.
MutantReadsUnasked ==
    /\ At("dispatch")
    /\ ret' = ret \ {"wakeup"}
    /\ wakeupCount' = wakeupCount - 1
    /\ UNCHANGED <<queueVars, wakeupReady, ioReady, loopVars, quitVars, waking>>

\* handleRead of the wakeup channel: reading an eventfd sets it to zero.
HandleRead ==
    /\ At("dispatch")
    /\ "wakeup" \in ret
    /\ ret' = ret \ {"wakeup"}
    /\ wakeupCount' = 0
    /\ UNCHANGED <<queueVars, wakeupReady, ioReady, loopVars, quitVars, waking>>

\* The handler of the other channel returns.
HandleIO ==
    /\ At("dispatch")
    /\ "io" \in ret
    /\ ret' = ret \ {"io"}
    /\ UNCHANGED <<queueVars, wakeupCount, wakeupReady, ioReady, loopVars,
                   quitVars, waking>>

\* The vector is copied, not swapped.
MutantCopyForSwap ==
    /\ At("dispatch")
    /\ ret = {}
    /\ callingPendingFunctors_' = TRUE
    /\ functors' = pendingFunctors_
    /\ pc' = "run"
    /\ UNCHANGED <<supply, pendingFunctors_, executed, pollVars, looping_,
                   quitVars, waking>>

\* doPendingFunctors: the flag, then the swap under mutex_.
TakeFunctors ==
    /\ At("dispatch")
    /\ ret = {}
    /\ callingPendingFunctors_' = TRUE
    /\ functors' = pendingFunctors_
    /\ pendingFunctors_' = <<>>
    /\ pc' = "run"
    /\ UNCHANGED <<supply, executed, pollVars, looping_, quitVars, waking>>

\* functors[i]() returns.
RunFunctor ==
    /\ At("run")
    /\ functors # <<>>
    /\ executed' = Append(executed, Head(functors))
    /\ functors' = Tail(functors)
    /\ UNCHANGED <<supply, pendingFunctors_, pollVars, loopVars, quitVars,
                   waking>>

\* The batch is done; handleExpired follows.
EndFunctors ==
    /\ At("run")
    /\ functors = <<>>
    /\ callingPendingFunctors_' = FALSE
    /\ pc' = "check"
    /\ UNCHANGED <<queueVars, pollVars, looping_, quitVars, waking>>

LoopStep ==
    \/ Enter \/ Check \/ Poll \/ HandleRead \/ HandleIO
    \/ TakeFunctors \/ RunFunctor \/ EndFunctors

Next ==
    \/ LoopStep
    \/ \E p \in Threads :
          \/ \E t \in Tasks : QueueInLoop(p, t) \/ RunInLoop(p, t)
          \/ Quit(p)
          \/ Wakeup(p)
    \/ IOEvent

\* Every thread is scheduled: the loop goes on while it can, and a thread
\* that has entered wakeup() reaches the write.  Nobody is obliged to call.
Fairness == WF_vars(LoopStep) /\ \A p \in Threads : WF_vars(Wakeup(p))

SafeSpec == Init /\ [][Next]_vars
Spec == SafeSpec /\ Fairness

-----------------------------------------------------------------------------
\* The types.  quit_ and callingPendingFunctors_ are plain bools in the code;
\* the eventfd's counter never goes below zero, whenever it is read.
TypeOK ==
    /\ supply \in SUBSET Tasks
    /\ pendingFunctors_ \in Seq(Tasks)
    /\ functors \in Seq(Tasks)
    /\ executed \in Seq(Tasks)
    /\ callingPendingFunctors_ \in BOOLEAN
    /\ wakeupCount \in Nat
    /\ wakeupReady \in BOOLEAN
    /\ ioReady \in BOOLEAN
    /\ ret \in SUBSET Channels
    /\ quit_ \in BOOLEAN
    /\ looping_ \in BOOLEAN
    /\ quits \in 0 .. MaxQuits
    /\ waking \in SUBSET Threads
    /\ pc \in PCs

\* The loop's next epoll_wait returns: the wakeup is readable on a fresh
\* edge, or a thread is about to write it.
Signalled == waking # {} \/ (wakeupReady /\ wakeupCount > 0)

\* A functor queued, or a quit requested, while the loop is at its poll is
\* announced: the loop cannot block on it.  This is what the wakeup in
\* queueInLoop and in quit is for; a functor the loop itself queues from a
\* handler needs none, because doPendingFunctors still follows.
NoLostWakeup ==
    pc = "poll" /\ (pendingFunctors_ # <<>> \/ quit_) => Signalled

\* The eventfd is edge-triggered: when the loop is back at its poll, a
\* counter that is not zero has an edge left to report it.  A loop that left
\* the counter unread would poll with a readable eventfd and no edge.
EdgeNotConsumed == pc = "poll" /\ wakeupCount > 0 => wakeupReady

\* The loop keeps the promise of TaskQueue: every functor runs once and in
\* order, and each one accepted does run unless the loop returns.  The queue
\* is what is left of the batch, followed by what came since the swap.
Queue == INSTANCE TaskQueue WITH
    queue <- functors \o pendingFunctors_,
    done <- executed,
    losses <- 0,
    stopped <- pc = "returned"

ImplementsTaskQueue == Queue!Spec

\* quit() called on a loop that has entered loop() makes loop() return, and
\* the loop does not sleep through it.  (A quit that comes before loop() is
\* forgotten: Enter resets quit_.)
QuitReturns == (quit_ /\ looping_) ~> pc = "returned"

\* The invariant from which the theorems of EventLoopProofs follow.  Away
\* from the dispatch nobody reads the eventfd, so a functor queued there
\* stays announced until the loop polls; the batch is empty except while it
\* runs, and the flag queueInLoop looks at says just that.
WakeupInv ==
    /\ TypeOK
    /\ pc = "run" => callingPendingFunctors_
    /\ pc # "run" => functors = <<>>
    /\ pc # "dispatch" => ret = {}
    /\ wakeupCount > 0 => wakeupReady \/ "wakeup" \in ret
    /\ pc # "dispatch" /\ pendingFunctors_ # <<>> => Signalled
    /\ pc = "poll" /\ quit_ => Signalled
=============================================================================
