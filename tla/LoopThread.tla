------------------------------ MODULE LoopThread ------------------------------
(***************************************************************************)
(* The life of the threads of the pool: EventLoopThreadPool.cpp starts     *)
(* them one after the other through EventLoopThread.cpp, base/Thread.cpp   *)
(* and CountDownLatch.cpp, and the destructors end them.                   *)
(*                                                                         *)
(* Two actors at a time: the main thread, inside start() or a destructor   *)
(* of the EventLoopThread cur, and the threads themselves.  A step is a    *)
(* critical section or an access outside of one.  What the loops do with   *)
(* connections and functors is in EventLoop.tla and Connection.tla; here   *)
(* a loop is asked to end, or polls again.                                 *)
(***************************************************************************)
EXTENDS Integers, Sequences

CONSTANTS
    NumThreads,     \* numThreads_
    MaxFailures     \* bound: calls of pthread_create that fail

ASSUME NumThreadsAssumption == NumThreads \in Nat /\ NumThreads > 0
ASSUME FailuresAssumption == MaxFailures \in Nat

Workers == 1 .. NumThreads
NULL == 0       \* the address of the loop of worker w is w

VARIABLES
    main,           \* where the main thread is
    cur,            \* the EventLoopThread it is at
    loops_,         \* of the pool
    failures,       \* calls of pthread_create that failed
    tid_, count_,   \* of each Thread: its tid, whether it is set; its latch
    loop_,          \* of each EventLoopThread
    quit_,          \* of each EventLoop
    woken,          \* the eventfd of each EventLoop is ready
    pc              \* where each thread is

mainVars == <<main, cur, loops_, failures>>
threadVars == <<tid_, count_>>
loopVars == <<loop_, quit_, woken>>
vars == <<mainVars, threadVars, loopVars, pc>>

MainPCs == {"create", "latch", "latchAsleep", "loop", "loopAsleep", "return",
            "serving", "test", "flag", "wakeup", "join", "done"}
PCs == {"none", "begin", "count", "construct", "publish", "enter", "check",
        "poll", "clear", "destroy", "ended"}

Init ==
    /\ main = "create" /\ cur = 1 /\ loops_ = <<>> /\ failures = 0
    /\ tid_ = [w \in Workers |-> FALSE] /\ count_ = [w \in Workers |-> 1]
    /\ loop_ = [w \in Workers |-> NULL]
    /\ quit_ = [w \in Workers |-> FALSE]
    /\ woken = [w \in Workers |-> FALSE]
    /\ pc = [w \in Workers |-> "none"]

\* The EventLoop on w's stack exists.
Alive(w) == pc[w] \in {"publish", "enter", "check", "poll", "clear", "destroy"}

-----------------------------------------------------------------------------
(* The main thread, in start().                                            *)

MutantOneMore(next, last) ==
    IF cur <= NumThreads THEN cur' = cur + 1 /\ main' = next
    ELSE cur' = 1 /\ main' = last

\* On to the next EventLoopThread, or out of the loop over them.
Advance(next, last) ==
    IF cur < NumThreads THEN cur' = cur + 1 /\ main' = next
    ELSE cur' = 1 /\ main' = last

\* Thread::start, which waits for the latch only if there is a thread;
\* startLoop goes on in either case.
Create ==
    /\ main = "create"
    /\ \/ /\ pc' = [pc EXCEPT ![cur] = "begin"]
          /\ main' = "latch"
          /\ UNCHANGED failures
       \/ /\ failures < MaxFailures
          /\ failures' = failures + 1
          /\ main' = "loop"
          /\ UNCHANGED pc
    /\ UNCHANGED <<cur, loops_, threadVars, loopVars>>

\* CountDownLatch::wait, one round of its loop.
LatchWait ==
    /\ main = "latch"
    /\ main' = IF count_[cur] > 0 THEN "latchAsleep" ELSE "loop"
    /\ UNCHANGED <<cur, loops_, failures, threadVars, loopVars, pc>>

MutantWaitOnce ==
    /\ main = "loop"
    /\ main' = "return"
    /\ UNCHANGED <<cur, loops_, failures, threadVars, loopVars, pc>>

\* startLoop: one round of the wait for loop_.
LoopWait ==
    /\ main = "loop"
    /\ main' = IF loop_[cur] = NULL THEN "loopAsleep" ELSE "return"
    /\ UNCHANGED <<cur, loops_, failures, threadVars, loopVars, pc>>

\* A wait on a condition may end without a notification.
Spurious ==
    /\ \/ main = "latchAsleep" /\ main' = "latch"
       \/ main = "loopAsleep" /\ main' = "loop"
    /\ UNCHANGED <<cur, loops_, failures, threadVars, loopVars, pc>>

\* startLoop reads loop_ once more, without the mutex, and the pool keeps it.
Return ==
    /\ main = "return"
    /\ loops_' = Append(loops_, loop_[cur])
    /\ Advance("create", "serving")
    /\ UNCHANGED <<failures, threadVars, loopVars, pc>>

-----------------------------------------------------------------------------
(* The main thread, in the destructors.                                    *)

\* The loop of the main thread has ended: the pool is destroyed.
Destruct ==
    /\ main = "serving"
    /\ main' = "test"
    /\ UNCHANGED <<cur, loops_, failures, threadVars, loopVars, pc>>

\* ~EventLoopThread looks at loop_ without the mutex.
Test ==
    /\ main = "test"
    /\ IF loop_[cur] = NULL THEN Advance("test", "done")
       ELSE main' = "flag" /\ UNCHANGED cur
    /\ UNCHANGED <<loops_, failures, threadVars, loopVars, pc>>

\* EventLoop::quit: the flag,
Flag ==
    /\ main = "flag"
    /\ quit_' = [quit_ EXCEPT ![cur] = TRUE]
    /\ main' = "wakeup"
    /\ UNCHANGED <<cur, loops_, failures, threadVars, loop_, woken, pc>>

MutantNoWakeup ==
    /\ main = "wakeup"
    /\ main' = "join"
    /\ UNCHANGED <<cur, loops_, failures, threadVars, loopVars, pc>>

\* and the write to the eventfd, which goes nowhere if the loop has gone.
Wakeup ==
    /\ main = "wakeup"
    /\ woken' = [woken EXCEPT ![cur] = Alive(cur)]
    /\ main' = "join"
    /\ UNCHANGED <<cur, loops_, failures, threadVars, loop_, quit_, pc>>

Join ==
    /\ main = "join"
    /\ pc[cur] = "ended"
    /\ Advance("test", "done")
    /\ UNCHANGED <<loops_, failures, threadVars, loopVars, pc>>

MainStep ==
    \/ Create \/ LatchWait \/ LoopWait \/ Return
    \/ Test \/ Flag \/ Wakeup \/ Join

-----------------------------------------------------------------------------
(* The threads.                                                            *)

Goto(w, from, to) == pc[w] = from /\ pc' = [pc EXCEPT ![w] = to]

\* runInThread: the tid is stored,
Begin(w) ==
    /\ Goto(w, "begin", "count")
    /\ tid_' = [tid_ EXCEPT ![w] = TRUE]
    /\ UNCHANGED <<mainVars, count_, loopVars>>

MutantCountWithoutNotify(w) ==
    /\ Goto(w, "count", "construct")
    /\ count_' = [count_ EXCEPT ![w] = 0]
    /\ UNCHANGED <<mainVars, tid_, loopVars>>

\* and whoever waits for the latch is told.
CountDown(w) ==
    /\ Goto(w, "count", "construct")
    /\ count_' = [count_ EXCEPT ![w] = 0]
    /\ main' = IF main = "latchAsleep" /\ cur = w THEN "latch" ELSE main
    /\ UNCHANGED <<cur, loops_, failures, tid_, loopVars>>

\* EventLoop::EventLoop.
Construct(w) ==
    /\ Goto(w, "construct", "publish")
    /\ quit_' = [quit_ EXCEPT ![w] = FALSE]
    /\ UNCHANGED <<mainVars, threadVars, loop_, woken>>

\* threadFunc tells startLoop of it.
Publish(w) ==
    /\ Goto(w, "publish", "enter")
    /\ loop_' = [loop_ EXCEPT ![w] = w]
    /\ main' = IF main = "loopAsleep" /\ cur = w THEN "loop" ELSE main
    /\ UNCHANGED <<cur, loops_, failures, threadVars, quit_, woken>>

\* loop() begins by setting quit_ to false.
Enter(w) ==
    /\ Goto(w, "enter", "check")
    /\ quit_' = [quit_ EXCEPT ![w] = FALSE]
    /\ UNCHANGED <<mainVars, threadVars, loop_, woken>>

\* while(!quit_)
Check(w) ==
    /\ Goto(w, "check", IF quit_[w] THEN "clear" ELSE "poll")
    /\ UNCHANGED <<mainVars, threadVars, loopVars>>

\* poll() returns because of the eventfd,
PollWoken(w) ==
    /\ woken[w]
    /\ Goto(w, "poll", "check")
    /\ woken' = [woken EXCEPT ![w] = FALSE]
    /\ UNCHANGED <<mainVars, threadVars, loop_, quit_>>

\* or because of another descriptor.
PollOther(w) ==
    /\ Goto(w, "poll", "check")
    /\ UNCHANGED <<mainVars, threadVars, loopVars>>

\* loop_ = NULL, without the mutex,
Clear(w) ==
    /\ Goto(w, "clear", "destroy")
    /\ loop_' = [loop_ EXCEPT ![w] = NULL]
    /\ UNCHANGED <<mainVars, threadVars, quit_, woken>>

\* and the end of the function destroys the loop.
Destroy(w) ==
    /\ Goto(w, "destroy", "ended")
    /\ UNCHANGED <<mainVars, threadVars, loopVars>>

WorkerStep(w) ==
    \/ Begin(w) \/ CountDown(w) \/ Construct(w) \/ Publish(w)
    \/ Enter(w) \/ Check(w) \/ PollWoken(w) \/ Clear(w) \/ Destroy(w)

Next ==
    \/ MainStep \/ Spurious \/ Destruct
    \/ \E w \in Workers : WorkerStep(w) \/ PollOther(w)

SafeSpec == Init /\ [][Next]_vars

\* Every thread is scheduled.  Conditions need not wake up by themselves, no
\* client needs to send anything, and the server need not end.
Spec ==
    /\ SafeSpec
    /\ WF_vars(MainStep)
    /\ \A w \in Workers : WF_vars(WorkerStep(w))

-----------------------------------------------------------------------------
\* The types.
TypeOK ==
    /\ main \in MainPCs /\ cur \in Workers /\ failures \in Nat
    /\ loops_ \in Seq(Workers \cup {NULL})
    /\ tid_ \in [Workers -> BOOLEAN] /\ count_ \in [Workers -> 0 .. 1]
    /\ loop_ \in [Workers -> Workers \cup {NULL}]
    /\ quit_ \in [Workers -> BOOLEAN] /\ woken \in [Workers -> BOOLEAN]
    /\ pc \in [Workers -> PCs]

Starting == {"create", "latch", "latchAsleep", "loop", "loopAsleep", "return"}

\* What getNextLoop hands out: entry i of the pool is the loop of thread i,
\* and as long as the server serves, every loop in the pool is there,
\* although startLoop reads loop_ without the mutex and nothing keeps a loop
\* alive but its own thread.
PoolIsThere ==
    /\ \A i \in 1 .. Len(loops_) : loops_[i] = i
    /\ main \in Starting \cup {"serving"} =>
          \A i \in 1 .. Len(loops_) : Alive(i) /\ loop_[i] = i
    /\ main = "serving" => Len(loops_) = NumThreads

\* The loops that others point to are there: those in the pool, and in
\* ~EventLoopThread, which looks at loop_ and calls quit() through it without
\* the mutex, the loop of cur until quit() has set the flag.
LoopsAreThere ==
    /\ PoolIsThere
    /\ main = "flag" => Alive(cur) /\ loop_[cur] = cur

\* assert(tid_ > 0) of Thread::start and assert(started_) of join: the latch
\* opens after the thread has stored its tid, and only threads that were made
\* are joined.
ThreadAsserts ==
    /\ main = "latch" /\ count_[cur] = 0 => tid_[cur]
    /\ main = "join" => pc[cur] # "none"

\* EventLoopThreadPool::start returns, whichever of the two threads is first
\* at each of the two waits, or it waits for the loop of a thread that could
\* not be made.
StartReturns ==
    main = "create" ~> \/ main = "serving"
                       \/ main \in {"loop", "loopAsleep"} /\ pc[cur] = "none"

\* A loop ends when its EventLoopThread is destroyed, and the join returns,
\* also when no client ever wakes it, unless the flag was set before loop()
\* began: loop() resets it, and the join waits for a loop that goes on.
QuitEndsLoop ==
    \A w \in Workers :
        LET ended == pc[w] = "ended" /\ (main = "done" \/ cur # w)
            forgotten == /\ main = "join" /\ cur = w
                         /\ ~quit_[w] /\ pc[w] \in {"check", "poll"}
        IN  /\ main = "flag" /\ cur = w /\ pc[w] # "enter" ~> ended
            /\ main = "flag" /\ cur = w ~> ended \/ forgotten

\* How far the threads are: those before cur have been started, the others
\* have not, and only the one at cur may still be on its way to its loop.
StageInv ==
    /\ \A w \in Workers : loop_[w] = IF pc[w] \in {"enter", "check", "poll",
                                                  "clear"} THEN w ELSE NULL
    /\ \A w \in Workers : pc[w] \notin {"none", "begin"} <=> tid_[w]
    /\ \A w \in Workers : count_[w] = IF pc[w] \in {"none", "begin", "count"}
                                      THEN 1 ELSE 0
    /\ \A w \in Workers : pc[w] \in {"clear", "destroy", "ended"} =>
          main \notin Starting \cup {"serving"}
    /\ main \in Starting \cup {"serving"} => \A w \in Workers : ~quit_[w]
    /\ main \in Starting => Len(loops_) = cur - 1
    /\ main \notin Starting => Len(loops_) = NumThreads
    /\ main = "create" => \A w \in Workers : w >= cur => pc[w] = "none"
    /\ main \in Starting => \A w \in Workers : w > cur => pc[w] = "none"
    /\ main = "return" => loop_[cur] = cur
    /\ main \in {"flag", "wakeup", "join"} => pc[cur] # "none"

\* The thread is in loop(), or about to enter it, and not asked to end.
Running(w) == pc[w] \in {"enter", "check", "poll"} /\ ~quit_[w]

\* A loop runs on until its own EventLoopThread is destroyed.
RunInv ==
    /\ main = "serving" => cur = 1
    /\ main \in {"serving", "test", "flag"} =>
          \A w \in Workers : w >= cur => Running(w)
    /\ main \in {"wakeup", "join"} => \A w \in Workers : w > cur => Running(w)

\* The invariant of the proofs.
ThreadInv == TypeOK /\ StageInv /\ PoolIsThere /\ RunInv
=============================================================================
