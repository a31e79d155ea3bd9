----------------------------- MODULE AsyncLogging -----------------------------
(***************************************************************************)
(* The logger: AsyncLogging.cpp with the thread that writes, its buffers   *)
(* (FixedBuffer in LogStream.h), the file behind it (LogFile.cpp,          *)
(* FileUtil.cpp) and output() of Logging.cpp, through which every LOG      *)
(* statement of every thread passes.                                       *)
(*                                                                         *)
(* The lines are numbered in the order append() takes mutex_, and a line   *)
(* has length 1.  A step is a critical section, a line that reaches the    *)
(* file, or a flush.  waitForSeconds may return at any time, so notify()   *)
(* changes nothing here.                                                   *)
(***************************************************************************)
EXTENDS Integers, Sequences

CONSTANTS
    Buffers,        \* bound: the FixedBuffers that exist at a time
    NoBuffer,
    Size,           \* kLargeBuffer, in lines
    FlushEveryN,    \* LogFile's flushEveryN_
    Burst,          \* bound: lines that arrive between two swaps
    MaxLines,       \* bound: lines
    MaxFailures     \* bound: calls of fwrite, fflush, pthread_create that fail

ASSUME SizeAssumption == Size \in Nat /\ Size > 1
ASSUME LimitsAssumption ==
    /\ FlushEveryN \in Nat \ {0} /\ Burst \in Nat /\ MaxLines \in Nat
    /\ MaxFailures \in Nat
ASSUME BuffersAssumption ==
    /\ NoBuffer \notin Buffers
    /\ \E a, b, c, d \in Buffers :
          a # b /\ a # c /\ a # d /\ b # c /\ b # d /\ c # d

VARIABLES
    once,           \* once_control_: "no", "starting" or "done"
    latch_, running_,
    stopper,        \* the caller of stop(): "no", "joining" or "joined"
    currentBuffer_, nextBuffer_, buffers_,      \* guarded by mutex_
    newBuffer1, newBuffer2, buffersToWrite,     \* of the logging thread
    data,           \* what is in each buffer
    writing,        \* the index of the buffer that is being written
    unwritten,      \* what is left of it
    file, onDisk,   \* lines written, and how many of them stdio has flushed
    count_,         \* LogFile: appends since the last flush
    pc,             \* where threadFunc is
    appended,       \* lines so far
    failures

startVars == <<once, latch_>>
stopVars == <<running_, stopper>>
frontVars == <<currentBuffer_, nextBuffer_, buffers_>>
backVars == <<newBuffer1, newBuffer2, buffersToWrite>>
writeVars == <<writing, unwritten, failures>>
fileVars == <<file, onDisk, count_>>
vars == <<startVars, stopVars, frontVars, backVars, writeVars, fileVars, data,
          pc, appended>>

PCs == {"off", "entry", "check", "wait", "write", "recycle", "flush", "final",
        "returned"}

Init ==
    /\ once = "no" /\ latch_ = 1
    /\ running_ = FALSE /\ stopper = "no"
    /\ data = [b \in Buffers |-> <<>>]
    /\ \E a, b, c, d \in Buffers :
          /\ a # b /\ a # c /\ a # d /\ b # c /\ b # d /\ c # d
          /\ currentBuffer_ = a /\ nextBuffer_ = b
          /\ newBuffer1 = c /\ newBuffer2 = d
    /\ buffers_ = <<>> /\ buffersToWrite = <<>>
    /\ writing = 0 /\ unwritten = <<>> /\ failures = 0
    /\ file = <<>> /\ onDisk = 0 /\ count_ = 0
    /\ pc = "off"
    /\ appended = 0

-----------------------------------------------------------------------------
(* The calls of the threads that log, or that stop the logger.             *)

MutantOnceBeforeStart ==
    /\ once = "no"
    /\ once' = "starting"
    /\ pc' = "entry"
    /\ UNCHANGED <<latch_, stopVars, frontVars, backVars, writeVars, fileVars,
                   data, appended>>

\* The first LOG of the program constructs the logger and starts its thread,
\* but Thread::start only says so if there can be no thread.
OnceInit ==
    /\ once = "no"
    /\ once' = "starting"
    /\ running_' = TRUE
    /\ \/ pc' = "entry" /\ UNCHANGED failures
       \/ failures < MaxFailures /\ failures' = failures + 1 /\ UNCHANGED pc
    /\ UNCHANGED <<latch_, stopper, frontVars, backVars, writing, unwritten,
                   fileVars, data, appended>>

\* start() waits for the thread, also for one that was not made, and
\* pthread_once lets everybody else wait.
Started ==
    /\ once = "starting"
    /\ latch_ = 0
    /\ once' = "done"
    /\ UNCHANGED <<latch_, stopVars, frontVars, backVars, writeVars, fileVars,
                   data, pc, appended>>

\* avail() is the whole size of a buffer, not what is left of it.
Avail == Size

MutantPrepend(l) ==
    /\ data' = [data EXCEPT ![currentBuffer_] = <<l>> \o @]
    /\ UNCHANGED frontVars

\* append: into the current buffer when avail() says it fits, else into a
\* second buffer, or a new one, if it fits there.
AppendLine(l) ==
    IF Avail > 1
    THEN /\ data' = [data EXCEPT ![currentBuffer_] = Append(@, l)]
         /\ UNCHANGED frontVars
    ELSE \E b \in Buffers :
         /\ IF nextBuffer_ # NoBuffer THEN b = nextBuffer_
            ELSE /\ b \notin {currentBuffer_, newBuffer1, newBuffer2}
                 /\ \A i \in DOMAIN buffers_ : buffers_[i] # b
                 /\ \A i \in DOMAIN buffersToWrite : buffersToWrite[i] # b
         /\ buffers_' = Append(buffers_, currentBuffer_)
         /\ currentBuffer_' = b /\ nextBuffer_' = NoBuffer
         /\ UNCHANGED data

\* output() of some thread, once the logger is there.  How many lines arrive
\* between two swaps is an assumption about the load.
Output ==
    /\ once = "done"
    /\ appended < MaxLines
    /\ Len(data[currentBuffer_]) < Burst
    /\ appended' = appended + 1
    /\ AppendLine(appended + 1)
    /\ UNCHANGED <<startVars, stopVars, backVars, writeVars, fileVars, pc>>

MutantStopWithoutFlag ==
    /\ once = "done"
    /\ stopper = "no"
    /\ stopper' = "joining"
    /\ UNCHANGED <<running_, startVars, frontVars, backVars, writeVars,
                   fileVars, data, pc, appended>>

\* stop(), without mutex_: the flag,
Stop ==
    /\ once = "done"
    /\ stopper = "no"
    /\ stopper' = "joining"
    /\ running_' = FALSE
    /\ UNCHANGED <<startVars, frontVars, backVars, writeVars, fileVars, data,
                   pc, appended>>

\* and the join.
Join ==
    /\ stopper = "joining"
    /\ pc = "returned"
    /\ stopper' = "joined"
    /\ UNCHANGED <<running_, startVars, frontVars, backVars,
                   writeVars, fileVars, data, pc, appended>>

-----------------------------------------------------------------------------
(* threadFunc.                                                             *)

Entry ==
    /\ pc = "entry"
    /\ latch_' = 0
    /\ pc' = "check"
    /\ UNCHANGED <<once, stopVars, frontVars, backVars, writeVars, fileVars,
                   data, appended>>

\* while(running_)
Check ==
    /\ pc = "check"
    /\ pc' = IF running_ THEN "wait" ELSE "final"
    /\ UNCHANGED <<startVars, stopVars, frontVars, backVars, writeVars,
                   fileVars, data, appended>>

Drop(s) == IF Len(s) > 25 THEN SubSeq(s, 1, 2) ELSE s

MutantWaitsForNotice == buffers_ # <<>>

\* waitForSeconds is timed: it ends whether append() has put a buffer into
\* buffers_, and notified, or not.
WaitEnds == TRUE

\* The buffer that is handed over is still the one append() writes to.
MutantSwapKeepsCurrent ==
    /\ pc = "wait"
    /\ buffersToWrite' = Drop(Append(buffers_, currentBuffer_))
    /\ buffers_' = <<>>
    /\ newBuffer1' = NoBuffer
    /\ writing' = 1
    /\ unwritten' = data[Append(buffers_, currentBuffer_)[1]]
    /\ pc' = "write"
    /\ UNCHANGED <<startVars, stopVars, currentBuffer_, nextBuffer_,
                   newBuffer2, failures, fileVars, data, appended>>

\* After the wait, still in the critical section: what there is to write is
\* taken, and empty buffers are put in its place.
Swap ==
    LET all == Append(buffers_, currentBuffer_)
    IN  /\ pc = "wait" /\ WaitEnds
        /\ buffersToWrite' = Drop(all)
        /\ buffers_' = <<>>
        /\ currentBuffer_' = newBuffer1
        /\ newBuffer1' = NoBuffer
        /\ IF nextBuffer_ = NoBuffer
           THEN nextBuffer_' = newBuffer2 /\ newBuffer2' = NoBuffer
           ELSE UNCHANGED <<nextBuffer_, newBuffer2>>
        /\ writing' = 1
        /\ unwritten' = data[all[1]]
        /\ pc' = "write"
        /\ UNCHANGED <<startVars, stopVars, failures, fileVars, data, appended>>

\* A line reaches stdio's buffer, and perhaps the disk.
WriteLine ==
    /\ pc = "write"
    /\ unwritten # <<>>
    /\ file' = Append(file, Head(unwritten))
    /\ unwritten' = Tail(unwritten)
    /\ onDisk' \in {onDisk, Len(file)}
    /\ UNCHANGED <<startVars, stopVars, frontVars, backVars, writing, failures,
                   count_, data, pc, appended>>

\* fwrite writes nothing more: the rest of the buffer is given up.
WriteFails ==
    /\ pc = "write"
    /\ unwritten # <<>>
    /\ failures < MaxFailures
    /\ failures' = failures + 1
    /\ unwritten' = <<>>
    /\ UNCHANGED <<startVars, stopVars, frontVars, backVars, writing, fileVars,
                   data, pc, appended>>

\* count_ after one more append: every flushEveryN_-th one flushes.
MutantCountGrows == count_ + 1

CountAfter == IF count_ + 1 >= FlushEveryN THEN 0 ELSE count_ + 1

\* fflush; nobody looks at its result.
FlushFile ==
    \/ onDisk' = Len(file) /\ UNCHANGED failures
    \/ /\ failures < MaxFailures
       /\ failures' = failures + 1
       /\ onDisk' \in onDisk .. Len(file)

\* LogFile::append returns, having flushed if its turn has come; the next
\* buffer follows.
NextBuffer ==
    /\ pc = "write"
    /\ unwritten = <<>>
    /\ count_' = CountAfter
    /\ IF CountAfter = 0 THEN FlushFile ELSE UNCHANGED <<onDisk, failures>>
    /\ IF writing < Len(buffersToWrite)
       THEN /\ writing' = writing + 1
            /\ unwritten' = data[buffersToWrite[writing + 1]]
            /\ UNCHANGED pc
       ELSE pc' = "recycle" /\ UNCHANGED <<writing, unwritten>>
    /\ UNCHANGED <<startVars, stopVars, frontVars, backVars, file, data, appended>>

\* What resize(2) leaves, and what is left of that for newBuffer2.
Kept == IF Len(buffersToWrite) > 2 THEN SubSeq(buffersToWrite, 1, 2)
                                   ELSE buffersToWrite
KeptFor2 == IF newBuffer1 # NoBuffer THEN Kept
            ELSE SubSeq(Kept, 1, Len(Kept) - 1)

\* Buffers that have been written are used again, emptied; the others are
\* deleted.
Recycle ==
    /\ pc = "recycle"
    /\ newBuffer1' = IF newBuffer1 # NoBuffer THEN newBuffer1
                     ELSE Kept[Len(Kept)]
    /\ newBuffer2' = IF newBuffer2 # NoBuffer THEN newBuffer2
                     ELSE KeptFor2[Len(KeptFor2)]
    /\ data' = [b \in Buffers |->
                  IF \E i \in 1 .. Len(buffersToWrite) : buffersToWrite[i] = b
                  THEN <<>> ELSE data[b]]
    /\ buffersToWrite' = <<>>
    /\ pc' = "flush"
    /\ UNCHANGED <<startVars, stopVars, frontVars, writeVars, fileVars,
                   appended>>

MutantFlushForgotten ==
    /\ pc \in {"flush", "final"}
    /\ pc' = IF pc = "flush" THEN "check" ELSE "returned"
    /\ UNCHANGED <<startVars, stopVars, frontVars, backVars, writeVars, data,
                   file, onDisk, count_, appended>>

\* output.flush(), at the end of a round and after the loop, where fclose
\* does the same once more.
Flush ==
    /\ pc \in {"flush", "final"}
    /\ FlushFile
    /\ pc' = IF pc = "flush" THEN "check" ELSE "returned"
    /\ UNCHANGED <<startVars, stopVars, frontVars, backVars, writing, unwritten,
                   data, file, count_, appended>>

ThreadStep ==
    \/ Entry \/ Check \/ Swap
    \/ WriteLine \/ WriteFails \/ NextBuffer \/ Recycle \/ Flush

Next ==
    \/ OnceInit \/ Started \/ Output \/ Stop \/ Join
    \/ ThreadStep

SafeSpec == Init /\ [][Next]_vars

\* The logging thread is scheduled and its timed wait ends; a thread that has
\* called start() or stop() goes on.  Nobody is obliged to log or to stop.
Spec == SafeSpec /\ WF_vars(ThreadStep) /\ WF_vars(Started) /\ WF_vars(Join)

-----------------------------------------------------------------------------
\* The types; the current buffer is always there.
TypeOK ==
    /\ once \in {"no", "starting", "done"} /\ latch_ \in 0 .. 1
    /\ running_ \in BOOLEAN /\ stopper \in {"no", "joining", "joined"}
    /\ appended \in Nat /\ failures \in Nat
    /\ currentBuffer_ \in Buffers
    /\ nextBuffer_ \in Buffers \cup {NoBuffer}
    /\ newBuffer1 \in Buffers \cup {NoBuffer}
    /\ newBuffer2 \in Buffers \cup {NoBuffer}
    /\ buffers_ \in Seq(Buffers) /\ buffersToWrite \in Seq(Buffers)
    /\ data \in [Buffers -> Seq(Nat)]
    /\ writing \in Nat /\ unwritten \in Seq(Nat)
    /\ file \in Seq(Nat) /\ onDisk \in Nat
    /\ count_ \in 0 .. FlushEveryN - 1
    /\ pc \in PCs

\* append() writes to its buffer while the thread, without mutex_, reads,
\* resets and keeps others: through all the swaps and reuses no buffer is in
\* two places, and every buffer that waits to be used is empty.
NoSharedBuffer ==
    LET spare == {nextBuffer_, newBuffer1, newBuffer2} \ {NoBuffer}
    IN  /\ currentBuffer_ \notin spare
        /\ nextBuffer_ # NoBuffer => nextBuffer_ \notin {newBuffer1, newBuffer2}
        /\ newBuffer1 # NoBuffer => newBuffer1 # newBuffer2
        /\ \A i \in 1 .. Len(buffersToWrite) :
              buffersToWrite[i] \notin spare \cup {currentBuffer_}
        /\ \A b \in spare : data[b] = <<>>

\* The assertions of threadFunc: it starts in a running logger, every round
\* begins with two empty buffers and nothing to write, and what was written
\* is enough to replace the buffers that were handed out.
AssertsHold ==
    /\ pc = "entry" => running_
    /\ pc = "wait" => /\ newBuffer1 # NoBuffer /\ newBuffer2 # NoBuffer
                      /\ data[newBuffer1] = <<>> /\ data[newBuffer2] = <<>>
                      /\ buffersToWrite = <<>>
    /\ pc = "write" => buffersToWrite # <<>>
    /\ pc = "recycle" => /\ newBuffer1 = NoBuffer => Kept # <<>>
                         /\ newBuffer2 = NoBuffer => KeptFor2 # <<>>

\* The lines in the file are in the order in which they were appended, and
\* none is there twice, whichever buffers they went through and also after a
\* write has failed.
InOrder == \A i, j \in 1 .. Len(file) : i < j => file[i] < file[j]

\* The logger is a queue: each line is written once, in order, and none is
\* left out but by a call that fails; without failures each is written in the
\* end, unless the thread has ended.
Queue == INSTANCE TaskQueue WITH
    Tasks <- 1 .. MaxLines,
    supply <- appended + 1 .. MaxLines,
    queue <- unwritten \o data[currentBuffer_],
    done <- file,
    losses <- failures,
    stopped <- pc = "returned"

ImplementsTaskQueue == Queue!Spec

\* A line appended to a running logger is on the disk some time later, unless
\* a call failed: it does not stay in the buffer of stdio.
ReachesDisk ==
    \A l \in 1 .. MaxLines :
        appended >= l ~> onDisk >= l \/ ~running_ \/ failures > 0

\* stop() returns: the flag is seen although it is set, and notify() called,
\* without mutex_.
StopReturns == stopper = "joining" ~> stopper = "joined"

\* stop() does not wait for the lines in the current buffer; but those the
\* thread had taken before are on the disk when it returns, wherever in its
\* round the flag found it, unless a call failed.
StopFlushes ==
    stopper = "joined" /\ failures = 0 =>
        onDisk = appended - Len(data[currentBuffer_])

\* "If the space left in currentbuffer cannot hold the line" it goes to the
\* second buffer (README.md:114): no buffer holds more than its size.
BufferHolds == \A b \in Buffers : Len(data[b]) <= Size

\* Whether the thread has been made, and has been waited for.
StartInv ==
    /\ once = "no" => pc = "off"
    /\ once = "done" => latch_ = 0
    /\ stopper # "no" => once = "done"
    /\ pc = "entry" => running_ /\ once = "starting"
    /\ pc \in {"off", "entry"} => latch_ = 1

\* buffers_ stays empty, as avail() never tells append() to use another
\* buffer: each round writes one buffer, and four are in use.
RoundInv ==
    /\ buffers_ = <<>>
    /\ nextBuffer_ # NoBuffer /\ newBuffer2 # NoBuffer
    /\ pc \in {"write", "recycle"} =>
          /\ newBuffer1 = NoBuffer
          /\ Len(buffersToWrite) = 1 /\ writing = 1
    /\ pc \notin {"write", "recycle"} =>
          newBuffer1 # NoBuffer /\ buffersToWrite = <<>>
    /\ pc # "write" => unwritten = <<>>

\* The numbers of the lines that wait are consecutive, and end at the last
\* one appended; what is in the file comes before them.
Waiting == data[currentBuffer_]
First == appended - Len(Waiting)
Top == First - Len(unwritten)

LineInv ==
    /\ Top >= 0
    /\ \A i \in 1 .. Len(Waiting) : Waiting[i] = First + i
    /\ \A i \in 1 .. Len(unwritten) : unwritten[i] = Top + i
    /\ \A i \in 1 .. Len(file) : file[i] <= Top

\* The invariant of the proofs.
LogInv ==
    TypeOK /\ StartInv /\ NoSharedBuffer /\ RoundInv /\ LineInv /\ InOrder
=============================================================================
