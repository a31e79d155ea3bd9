# Verification of the reactor web server

TLA+ models, TLC configurations and TLAPS proofs about the server in this
repository: a main reactor that accepts connections, a pool of sub-reactors
(one event loop per thread) that serve them, timers that close idle
connections, and an asynchronous log. Line numbers refer to the source files.

## 1. Inventory

### 1.1 Components, their state and their operations

| component | state | operations |
|---|---|---|
| `EventLoop` | `pendingFunctors_` under `mutex_`, `callingPendingFunctors_`, `quit_`, `looping_`, the eventfd `wakeupFd_` | `loop`, `doPendingFunctors`, `queueInLoop`, `runInLoop`, `quit`, `wakeup`, `handleRead` |
| `Epoll` | the kernel's interest set, `fd2chan_`, `fd2http_`, `timerManager_` | `epoll_add`, `epoll_mod`, `epoll_del`, `poll`, `getEventsRequest`, `add_timer`, `handleExpired` |
| `Channel` | `events_`, `revents_`, `lastEvents_`, `holder_`, callbacks | `handleEvents`, `EqualAndUpdateLastEvents` |
| `HttpData` | socket, `inBuffer_`, `outBuffer_`, `error_`, `ConnectionState_`, the parser's `state_`/`hState_`, `timer_` | `newEvent`, `handleRead`, `handleWrite`, `handleConn`, `handleClose`, `seperateTimer`, `reset`, the parser |
| `TimerNode`, `TimerManager` | a priority queue of nodes with expiry time, mark and `shared_ptr` | `addTimer`, `clearReq`, `isValid`, `handleExpiredEvent` |
| `Server` | listening socket, `acceptChannel_` | constructor, `start`, `handNewConn`, `handThisConn` |
| `EventLoopThread`, `EventLoopThreadPool` | `loop_`, thread, condition; round-robin index | `startLoop`, `threadFunc`, destructor, `getNextLoop` |
| `Thread`, `CountDownLatch`, `Condition`, `MutexLock` | flags, latch counter | `start`, `runInThread`, `join`, `wait`, `CountDown` |
| `AsyncLogging` | two buffers, the list of full ones, `running_` | `append`, `threadFunc`, `start`, `stop` |
| `LogStream`, `Logging`, `LogFile`, `FileUtil` | a line buffer, a counter of appends | formatting, `append`, `flush` |
| `Main` | options | the `getopt` loop |

### 1.2 How they interact

`Server::handNewConn` runs on the main loop's thread, makes an `HttpData` and
hands its `newEvent` to a sub-reactor with `queueInLoop`: this is the only call
across threads while the server runs. On the sub-reactor one iteration of
`loop()` is: `poll`, `handleEvents` of each channel reported
(`handleRead`, `handleWrite`, `handleConn` of its `HttpData`), the functors
queued by then, and the sweep of expired timers. A handler talks back to
`Epoll` through `updatePoller` and `removeFromPoller`; a timer's destructor
closes its connection. Everything shares one object through `shared_ptr`:
an `HttpData` lives while `fd2http_`, a `TimerNode` or a bound functor holds
it, its descriptor is closed with it, and accept may then reuse the number. The
callbacks of a `Channel` hold a bare `this`.

Every thread logs: `output` makes the logger on the first call and appends to a
buffer under a mutex, which the logging thread exchanges for an empty one and
writes to a file. `main` reads its options, names the log file, and makes the
server, whose `start` makes the threads of the pool one after the other, each
with a handshake of two waits, before it listens to the accept channel.

### 1.3 What is hard

* Interleaving: `queueInLoop` and `quit` decide and write the wakeup outside
  the critical section, while the loop swaps, runs and polls.
* Edges: every descriptor is registered `EPOLLET`, new connections also
  `EPOLLONESHOT`. What is not read to the end, not written to the end or not
  registered again is never reported again.
* Cached state: `lastEvents_` decides whether `epoll_ctl` is called at all.
* Lifetime and reuse: bare callbacks, tables, timers and functors that refer to
  a connection when it is closed.
* Partial failure: `epoll_ctl` may fail after the timer was added, and for the
  listening socket after `lastEvents_` was set; `accept`, `fcntl`, `pthread_create`,
  `fwrite` and `fflush` may fail, and little of it is looked at.
* Time: timers on a clock that starts again every 10000 s, nodes deleted lazily.
* Protocol: half-close, reset and pipelined requests in the middle of a handler.
* Reads that end anywhere: the parser keeps `hState_` from one to the next, but
  not the indices that go with it.
* Buffers that change hands: the logging thread reads, empties and gives back
  what it has taken from under the callers of `append`, outside the mutex.
* Objects on another thread's stack: a loop lives in `threadFunc`, is published
  by pointer, and is told to quit while it may be ending.
* Descriptors: numbers freed by one thread are given out by `accept` on another.

### 1.4 What makes each component correct

* `EventLoop`: a functor handed over runs once, in order and eventually; a quit
  ends the loop; the loop does not sleep over work.
* `Epoll`/`Channel`/`HttpData`: a callback has its object; while the loop waits,
  the kernel has what the connection needs next, with its edge; every waiting
  connection has one timer; input is read, output written, a broken connection
  closed.
* `Timer`: no connection is closed before its timeout, none much after it.
* `Server`: every client is handed to one loop; the backlog is never forgotten.
* The parser: requests are answered as they were sent, however they are cut.
* Thread start-up: `startLoop` returns a running loop; destruction ends it.
* `AsyncLogging`: lines are written once, in order; what the thread had taken
  is on the disk when `stop` returns.

PROJECT.json lists the hazards one by one, each at its line.

## 2. Modules

| module | models |
|---|---|
| `TaskQueue` | abstract: what an event loop promises to those who hand it work |
| `EventLoop` | `EventLoop.cpp` and its callers; implements `TaskQueue` |
| `EventLoopProofs` | theorems about `EventLoop` |
| `Connection` | `HttpData.cpp`, `Channel.h`, `Epoll.cpp` and the loop around them, with clients and kernel |
| `ConnectionProofs` | theorems about `Connection` |
| `ConnectionTimers` | abstract: what connections and their timer manager expect of each other |
| `TimerManager` | `Timer.cpp` with its clock; implements `ConnectionTimers` |
| `TimerProofs` | theorems about `TimerManager` |
| `AsyncLogging` | the logger with its thread, `output`, `LogFile` and `AppendFile`; implements `TaskQueue` |
| `AsyncLoggingProofs` | theorems about `AsyncLogging` |
| `LoopThread` | `EventLoopThread.cpp`, the pool's `start`, `Thread` and `CountDownLatch` |
| `LoopThreadProofs` | theorems about `LoopThread` |
| `Acceptor` | `Server.cpp`, `getNextLoop`, and the loops as far as descriptors go; implements `TaskQueue` |
| `AcceptorProofs` | theorems about `Acceptor` |
| `ParseOutcomes` | what one call of `handleRead` may make of an `HttpData`, whatever the text |
| `HttpParser` | the parsing half of `HttpData.cpp`; stays within `ParseOutcomes` |
| `HttpParserProofs` | theorems about `HttpParser` |
| `SequenceLemmas` | facts about `Append`, `Tail` and concatenation that the proofs share |
| `MC...` | symmetry sets and streams of requests for TLC |

The modules meet where the components do. `TaskQueue` is one promise kept three times:
by a loop to those who queue functors, by the logger to those who log, by the acceptor
to clients. Its `Lose` is the price of a failing system call: the tasks at the head of
the queue may be given up, one call at a time. `Acceptor` hands a connection over by
`queueInLoop`, which `EventLoop` shows to be reliable; what the loop then does with it
is `Connection`. Two of its parts are written against a contract and modelled in full
elsewhere. Its timers are those of `ConnectionTimers`: `Connection` is shown to use
them so (`UsesTimers`), and `TimerManager`, with its queue, marks and clock, to be
such a manager (`ImplementsTimers`). Its parser may do anything `ParseOutcomes`
allows, and `HttpParser`, which reads the text, is shown to do nothing else
(`StaysWithinParses`). So what is proved of `Connection` speaks of the manager and the
parser there are, without a module in which all three run together. `Acceptor` does
not assume that connections end: `conn_halfclose` shows one that does not, and
`accept` may run out of descriptors. `LoopThread` is how the loops come to run.

Definitions named `Mutant...` are the same steps with a plausible bug; nothing
uses them but a run that checks that the bug would be found.

### 2.1 EventLoop

A step is one access to shared state. `QueueInLoop` is the critical section
together with the decision on line 85, which reads only what the thread itself
may read consistently (a caller that is not the loop never looks at
`callingPendingFunctors_`); the write to the eventfd is `Wakeup`, a step of its
own, so that the loop may do anything in between. `Quit` is split the same way.
`Enter`, `Check`, `Poll`, `HandleRead`, `HandleIO`, `TakeFunctors`, `RunFunctor`,
`EndFunctors` are `loop()` in order. The eventfd is its counter
(`wakeupCount`) and its place on epoll's ready list (`wakeupReady`). Another
channel (`IOEvent`, `HandleIO`) stands for all connections: in its handler, and
in a functor, the loop's thread may itself call `queueInLoop`, `runInLoop` and
`quit`. `handleConn` of the wakeup channel changes nothing: `handleRead` has set
the events `lastEvents_` already has. `quit_` is modelled as an atomic flag.

`Queue == INSTANCE TaskQueue WITH queue <- functors \o pendingFunctors_, ...` is
the refinement mapping: a functor leaves the abstract queue when it has run.

### 2.2 Connection

The loop is a sequence of steps named after the functions: `Poll`,
`HandleEvents`, then `HandleRead`, `Reply` (the tail of `handleRead`, from line
279), `WriteReady`, `SeperateTimer`, `HandleConn` of one connection, then
`TakeFunctors`, `NewEvent`, `EndFunctors`, `Expire`, `EndExpire`. Between any two
steps clients may send, half-close, reset or receive, time may pass, and new
connections may be accepted on a descriptor that is free.

| in the model | in the code |
|---|---|
| `sock[c]` | data in the socket, the peer's FIN or RST, room in the send buffer |
| `kern[c]` | epoll's entry: registered, interest (empty after a one-shot report), on the ready list |
| `http[c]` | the fields of `HttpData` the control flow looks at; the buffers count units |
| `timer[c]`, `stray` | the node `timer_` points to; a live node it does not point to |
| `Alive(c)` | some `shared_ptr<HttpData>` exists, so the descriptor is open |
| `pendingFunctors_`, `functors` | connections whose `newEvent` is queued, or being run |

What is abstracted:

* Text. `Parses(d)`, of `ParseOutcomes`, is every outcome the process state allows:
  wait for more, fail, or finish and produce a response. A response to `/hello`
  replaces what is left of `outBuffer_` (line 534); others add to it. A POST always
  fails (`analysisRequest` returns an error for it) once its body is there. A parser
  that waits may have consumed input or not. `hState_`, `headers_` and names do not
  appear. This includes outcomes the parser would not produce for a given text; that
  it has none that are missing here is `StaysWithinParses`.
* Amounts. `inBuffer_` is up to `MaxIn` requests or parts of one, `outBuffer_`
  up to `MaxOut` units; a write takes all of it, or some and fills the socket.
* `handleError` writes its page directly to the socket of a connection that is
  about to be closed; that page is not modelled.
* `keepAlive_` chooses only the length of a timeout. Here a running timer may
  become overdue at any time (`Tick`), and overdue ones are so no longer when the clock
  starts again (`ClockStartsAgain`); `TimerManager` says when.
* `handleConn` runs `handleClose` through `runInLoop`, which on the loop's own
  thread is a call. `queueInLoop` is one step (`Accept`), the eventfd a flag
  (`woken`): `EventLoop` has the details.
* After `EPOLLHUP` without input or `EPOLLERR`, `handleEvents` does nothing, as
  in the code.
* `handleRead`, `handleWrite` and line 291 test `ConnectionState_` against
  `H_DISCONNECTED`. A closed connection is in no table, so no handler of it runs,
  and the tests are left out.

### 2.3 TimerManager

`clock` is the time of day modulo `Period`; `expiredTime_` is `clock` plus the
timeout, not reduced. `heap` is the priority queue as a set: `Top` is any node
with the least expiry time. `AddTimer` is called for a connection without a
timer, which is what `SeperateTimer` before every `epoll_mod` ensures
(`OneTimer` in `Connection`). `ClearReq` marks a node and takes its `HttpData`
away; it stays in the queue. The sweep (`StartSweep`, `PopExpired`, `EndSweep`)
reads the clock for each node, and time passes meanwhile. `owner`, `timeout`,
`waited` and `unswept` are history: what a node was made for, how long it has
waited, how long ago the last sweep ended. `Slack` bounds the last, an
assumption about the traffic: `poll` returns only for events, so a loop
without any sweeps nothing, as long as that lasts.

A connection knows nothing of nodes: to it `TimerOf(c)` is `"running"` while the node
is valid, then `"overdue"`, and `"none"` once it was separated or popped. With this
mapping `TimerManager` implements `ConnectionTimers`. One tick may make several nodes
overdue (`Elapse`), and the tick to 0 makes all of them valid again (`StartAgain`); a
sweep has closed every connection that is overdue when it ends. `gettimeofday` is
taken to run evenly: that somebody sets the clock is not modelled.

### 2.4 AsyncLogging

Lines are numbers in the order `append` takes the mutex. `OnceInit` and `Started` are
`pthread_once` with `start()`; `Output` is `append` after that. If `pthread_create`
fails in `OnceInit`, `start()` waits for its latch for ever, and so does everybody who
logs. `Entry`, `Check`, `Swap`, `WriteLine`, `NextBuffer`, `Recycle`, `Flush` are
`threadFunc` in order. `Swap` is the critical section, wait included: the wait is
timed and `waitForSeconds` may return at any moment, so a notification decides nothing
and `notify` is no step. `file` is what `fwrite` has taken; `onDisk` is how much of it
stdio has passed on, which it may do at any write and does at a flush unless that
fails (`FlushFile`). A buffer is a name; `data` is its content. `Burst` bounds the
lines that arrive between two swaps. With `Burst` no greater than `Size` the code's
wrong `avail()` has no effect; with a greater one lines are written behind the end of
a buffer (`log_overflow`), and what that destroys is not modelled. A line is shorter
than a buffer: the smallest `Size` is 2, and the `else` of `append` is kept although
`avail()` never leads there. A round that drops buffers (line 81) needs 25 of them and
is dead for the same reason.

The mapping to `TaskQueue` is `queue <- unwritten \o data[currentBuffer_]`: what is
left of the buffer being written, then the one being filled; a failing write is
`Lose`, as is a failing flush or a failing `pthread_create`, which give up no task.
`StopFlushes` says what `stop()` gives to those who call it: not the lines in the
current buffer, but all that the thread had taken.

### 2.5 LoopThread

The main thread is `main` with the thread `cur` it is at; `pc[w]` is where thread
`w` is between its creation and its end. `Create`, `LatchWait`, `LoopWait`,
`Return` are `start()` of the pool through `startLoop`, `Thread::start` and the
latch; `Test`, `Flag`, `Wakeup`, `Join` are `~EventLoopThread`. Accesses outside a
mutex are steps of their own: `Return` (line 27), `Test` (13), `Clear` (41).
A wait puts the main thread to sleep until the notification (`CountDown`,
`Publish`) or, as POSIX allows, until nothing (`Spurious`). The loop itself is
reduced to the flag, the poll and the eventfd; `quit_` is one atomic flag, as in
`EventLoop`. `Destruct` stands for the end of whoever owns the pool; the shipped
`main()` never gets there, since nobody calls `quit` on its loop, so what is said
about destruction is about the classes. A `wakeup()` after the loop has gone is
in the model, and writes nothing.

`LoopsAreThere` speaks of both uses of another thread's loop: of the pool's pointers
while the server serves, and of `loop_` in the destructor up to the flag, which is as
far as the code can rely on it. `QuitEndsLoop` says when a join returns: always, if the
thread had entered `loop()` when the destructor came to `quit()`; if not, it returns
or waits for a loop that has forgotten the quit and runs on. `StartReturns` likewise
names the one place where a start that does not return waits.

### 2.6 Acceptor

`Arrive` is the kernel's accept queue and its edge; `Poll`, `Accept`, `Refuse`,
`NonBlockFails`, `AcceptEnds`, `Update` are one round of the main loop.
`acceptChannel_` keeps `events_` and `lastEvents_` as booleans, EPOLLIN | EPOLLET or
nothing. They are not the kernel's entry, which is `interest`: `"none"` before a
successful ADD, then `"on"`, or `"off"` after a MOD to no events. `channel` is
`fd2chan_`'s pointer to `acceptChannel_`. `epoll_mod` asks the kernel only when
`events_` and `lastEvents_` differ, and a changed interest set is examined at once; a
call of `epoll_ctl` that fails leaves the entry as it was and drops the channel, after
which a report finds nobody (`Start`, `Update`, `Poll`). `ready` may be left over from
a client that has been accepted in the meantime; `Poll` then finds nothing.
`stage[fd]` is the life of a descriptor: `accept` returns the lowest free one,
`NewEvent` puts it in the tables of its loop, `Remove` is `handleClose` on the loop's
thread, and `CloseFd`, a step later, the end of the last `shared_ptr`. A failing call
of `accept` is EMFILE when no descriptor is free, or anything else within
`MaxFailures`; `missed` is how many clients had come by then. Some descriptors may
belong to the rest of the process. `settled` are the clients given to a loop, or
turned away for a number at or above `MAXFDS`. One whose `setSocketNonBlocking` fails
is neither: its descriptor is `leaked`. `HttpData::newEvent` failing is `Connection`'s
matter.

### 2.7 HttpParser

Text is a sequence of tokens: the request line up to its version is one, a name or a
value one, and the characters the parser tells apart are themselves, so a read may end
in every place that differs for the parser except within a name or a request line. A
value and a line are shorter than the 255 characters beyond which parseHeaders gives
up (with an error `ParseOutcomes` has). Each case of the switch in `parseHeaders` is
an action. `scan` holds its locals: they start anew on each call, while `hState_` does
not, which is the point. Positions start at 1; the code's -1 is 0, and a character cut
out from before the buffer, which is undefined in the code, is the token `"junk"`.

A client is a `stream`: its requests, their text, and where in it each of them ends.
`IsStream` says that the text is that of the requests, in any number, of any length
and with any names, also with one of them twice (the last counts, as in
`headers_[key]`), but with no empty name or value and a body for POST only. That is
one half of the clients (`WellFormed`), of whom the properties about answers and
headers speak. The other half sends `Noise`: any tokens in any order, lines without a
value, bodies without a request, a second method in a line. `TypeOK`, `Settles` and
`StaysWithinParses` hold of both. What `stoi` makes of a value that is no single token
is left open (`Stoi`): it throws, or yields a length that is there, or one that is
not. The model only indexes the text, so nothing in it is recursive; `MCHttpParser`
builds the texts. The variable `delivery` is one of three: one request per read
(`whole`), reads that end with some request (`joined`), and reads that end anywhere
(`any`). `analysisRequest` answers as for a file that exists; what other answers do to
the connection is in `Connection`.

`entry` is history: the process state and the length of the buffer when a call of
`handleRead` begins to parse. `StaysWithinParses` compares it with what the call
leaves, whenever it returns, calls itself again or closes, and asks that
`ParseOutcomes` has this outcome.

## 3. Runs

| run | checks | instance |
|---|---|---|
| `loop` | `TypeOK`, `NoLostWakeup`, `EdgeNotConsumed`, `ImplementsTaskQueue`, `QuitReturns` | 2 callers and the loop, 3 functors, 2 quits |
| `conn_one` | `TypeOK`, `Supervised`, `OneTimer`, `PolledAsNeeded`, `EdgeKept`, `InputIsRead`, `OutputIsWritten`, `ResetIsCleanedUp`, `UsesTimers` | 1 descriptor, 2 units in, 2 out, 2 failures |
| `conn_two` | `NoDanglingCallback` | 2 descriptors, 1 unit in, 1 out, 1 failure |
| `conn_halfclose` | `OutputIsPolled` (violated) | 1 descriptor, 2 in, 2 out |
| `timers_safety` | `OnTime`, `NeverEarly`, `ImplementsTimers` | 2 connections, 3 nodes, period 7, timeouts 1 and 3 |
| `timers_wrap` | `EveryTimerOnTime` (violated) | the same |
| `log` | `TypeOK`, `NoSharedBuffer`, `AssertsHold`, `StopFlushes`, `ImplementsTaskQueue`, `ReachesDisk`, `StopReturns` | 4 buffers of 3 lines, 5 lines, 1 failing call |
| `log_overflow` | `BufferHolds` (violated) | 3 lines between two swaps, buffers of 2 |
| `threads` | `TypeOK`, `LoopsAreThere`, `StartReturns`, `QuitEndsLoop` | 3 threads, 1 failing `pthread_create` |
| `accept` | `TypeOK`, `OneOwner`, `NobodyOverlooked`, `KeepsListening`, `ImplementsTaskQueue` | 5 clients, 3 descriptors, 1 of them too large, any of them taken, 2 loops, 2 failures |
| `parser` | `Understood`, `NothingInvented`, `HeadersAreTrue`, `ThrowsOnBadLengthOnly`, `StaysWithinParses`, `Settles` | streams of 1 or 2 requests, 1 request with a token missing or replaced, every delivery |
| `parser_split` | `Answered` (violated) | one GET with a header, cut anywhere |

What each shows is in the `about` of PROJECT.json and with the properties in the
modules. The inductive invariants (`WakeupInv`, `ClockInv`, `LogInv`, `ThreadInv`,
`AcceptorInv`, the parser's `AnyInv`, `IInv` and `ExactInv`) and some of their consequences
(`InOrder`, `ThreadAsserts`, the types of `TimerManager` and of `HttpParser`) were
model-checked on these instances while they were developed; they are proved, so no
run repeats them.

Why the bounds are enough. Three functors allow one running, one behind it in the
batch and one queued meanwhile; two callers race with each other and the loop, and of
two quits one may be lost to `Enter`. Two units of input are a request and another
behind it; two of output let a write leave something over, with more added meanwhile.
Two failures hit both the registration and a later change of the same connection; with
two descriptors one call fails. A descriptor is used again and again in both passing
`Connection` runs; with two, the handlers of one run between those of the other and
between the steps of its reuse. In `TimerManager` a node waits up to 8 ticks, more
than a period of 7, so the clock starts again under live nodes; three nodes are a
marked one between a short and a long timeout.

In `AsyncLogging` four buffers are those the code makes before any line; five lines of
three to a buffer are several rounds, with a spare buffer used again, emptied, and
used again, and flushes in between by the counter (every third append, as against
`1024` in the code) and at the end of rounds. In `LoopThread` three threads are one
behind, one at and one before `cur`. In `Acceptor` five clients use three descriptors,
so numbers are reused while the other loop still has connections; two failures are a
leaked client and the MOD after it, or a client left in the backlog and another one;
the third is at `MAXFDS`, so it is accepted and refused; with a descriptor taken by
the rest of the process `accept` runs out of them. Two requests in a row are what
`reset()` has to separate; the streams have every method, a request with and without a
body, a header sent twice, a good, a missing and a bad length. The noise is a POST
request from which each token in turn is taken away or replaced by a mark or a second
method, so that each case of the switch meets what it does not expect, and a length of
two tokens.

`Connection` and `TimerManager` cannot deadlock and are checked for it. Deadlock is
not checked where the system does stop: a loop that has returned and whose callers
have no more functors (`loop`), a logger that was stopped, has written the last line
of the bound or never got its thread (`log`, `log_overflow`), a pool that has been
destroyed, or whose start waits for a thread that could not be made (`threads`), a
server that has served all clients of the bound or hears of none (`accept`), and a
connection that is closed or whose client has sent everything (`parser`,
`parser_split`).

### Fairness

* `EventLoop!Spec`: the loop's thread is scheduled while it can go on, and a
  thread inside `wakeup()` gets to its write. No caller is obliged to call.
* `Connection!Spec`: the loop's thread, and clients that have not reset the
  connection receive what is sent. Nothing is assumed of sending, time or
  failures.
* `KeptAwake`, the premise of `ResetIsCleanedUp`: time passes, other connections keep
  making `epoll_wait` return (`Nudge`), and from some time on the clock does not start
  again over an overdue timer. The first is needed because `Epoll::poll` does not
  return on a timeout, so an idle loop never sweeps its timers; the last because a
  timer that was overdue unnoticed when the clock starts again has its time once more,
  and TLC finds the loop that wakes only just after that, every time. What the premise
  leaves out, `timers_wrap` shows.
* `AsyncLogging!Spec`: the logging thread is scheduled and its timed wait ends;
  a thread inside `start()` or `stop()` goes on. Nobody has to log.
* `LoopThread!Spec`: every thread is scheduled. Conditions need not wake by
  themselves, `epoll_wait` need not return for another descriptor, and the pool
  need not be destroyed.
* `Acceptor!Spec`: the loops are scheduled, and a descriptor a loop has forgotten is
  closed. Clients need not come, and connections need not end.
* `HttpParser!Spec`: a handler that was called runs to its end. The client need
  not send the rest.

`InputIsRead` and `OutputIsWritten` have the premise `ReturnsToPoll`: the code
calls `handleRead` from `handleRead` as long as a finished request leaves input
behind, so a client that keeps adding a request before each of those calls keeps
the loop in it. That is the code's behaviour; without the premise neither holds.

## 4. Disagreements found

Four runs end in a counterexample that the code produces too:

* `conn_halfclose`: output left over when the client half-closes
  (`HttpData.cpp:179`). `events_` is given EPOLLOUT but `updatePoller` is not
  called, and the timer has been removed: the response is not finished, and the
  connection is never closed. `Supervised` and `PolledAsNeeded` name this as
  their exception.
* `timers_wrap`: a node made less than its timeout before the clock starts again
  gets an expiry time of a whole period or more, which the clock does not reach
  (`Timer.cpp:16`): in the run one made at clock 6 of a period of 7, with timeout 1, has
  the expiry time 7 and is alive after its timeout and a whole sweep. `OnTime` excepts
  such nodes.
* `log_overflow`: `avail()` reports the size of a buffer instead of the space left
  in it (`base/LogStream.h:26`): the second buffer is never used and a full one is
  written past its end.
* `parser_split`: a read that ends within the headers loses one of them, or has the
  request refused (`HttpData.cpp:398`), since the indices are locals and `hState_`
  is not.

Others are exceptions that passing properties name; the properties say what the
code does guarantee around them, and fail if the exception grows:

* The listening socket is lost in two ways (`KeepsListening`). A failing `fcntl` makes
  `handNewConn` return before line 63 (`Server.cpp:55`): the MOD that follows tells
  the kernel to report nothing, or fails and drops the channel. A failing ADD
  (`Epoll.cpp:41`) is printed, and the server serves nobody. A failing MOD loses
  nothing else, since otherwise `handNewConn` has restored the events, and no MOD is made.
* Clients left in the backlog by a failing `accept` wait for another client to
  raise an edge, and no longer (`Server.cpp:43`): `NobodyOverlooked`, and the
  `losses` of `TaskQueue`.
* The logging thread does not look at the buffers again after `running_` is
  false (`base/AsyncLogging.cpp:59`), so the current buffer is lost: `StopFlushes`.
* `startLoop` waits for ever for the loop of a thread that could not be made
  (`base/Thread.cpp:94`): `StartReturns`. So does `AsyncLogging::start()` for its latch.
* `loop()` resets `quit_` on entry (`EventLoop.cpp:93`), so an early quit is lost:
  `QuitReturns`, and `QuitEndsLoop` for the destructor's join.
* `quit()` may write to the eventfd of a loop that ended between its two steps
  (`EventLoopThread.cpp:14`): `LoopsAreThere` ends at the flag.
* A second request in the same read loses its first character
  (`HttpData.cpp:494`), and one without headers is never complete (`:406`):
  `Understood`.

Reading alone shows that a timer node is never reused as README.md:43 says
(`Timer.cpp:55`), and that no option of the command line has an effect because of
a misplaced parenthesis (`Main.cpp:20`).

## 5. Proofs

All theorems hold for every value of the constants under the named assumptions
of the modules (`LoopAssumption`, `QuitsAssumption`; `NoFdAssumption`,
`BoundsAssumption`; `NoneAssumption`, `ClockAssumption`; `SizeAssumption`,
`LimitsAssumption`, `BuffersAssumption`; `NumThreadsAssumption`,
`FailuresAssumption`; `SizesAssumption`; `WordsAssumption`, `StreamsAssumption`,
`NoiseAssumption`, `DeliveriesAssumption`).

**EventLoopProofs.** `NoLostWakeup` is not inductive: it speaks of the poll only.
`WakeupInv` adds what holds on the way there. Away from the dispatch, where the
eventfd is read, a queued functor stays announced; a counter that is not zero
has its edge or its channel is being dispatched; the batch is empty except while
it runs, and `callingPendingFunctors_` says just that. From it follow
`NoWakeupIsLost`, `EdgeOutlivesCounter`, `TypeCorrect` and, with the mapping of
2.1, `LoopRefinesTaskQueue`: each step is a step of `TaskQueue` or a stutter.
The liveness of `TaskQueue` is checked by TLC only.

**ConnectionProofs.** `Inv` has three parts. `TableInv`: `ret` and `fd2chan_` are
within `fd2http_`, and `cur` is in it while handlers run. `FunctorInv`: a queued
`newEvent` is of a connection in no table and without a timer. `TimerInv`: no
node is stray, and only the connection being handled, or one that has
half-closed, may lack its timer. `NoDanglingCallback`, `Supervised` and `OneTimer`
each need all three: a new timer is not a second one because of the step before
it, and a new connection has none because its descriptor was free. `TypeCorrect`
adds the ranges of the data, through lemmas about the parser's and the writer's
outcomes. `TimersAreUsedRightly` is the refinement of `ConnectionTimers`: `TimerInv`
says that a timer is asked for only where there is none, and the sweep is the one part
of a round in which no handler runs.

Its second part is about the kernel. `PollInv` follows epoll's entry of each
connection that is open through a report, its handlers and their end. A connection
nobody handles is `Armed`: the kernel has `lastEvents_`, with `EPOLLOUT` if there is
output, and an edge is on the list. One that is reported may be without both, so
`Handled` says at each place what the handlers have done since: `handleRead` has read
to `EAGAIN`, `handleWrite` has filled the socket if output is left, and `events_`
tells which. When `epoll_mod` then finds `lastEvents_` unchanged and is skipped,
nothing that could raise an edge has been missed. A step of the client raises an edge
itself. `ConnectionsArePolled` and `EdgesAreKept` are `Armed` where the loop waits.

**TimerProofs.** `ClockInv` relates the clock to what a node has waited:
`clock <= waited + expiredTime_ - timeout`, with equality for a node due in the
current period. Starting again only takes the clock back, so the inequality
survives it; that is `NoTimerIsEarly`. The equality, and that the last sweep
ended at a valid node, give `TimersAreOnTime`. `TypeCorrect` is its first part.
`ManagerKeepsItsPromise` is `ImplementsTimers`. It needs `LinkInv`: a connection's node
is in the queue, unmarked, and holds that connection. So two connections never have
the same node, a node that is popped ends the timer of one connection at most, and
only if it was overdue, and a head that is valid, having the least expiry time, leaves
no connection overdue behind it. Each tick is an `Elapse` of the nodes
whose time it is, or a `StartAgain`.

**AsyncLoggingProofs.** `LogInv` has the types, where the thread is (`StartInv`),
the ownership of buffers (`NoSharedBuffer`), that a round has one buffer
(`RoundInv`) and how the numbers of lines run (`LineInv`): the lines waiting end
at `appended`, those being written end where the waiting begin, and the file ends
at or before both, before only if a call failed. `LinesInOrder` follows from the
last, `AssertionsHold` from the rest. With the mapping of 2.4 each step is one of
`TaskQueue`, a failing write being `Lose`: what is left of `unwritten` is a prefix of
the queue (`LogRefinesTaskQueue`, for any number of failures, those of `fflush` and
`pthread_create` among them). `FlushInv` adds that
without failures the file has every line before the waiting ones, and that between
rounds it is flushed; it gives `StopKeepsTaken`, which is `StopFlushes`.

**LoopThreadProofs.** `ThreadInv` ties `loop_`, the latch and the tid to `pc`, and
says which threads have been started (`StageInv`). `PoolIsThere` is what the pool's
pointers are good for: no thread leaves its loop while the server serves, because only
a destructor sets `quit_`. `RunInv` carries it into the destructors: those from
`cur` on still run, unquit, until the destructor of each has set its flag. The two
give `PoolHasItsLoops`, that is `LoopsAreThere`.

**AcceptorProofs.** `AcceptorInv` is the types, `OneOwner`, `HeardInv`, `EdgeInv` and
`LeakInv`. That a descriptor is in no table when it is free needs `Remove` before
`CloseFd`; that it is queued once needs it to have been free. `HeardInv` relates the
channel's two fields to the kernel's entry: an entry that reports, with a channel,
has `lastEvents_` set, so a round that restores `events_` asks for nothing that could
fail. `EdgeInv` is `NobodyOverlooked` with what holds before `Update`, where an edge
raised while the round ran is still on the list. `LeakInv` is `KeepsListening` with the
fact that a round ends without its events only where a descriptor has leaked. They
give `NoClientIsOverlooked` and `ServerKeepsListening`. The refinement maps `Accept` and
`Refuse` to the execution of a task and a failing call to `Lose`; it holds for any number
of failures.

**HttpParserProofs.** There are two invariants, one for any client and one for those
that send whole requests. `AnyInv` knows nothing of the text but that it is made of
tokens. Its parts are that the buffer has come off the stream (`Held`), what state the
connection is in (`ControlInv`), that the locals of parseHeaders stay within the
buffer (`ScanInv`), and `CallInv`, which relates each place of a call to its
`entry`: the state it was called in, that the buffer has not grown since, and that it is
shorter once a header line has ended, which is what makes an answered request leave
it. It gives `TypeCorrect` and `ParserFitsConnection`, which is `StaysWithinParses`, for
requests and noise alike.

The other properties have the premise `WellFormed`, and none of them is inductive,
since they say nothing of the text that has not been looked at. `IInv` says where in
the stream the parser can be. `Base` is the number of tokens that have left the
buffer, `From` the end of the last answered request; in the current one `NameAt(h)`
and `LfAt(h)` are the places of header `h`. `Placed` gives, for each `hState_`, the
few places at which parseHeaders can look, and what its locals then mean: a key is
that of a header, or has no beginning because an earlier pass saw it. The places are
more than those of an undisturbed pass, since after `PARSE_HEADER_AGAIN` the indices
start anew at the beginning of a line while `hState_` stays: in `KEY` the parser may
be back at a line it has been over, and in `END_CR` at its LF. A request line that is
cut, or one behind another request (which has lost its first character), leaves the
parser at a `Dead` place: whatever it reads there ends in an error before a colon. The
layout of a request (`Layout`, and `FirstLine`, `HeaderLine`, `LastLine` from it) then
decides what each step can find; there is one lemma per case of the switch. From
`IInv` follow `NothingIsInvented` (the headers end only where a request's do),
`StoredHeadersAreTrue` and `ThrowsOnlyOnBadLength` (`KeysInv`: what is stored is a
header of the request, or under a key no header has). `ExactInv` is the stronger
invariant of clients whose requests are read one at a time: at each place of the
switch it has the one token parseHeaders can be at (`Track`) and how many headers are
stored (`Stored`), so that `headers_` is what was sent when `Analysis` answers. That
is `WholeRequestsAreUnderstood`.

**SequenceLemmas** has the lemmas on sequences these proofs share.

Only model-checked:

* What is temporal under fairness (`QuitReturns`, `InputIsRead`, `OutputIsWritten`,
  `ResetIsCleanedUp`, `ReachesDisk`, `StopReturns`, `StartReturns`, `QuitEndsLoop`,
  `Settles`, and the fairness of `TaskQueue`), which the prover does not reach.

Every safety property that a passing run checks is also a theorem, for every value of
the constants.

## 6. Plan

1. `EventLoop`, with its eventfd and its functors, in place of the flag `woken` and
   the one-step `Accept` of `Connection`, as `ConnectionTimers` is for the timers.
2. A bound for the nodes `OnTime` excepts although the clock does reach their expiry
   time: those due less than a sweep's gap before the clock starts again. If no
   sweep falls into that gap they have their time once more, each period. They are
   another case than `timers_wrap`, whose nodes no sweep can find.

## 7. Not modelled

* `Main` (`Main.cpp`): one thread, one constructor after another.
* What runs once before there are threads: `socket_bind_listen`,
  `handle_for_sigpipe`, and the destructors of a server that does not end.
* `LogStream`'s formatting, the names and cached thread ids of `CurrentThread`,
  MIME types, the content of responses and of error pages, `printf`: no property
  speaks of them.
* `TimerNode::update` and `EventLoop::shutdown`: nobody calls them. The overloads of
  `readn` and `writen` on raw buffers are called for the eight bytes of the eventfd
  (`EventLoop.cpp:53,62`), which are `Wakeup` and `HandleRead` of `EventLoop`, and for
  the page of `handleError` (`HttpData.cpp:609,611`).
* That the log file cannot be opened: the constructor of `AppendFile` hands the null
  pointer to `setbuffer` (`base/FileUtil.cpp:10,11`), and there is no program any more
  whose steps could be modelled.
* That reads and writes of `quit_`, `running_` and `loop_` without a mutex are data
  races: each is modelled as one atomic access.
* The tests: a client that sends two fixed requests, and a logging smoke test.
