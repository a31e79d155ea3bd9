------------------------------- MODULE Acceptor -------------------------------
(***************************************************************************)
(* The main reactor: Server.cpp accepts connections from a listening       *)
(* socket that epoll watches edge-triggered, and hands each to a loop of   *)
(* the pool (EventLoopThreadPool::getNextLoop), which registers it and     *)
(* later closes it on a thread of its own.                                 *)
(*                                                                         *)
(* The clients are numbered in the order they connect.  What a connection  *)
(* does between its registration and its end is in Connection.tla, how a   *)
(* functor reaches its loop in EventLoop.tla.                              *)
(***************************************************************************)
EXTENDS Integers, Sequences

CONSTANTS
    NumLoops,       \* numThreads_
    FdLimit,        \* descriptors a process may have
    MAXFDS,
    MaxClients,     \* bound: clients
    MaxFailures     \* bound: system calls that fail

ASSUME SizesAssumption ==
    /\ NumLoops \in Nat /\ NumLoops > 0 /\ FdLimit \in Nat /\ MAXFDS \in Nat
    /\ MaxClients \in Nat /\ MaxFailures \in Nat

Loops == 0 .. NumLoops - 1      \* the indices of loops_
Fds == 1 .. FdLimit

VARIABLES
    arrived,                \* clients so far
    backlog,                \* the accept queue of listenFd_
    events_, lastEvents_,   \* of acceptChannel_: EPOLLIN | EPOLLET, or 0
    interest,               \* the kernel's entry for listenFd_
    ready,                  \* listenFd_ is on epoll's ready list
    channel,                \* fd2chan_ has acceptChannel_
    missed,                 \* clients that had come when accept() last failed
    next_,                  \* of the pool
    pc,                     \* where the main loop is
    settled,                \* clients given to a loop or turned away, in order
    failures,
    stage,                  \* of each descriptor
    pending,                \* newEvents queued in each loop
    table                   \* fd2chan_ and fd2http_ of each loop

listenVars == <<backlog, events_, lastEvents_, interest, ready, channel,
                missed>>
mainVars == <<next_, pc, settled, failures>>
loopVars == <<stage, pending, table>>
vars == <<arrived, listenVars, mainVars, loopVars>>

Stages == {"free", "queued", "open", "closing", "leaked", "other"}

\* listen() has been called; the channel is not yet in epoll.  Some of the
\* descriptors belong to the rest of the process.
Init ==
    /\ arrived = 0 /\ backlog = <<>>
    /\ events_ = FALSE /\ lastEvents_ = FALSE
    /\ interest = "none" /\ ready = FALSE /\ channel = FALSE /\ missed = 0
    /\ next_ = 0 /\ pc = "start" /\ settled = <<>> /\ failures = 0
    /\ \E O \in SUBSET Fds :
          stage = [fd \in Fds |-> IF fd \in O THEN "other" ELSE "free"]
    /\ pending = [l \in Loops |-> <<>>] /\ table = [l \in Loops |-> {}]

-----------------------------------------------------------------------------
(* The kernel.                                                             *)

Arrive ==
    /\ arrived < MaxClients
    /\ arrived' = arrived + 1
    /\ backlog' = Append(backlog, arrived + 1)
    /\ ready' = (ready \/ interest = "on")
    /\ UNCHANGED <<events_, lastEvents_, interest, channel, missed, mainVars,
                   loopVars>>

Free == {fd \in Fds : stage[fd] = "free"}

-----------------------------------------------------------------------------
(* The main loop.                                                          *)

\* start() -> epoll_add: ADD reports connections that are already there.  If
\* it fails, the channel is dropped, with lastEvents_ already set.
Start ==
    /\ pc = "start"
    /\ events_' = TRUE /\ lastEvents_' = TRUE
    /\ \/ /\ interest' = "on" /\ ready' = (backlog # <<>>) /\ channel' = TRUE
          /\ UNCHANGED failures
       \/ /\ failures < MaxFailures
          /\ failures' = failures + 1
          /\ UNCHANGED <<interest, ready, channel>>
    /\ pc' = "poll"
    /\ UNCHANGED <<arrived, backlog, missed, next_, settled, loopVars>>

\* epoll_wait takes the socket off the list, and reports it unless there is
\* nothing to accept any more.  getEventsRequest clears events_, and skips a
\* socket without a channel.
Poll ==
    /\ pc = "poll"
    /\ ready
    /\ ready' = FALSE
    /\ IF backlog # <<>> /\ channel THEN events_' = FALSE /\ pc' = "accept"
       ELSE UNCHANGED <<events_, pc>>
    /\ UNCHANGED <<arrived, backlog, lastEvents_, interest, channel, missed,
                   next_, settled, failures, loopVars>>

MutantNext == next_ + 1

\* getNextLoop moves on by one.
Next_ == IF next_ + 1 = NumLoops THEN 0 ELSE next_ + 1

\* What a client that is accepted leaves alone.
kernelVars == <<interest, ready, channel, missed>>
epollVars == <<events_, lastEvents_, kernelVars>>

\* accept() returns the lowest free descriptor.
AcceptFd(fd) ==
    /\ pc = "accept"
    /\ backlog # <<>>
    /\ fd \in Free /\ \A f \in Free : fd <= f
    /\ backlog' = Tail(backlog)
    /\ next_' = Next_

MutantAcceptOne(fd) ==
    /\ AcceptFd(fd)
    /\ fd < MAXFDS
    /\ stage' = [stage EXCEPT ![fd] = "queued"]
    /\ pending' = [pending EXCEPT ![next_] = Append(@, fd)]
    /\ settled' = Append(settled, Head(backlog))
    /\ events_' = TRUE
    /\ pc' = "update"
    /\ UNCHANGED <<arrived, lastEvents_, kernelVars, failures, table>>

\* The connection goes to the loop whose turn it is: queueInLoop(newEvent).
Accept(fd) ==
    /\ AcceptFd(fd)
    /\ fd < MAXFDS
    /\ stage' = [stage EXCEPT ![fd] = "queued"]
    /\ pending' = [pending EXCEPT ![next_] = Append(@, fd)]
    /\ settled' = Append(settled, Head(backlog))
    /\ UNCHANGED <<arrived, epollVars, pc, failures, table>>

\* Too large a descriptor: the connection is closed, its turn is used up.
Refuse(fd) ==
    /\ AcceptFd(fd)
    /\ fd >= MAXFDS
    /\ settled' = Append(settled, Head(backlog))
    /\ UNCHANGED <<arrived, epollVars, pc, failures, loopVars>>

\* setSocketNonBlocking fails: handNewConn returns at once.
NonBlockFails(fd) ==
    /\ AcceptFd(fd)
    /\ fd < MAXFDS
    /\ failures < MaxFailures
    /\ failures' = failures + 1
    /\ stage' = [stage EXCEPT ![fd] = "leaked"]
    /\ pc' = "update"
    /\ UNCHANGED <<arrived, epollVars, settled, pending, table>>

MutantAcceptEnds ==
    /\ pc = "accept"
    /\ \/ backlog = <<>> /\ events_' = TRUE /\ UNCHANGED <<failures, missed>>
       \/ /\ backlog # <<>>
          /\ Free = {} \/ failures < MaxFailures
          /\ failures' = failures + 1 /\ missed' = arrived
          /\ UNCHANGED events_
    /\ pc' = "update"
    /\ UNCHANGED <<arrived, backlog, lastEvents_, interest, ready, channel,
                   next_, settled, loopVars>>

\* accept() fails: there is nobody left, there is no descriptor, or else.
AcceptEnds ==
    /\ pc = "accept"
    /\ \/ backlog = <<>> /\ UNCHANGED <<failures, missed>>
       \/ /\ backlog # <<>>
          /\ Free = {} \/ failures < MaxFailures
          /\ failures' = failures + 1 /\ missed' = arrived
    /\ events_' = TRUE
    /\ pc' = "update"
    /\ UNCHANGED <<arrived, backlog, lastEvents_, interest, ready, channel,
                   next_, settled, loopVars>>

\* handThisConn -> epoll_mod, which asks the kernel only for a change.  If MOD
\* fails, the channel is dropped and the kernel's entry stays as it was.
Update ==
    /\ pc = "update"
    /\ lastEvents_' = events_
    /\ \/ /\ events_ = lastEvents_
          /\ UNCHANGED <<interest, ready, channel, failures>>
       \/ /\ events_ # lastEvents_
          /\ interest' = IF events_ THEN "on" ELSE "off"
          /\ ready' = (events_ /\ backlog # <<>>)
          /\ UNCHANGED <<channel, failures>>
       \/ /\ events_ # lastEvents_
          /\ failures < MaxFailures
          /\ failures' = failures + 1
          /\ channel' = FALSE
          /\ UNCHANGED <<interest, ready>>
    /\ pc' = "poll"
    /\ UNCHANGED <<arrived, backlog, events_, missed, next_, settled, loopVars>>

MainStep ==
    \/ Start \/ Poll \/ AcceptEnds \/ Update
    \/ \E fd \in Fds : Accept(fd) \/ Refuse(fd) \/ NonBlockFails(fd)

-----------------------------------------------------------------------------
(* The loop l of the pool.                                                 *)

NewEvent(l) ==
    /\ pending[l] # <<>>
    /\ pending' = [pending EXCEPT ![l] = Tail(@)]
    /\ table' = [table EXCEPT ![l] = @ \cup {Head(pending[l])}]
    /\ stage' = [stage EXCEPT ![Head(pending[l])] = "open"]
    /\ UNCHANGED <<arrived, listenVars, mainVars>>

MutantFreeFirst(l, fd) ==
    /\ fd \in table[l] /\ stage[fd] = "open"
    /\ stage' = [stage EXCEPT ![fd] = "free"]
    /\ UNCHANGED <<arrived, listenVars, mainVars, pending, table>>

\* handleClose: epoll_del forgets the descriptor,
Remove(l, fd) ==
    /\ fd \in table[l] /\ stage[fd] = "open"
    /\ table' = [table EXCEPT ![l] = @ \ {fd}]
    /\ stage' = [stage EXCEPT ![fd] = "closing"]
    /\ UNCHANGED <<arrived, listenVars, mainVars, pending>>

\* and the last shared_ptr closes it.
CloseFd(fd) ==
    /\ stage[fd] = "closing"
    /\ stage' = [stage EXCEPT ![fd] = "free"]
    /\ UNCHANGED <<arrived, listenVars, mainVars, pending, table>>

Next ==
    \/ Arrive \/ MainStep
    \/ \E l \in Loops : NewEvent(l) \/ \E fd \in Fds : Remove(l, fd)
    \/ \E fd \in Fds : CloseFd(fd)

SafeSpec == Init /\ [][Next]_vars

\* The threads are scheduled, and what a loop has forgotten is closed.  Nobody
\* is obliged to connect, and no connection to end.
Spec ==
    /\ SafeSpec
    /\ WF_vars(MainStep)
    /\ \A l \in Loops : WF_vars(NewEvent(l))
    /\ \A fd \in Fds : WF_vars(CloseFd(fd))

-----------------------------------------------------------------------------
\* The types.
TypeOK ==
    /\ arrived \in Nat /\ backlog \in Seq(Nat) /\ settled \in Seq(Nat)
    /\ events_ \in BOOLEAN /\ lastEvents_ \in BOOLEAN
    /\ interest \in {"none", "off", "on"} /\ ready \in BOOLEAN
    /\ channel \in BOOLEAN /\ missed \in Nat
    /\ next_ \in Loops /\ failures \in Nat
    /\ pc \in {"start", "poll", "accept", "update"}
    /\ stage \in [Fds -> Stages]
    /\ pending \in [Loops -> Seq(Fds)]
    /\ table \in [Loops -> SUBSET Fds]

\* The main thread gives out numbers again that other threads have freed: a
\* descriptor is in the hands of one loop at most, waiting or registered, and
\* no loop still knows one that accept() may return.
OneOwner ==
    /\ \A l \in Loops : \A fd \in table[l] :
          stage[fd] = "open" /\ \A k \in Loops : fd \in table[k] => k = l
    /\ \A l \in Loops : \A i \in 1 .. Len(pending[l]) :
          /\ stage[pending[l][i]] = "queued"
          /\ \A k \in Loops : \A j \in 1 .. Len(pending[k]) :
                pending[k][j] = pending[l][i] => k = l /\ j = i

\* What the main loop can hear of: the kernel watches the listening socket,
\* and a report of it finds the channel.
Heard == interest = "on" /\ channel

\* The edge of the listening socket: while it hears of clients, the main loop
\* does not wait while clients do, neither those that came before the socket
\* was added nor those that came while others were accepted.  A failing
\* accept() may leave clients behind, but only until another one connects.
NobodyOverlooked ==
    pc = "poll" /\ Heard /\ backlog # <<>> => ready \/ arrived = missed

\* Every client is given to a loop, or turned away for the number of its
\* descriptor, once and in order, unless a call fails for it; and if none
\* fails, in the end.
Queue == INSTANCE TaskQueue WITH
    Tasks <- 1 .. MaxClients,
    supply <- arrived + 1 .. MaxClients,
    queue <- backlog,
    done <- settled,
    losses <- failures,
    stopped <- FALSE

ImplementsTaskQueue == Queue!Spec

\* "Calls accept to wait for clients" (README.md:82): whatever accept() itself
\* returned, a server that waits for events hears of clients, unless it never
\* did, because epoll_ctl ADD failed, or a client could not be made
\* non-blocking: then handNewConn returns without setting the channel's events
\* and without closing the descriptor, and the MOD that follows either tells
\* the kernel to report nothing or fails and drops the channel.
Leaked == \E fd \in Fds : stage[fd] = "leaked"

KeepsListening ==
    pc = "poll" /\ ~Heard => failures > 0 /\ (interest = "none" \/ Leaked)

-----------------------------------------------------------------------------
(* The invariant of the proofs.                                            *)

\* The channel's events, the kernel's entry and the ready list agree.
HeardInv ==
    /\ Heard => lastEvents_
    /\ ready => interest = "on"
    /\ pc \in {"accept", "update"} => Heard
    /\ pc = "accept" => ~events_
    /\ pc = "start" => interest = "none" /\ ~channel

\* The edge is there for those who wait.
EdgeInv ==
    /\ NobodyOverlooked
    /\ pc = "update" /\ events_ /\ backlog # <<>> => ready \/ arrived = missed

\* Where the channel's events may be missing.
LeakInv ==
    /\ KeepsListening
    /\ pc = "update" => events_ \/ Leaked
    /\ Leaked => failures > 0

OwnerInv == TypeOK /\ OneOwner /\ HeardInv /\ EdgeInv

AcceptorInv == OwnerInv /\ LeakInv
=============================================================================
