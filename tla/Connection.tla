------------------------------ MODULE Connection ------------------------------
(***************************************************************************)
(* The connections of one sub-reactor: HttpData.cpp, Channel.h, Epoll.cpp  *)
(* and the part of EventLoop::loop() that drives them, with the clients'   *)
(* ends of the sockets and the kernel's epoll as the environment.          *)
(*                                                                         *)
(* A connection is known by its file descriptor; the descriptor is free    *)
(* again once the last shared_ptr to the HttpData is gone, and accept may  *)
(* return it for another client.  The clients move between any two steps   *)
(* of a handler.  What is abstracted: bytes (the buffers are empty or not, *)
(* a response is a few units of MaxOut), the text the parser accepts (see  *)
(* ParseOutcomes), the length of a timeout (see ConnectionTimers) and with *)
(* it keepAlive_, which chooses only that length.  EventLoop.tla has the   *)
(* queue of functors and the wakeup.                                       *)
(***************************************************************************)
EXTENDS Integers, ParseOutcomes

CONSTANTS
    Fds,            \* the descriptors accept may return
    NoFd,
    MaxIn,          \* bound: requests, or parts of one, in inBuffer_
    MaxFailures     \* bound: epoll_ctl calls that fail

ASSUME NoFdAssumption == NoFd \notin Fds
ASSUME BoundsAssumption ==
    MaxIn \in Nat \ {0} /\ MaxOut \in Nat \ {0} /\ MaxFailures \in Nat

VARIABLES
    sock,           \* the socket: unread data, the peer's FIN or RST, and
                    \* room in the send buffer
    kern,           \* epoll's entry: registered, its events, on the ready list
    http,           \* the HttpData
    events_, lastEvents_,           \* of its Channel
    fd2chan_, fd2http_,             \* descriptors whose entry is set
    timer,          \* the TimerNode timer_ points to
    stray,          \* a live TimerNode that timer_ no longer points to
    pendingFunctors_, functors,     \* newEvent: queued, and being run
    woken,          \* the eventfd is readable
    ret, revents_,  \* the channels poll returned, and what they reported
    cur,            \* the connection whose handlers run
    pc,             \* where the loop is
    failures        \* epoll_ctl calls that failed so far

netVars == <<sock, kern>>
tableVars == <<fd2chan_, fd2http_>>
timerVars == <<timer, stray>>
functorVars == <<pendingFunctors_, functors, woken>>
retVars == <<ret, revents_>>
vars == <<netVars, http, events_, lastEvents_, tableVars, timerVars,
          functorVars, retVars, cur, pc, failures>>

Flags == {"IN", "OUT", "ONESHOT"}
DEFAULT_EVENT == {"IN", "ONESHOT"}      \* every use also sets EPOLLET
PCs == {"poll", "dispatch", "read", "reply", "write", "conn", "update",
        "functors", "expire"}

Sockets == [data : BOOLEAN, fin : BOOLEAN, rst : BOOLEAN, room : BOOLEAN]
Entries == [reg : BOOLEAN, onList : BOOLEAN, interest : SUBSET Flags]
HttpDatas == [ConnectionState_ : {"CONNECTED", "DISCONNECTING", "DISCONNECTED"},
              error_ : BOOLEAN,
              state_ : {"URI", "HEADERS", "BODY", "FINISH"},
              inBuffer_ : 0 .. MaxIn,
              outBuffer_ : 0 .. MaxOut]

NewSocket == [data |-> FALSE, fin |-> FALSE, rst |-> FALSE, room |-> TRUE]
NoEntry == [reg |-> FALSE, onList |-> FALSE, interest |-> {}]
NewHttpData == [ConnectionState_ |-> "CONNECTED", error_ |-> FALSE,
                state_ |-> "URI", inBuffer_ |-> 0, outBuffer_ |-> 0]

Init ==
    /\ sock = [c \in Fds |-> NewSocket]
    /\ kern = [c \in Fds |-> NoEntry]
    /\ http = [c \in Fds |-> NewHttpData]
    /\ events_ = [c \in Fds |-> {}] /\ lastEvents_ = [c \in Fds |-> {}]
    /\ fd2chan_ = {} /\ fd2http_ = {}
    /\ timer = [c \in Fds |-> "none"] /\ stray = {}
    /\ pendingFunctors_ = {} /\ functors = {} /\ woken = FALSE
    /\ ret = {} /\ revents_ = [c \in Fds |-> {}]
    /\ cur = NoFd /\ pc = "poll" /\ failures = 0

\* Some shared_ptr keeps the HttpData, and with it the descriptor: the table,
\* a TimerNode that is not deleted, or a bound newEvent.
Alive(c) ==
    \/ c \in fd2http_ \cup pendingFunctors_ \cup functors \cup stray
    \/ timer[c] # "none"

-----------------------------------------------------------------------------
(* The kernel and the clients.                                             *)

\* What the descriptor would report, and which of it epoll looks at: errors
\* always, unless a one-shot entry has fired and is disabled.
Ready(s) ==
    {f \in {"IN", "OUT", "ERR", "HUP"} :
        \/ s.rst
        \/ f = "IN" /\ (s.data \/ s.fin)
        \/ f = "OUT" /\ s.room}

Reported(k, s) ==
    IF k.interest = {} THEN {}
    ELSE Ready(s) \cap (k.interest \cup {"ERR", "HUP"})

\* The entry after something happens to the socket: an edge.
Edge(k, s) ==
    [k EXCEPT !.onList = @ \/ (k.reg /\ Reported(k, s) # {})]

\* The peer does something to its end of the socket s.
Peer(c, s) ==
    /\ Alive(c)
    /\ sock' = [sock EXCEPT ![c] = s]
    /\ kern' = [kern EXCEPT ![c] = Edge(@, s)]
    /\ UNCHANGED <<http, events_, lastEvents_, tableVars, timerVars,
                   functorVars, retVars, cur, pc, failures>>

Send(c) ==
    /\ ~sock[c].data /\ ~sock[c].fin /\ ~sock[c].rst
    /\ Peer(c, [sock[c] EXCEPT !.data = TRUE])

Fin(c) ==
    /\ ~sock[c].fin /\ ~sock[c].rst
    /\ Peer(c, [sock[c] EXCEPT !.fin = TRUE])

Rst(c) ==
    /\ ~sock[c].rst
    /\ Peer(c, [sock[c] EXCEPT !.rst = TRUE])

\* The client reads what was sent to it.
Drain(c) ==
    /\ ~sock[c].room /\ ~sock[c].rst
    /\ Peer(c, [sock[c] EXCEPT !.room = TRUE])

\* Server::handNewConn, on the main thread: a new HttpData for a descriptor
\* that is free, its newEvent queued on this loop.
Accept(c) ==
    /\ ~Alive(c)
    /\ sock' = [sock EXCEPT ![c] = NewSocket]
    /\ kern' = [kern EXCEPT ![c] = NoEntry]
    /\ http' = [http EXCEPT ![c] = NewHttpData]
    /\ events_' = [events_ EXCEPT ![c] = {}]
    /\ lastEvents_' = [lastEvents_ EXCEPT ![c] = {}]
    /\ pendingFunctors_' = pendingFunctors_ \cup {c}
    /\ woken' = TRUE
    /\ UNCHANGED <<tableVars, timerVars, functors, retVars, cur, pc, failures>>

\* Another connection of this loop keeps it awake.
Nudge ==
    /\ ~woken
    /\ woken' = TRUE
    /\ UNCHANGED <<netVars, http, events_, lastEvents_, tableVars, timerVars,
                   pendingFunctors_, functors, retVars, cur, pc, failures>>

\* The clock passes the expiry time of a node.
Tick(c) ==
    /\ timer[c] = "running"
    /\ timer' = [timer EXCEPT ![c] = "overdue"]
    /\ UNCHANGED <<netVars, http, events_, lastEvents_, tableVars, stray,
                   functorVars, retVars, cur, pc, failures>>

\* The clock, which counts modulo 10000 s, starts again: a timer nobody has
\* swept in time is not overdue any more.
ClockStartsAgain ==
    /\ \E c \in Fds : timer[c] = "overdue"
    /\ timer' = [c \in Fds |-> IF timer[c] = "none" THEN "none" ELSE "running"]
    /\ UNCHANGED <<netVars, http, events_, lastEvents_, tableVars, stray,
                   functorVars, retVars, cur, pc, failures>>

-----------------------------------------------------------------------------
(* Epoll and HttpData: the calls the steps below are made of.              *)

\* addTimer: a new node, linked to the HttpData in place of the one before.
AddTimer(c) ==
    /\ timer' = [timer EXCEPT ![c] = "running"]
    /\ stray' = IF timer[c] = "none" THEN stray ELSE stray \cup {c}

\* epoll_ctl refuses: the entry of fd2chan_ is reset, the timer stays.
EpollFails(c) ==
    /\ failures < MaxFailures
    /\ failures' = failures + 1
    /\ fd2chan_' = fd2chan_ \ {c}
    /\ UNCHANGED kern

\* epoll_ctl ADD or MOD: the kernel looks at once whether c is ready.
EpollCtl(c, ev) ==
    /\ kern' = [kern EXCEPT ![c] =
                  Edge([@ EXCEPT !.reg = TRUE, !.interest = ev], sock[c])]
    /\ UNCHANGED failures

MutantAddTimerOnSuccess(c, ev) ==
    /\ fd2http_' = fd2http_ \cup {c}
    /\ lastEvents_' = [lastEvents_ EXCEPT ![c] = ev]
    /\ \/ AddTimer(c) /\ EpollCtl(c, ev) /\ fd2chan_' = fd2chan_ \cup {c}
       \/ EpollFails(c) /\ UNCHANGED timerVars

EpollAdd(c, ev) ==
    /\ AddTimer(c)
    /\ fd2http_' = fd2http_ \cup {c}
    /\ lastEvents_' = [lastEvents_ EXCEPT ![c] = ev]
    /\ \/ EpollCtl(c, ev) /\ fd2chan_' = fd2chan_ \cup {c}
       \/ EpollFails(c)

MutantModTimerOnChange(c, ev) ==
    /\ lastEvents_' = [lastEvents_ EXCEPT ![c] = ev]
    /\ \/ /\ lastEvents_[c] = ev
          /\ UNCHANGED <<kern, fd2chan_, failures, timerVars>>
       \/ /\ lastEvents_[c] # ev
          /\ AddTimer(c)
          /\ (EpollCtl(c, ev) /\ UNCHANGED fd2chan_) \/ EpollFails(c)
    /\ UNCHANGED fd2http_

MutantModForgetsOneShot(c, ev) ==
    /\ AddTimer(c)
    /\ lastEvents_' = [lastEvents_ EXCEPT ![c] = ev]
    /\ IF lastEvents_[c] \ {"ONESHOT"} = ev
       THEN UNCHANGED <<kern, fd2chan_, failures>>
       ELSE (EpollCtl(c, ev) /\ UNCHANGED fd2chan_) \/ EpollFails(c)
    /\ UNCHANGED fd2http_

EpollMod(c, ev) ==
    /\ AddTimer(c)
    /\ lastEvents_' = [lastEvents_ EXCEPT ![c] = ev]
    /\ \/ lastEvents_[c] = ev /\ UNCHANGED <<kern, fd2chan_, failures>>
       \/ lastEvents_[c] # ev /\ EpollCtl(c, ev) /\ UNCHANGED fd2chan_
       \/ lastEvents_[c] # ev /\ EpollFails(c)
    /\ UNCHANGED fd2http_

MutantDelKeepsChannel(c) ==
    /\ kern' = [kern EXCEPT ![c] = NoEntry]
    /\ fd2http_' = fd2http_ \ {c}
    /\ UNCHANGED <<fd2chan_, lastEvents_, failures>>

\* epoll_del: both tables forget the descriptor, whether epoll_ctl knew it
\* or not.
EpollDel(c) ==
    /\ kern' = [kern EXCEPT ![c] = NoEntry]
    /\ fd2chan_' = fd2chan_ \ {c}
    /\ fd2http_' = fd2http_ \ {c}
    /\ UNCHANGED <<lastEvents_, failures>>

HandleClose(c) ==
    /\ http' = [http EXCEPT ![c].ConnectionState_ = "DISCONNECTED"]
    /\ EpollDel(c)

\* readn: whatever the socket holds is appended to inBuffer_.
Reads(d, s) ==
    IF ~s.data THEN {d}
    ELSE {[d EXCEPT !.inBuffer_ = i] :
            i \in {MaxIn} \cup {j \in 0 .. MaxIn : j > d.inBuffer_}}

MutantReadOnce(s) == s

ReadOut(s) == [s EXCEPT !.data = FALSE]

\* What one pass of handleRead's loop may leave of d, which has been read.
Passes(d, s) ==
    LET closing == [d EXCEPT !.ConnectionState_ = "DISCONNECTING"]
    IN  IF d.ConnectionState_ = "DISCONNECTING"
        THEN {[d EXCEPT !.inBuffer_ = 0]}
        ELSE IF s.rst THEN {Failed(d)}
        ELSE IF ~s.fin THEN Parses(d)
        ELSE IF s.data THEN Parses(closing)
        ELSE {closing}

MutantWritesOneMore(d, s) ==
    IF d.outBuffer_ = 0 \/ ~s.room \/ s.rst
    THEN {[http |-> d, room |-> s.room]}
    ELSE {[http |-> [d EXCEPT !.outBuffer_ = n], room |-> n <= 0] :
            n \in -1 .. d.outBuffer_ - 1}

\* handleWrite: writen writes until the buffer is empty or the socket full.
Writes(d, s) ==
    IF d.outBuffer_ = 0 THEN {[http |-> d, room |-> s.room]}
    ELSE IF s.rst THEN {[http |-> Failed(d), room |-> s.room]}
    ELSE IF ~s.room THEN {[http |-> d, room |-> FALSE]}
    ELSE {[http |-> [d EXCEPT !.outBuffer_ = n], room |-> n = 0] :
            n \in 0 .. d.outBuffer_ - 1}

HandleWrite(c, w) ==
    /\ w \in Writes(http[c], sock[c])
    /\ sock' = [sock EXCEPT ![c].room = w.room]

MutantEventsWithoutOut(w, ev) == IF w.http.error_ THEN {} ELSE ev

EventsAfter(w, ev) ==
    (IF w.http.error_ THEN {} ELSE ev)
      \cup (IF w.http.outBuffer_ > 0 THEN {"OUT"} ELSE {})

-----------------------------------------------------------------------------
(* loop(), one step at a time, on the loop's thread.                       *)

\* epoll_wait takes what is on the ready list and still ready; a one-shot
\* entry is disabled by its report.  getEventsRequest drops what has no
\* channel, and Epoll::poll waits again when nothing is left.
Poll ==
    LET listed == {c \in Fds : kern[c].onList}
        ready == {c \in listed : Reported(kern[c], sock[c]) # {}}
        fired == {c \in ready : "ONESHOT" \in kern[c].interest}
        chans == ready \cap fd2chan_
    IN  /\ pc = "poll"
        /\ listed # {} \/ woken
        /\ kern' = [c \in Fds |->
                      [kern[c] EXCEPT
                         !.onList = FALSE,
                         !.interest = IF c \in fired THEN {} ELSE @]]
        /\ revents_' = [c \in Fds |-> IF c \in chans
                                      THEN Reported(kern[c], sock[c]) ELSE {}]
        /\ events_' = [c \in Fds |-> IF c \in chans THEN {} ELSE events_[c]]
        /\ ret' = chans
        /\ woken' = FALSE
        /\ pc' = IF chans # {} \/ woken THEN "dispatch" ELSE "poll"
        /\ UNCHANGED <<sock, http, lastEvents_, tableVars, timerVars,
                       pendingFunctors_, functors, cur, failures>>

\* Channel::handleEvents of one of them: nothing is called on an error.
HandleEvents(c) ==
    LET r == revents_[c]
        broken == "ERR" \in r \/ ("HUP" \in r /\ "IN" \notin r)
    IN  /\ pc = "dispatch"
        /\ c \in ret
        /\ ret' = ret \ {c}
        /\ events_' = [events_ EXCEPT ![c] = {}]
        /\ cur' = IF broken THEN NoFd ELSE c
        /\ pc' = IF broken THEN "dispatch"
                 ELSE IF "IN" \in r THEN "read"
                 ELSE IF "OUT" \in r THEN "write" ELSE "conn"
        /\ UNCHANGED <<netVars, http, lastEvents_, tableVars, timerVars,
                       functorVars, revents_, failures>>

AfterRead == IF "OUT" \in revents_[cur] THEN "write" ELSE "conn"

\* handleRead, as far as the end of its do ... while(false).
HandleRead ==
    /\ pc = "read"
    /\ sock' = [sock EXCEPT ![cur] = ReadOut(@)]
    /\ \E r \in Reads(http[cur], sock[cur]) : \E d \in Passes(r, sock[cur]) :
          /\ http' = [http EXCEPT ![cur] = d]
          /\ pc' = IF d.error_ THEN AfterRead ELSE "reply"
    /\ UNCHANGED <<kern, events_, lastEvents_, tableVars, timerVars,
                   functorVars, retVars, cur, failures>>

\* The rest of handleRead: write what there is; a finished request is reset,
\* with its timer, and what was read behind it is handled at once.
Reply ==
    /\ pc = "reply"
    /\ \E w \in Writes(http[cur], sock[cur]) :
        LET d == w.http
            ev == EventsAfter(w, events_[cur])
            finished == ~d.error_ /\ d.state_ = "FINISH"
        IN  /\ HandleWrite(cur, w)
            /\ http' = [http EXCEPT ![cur] =
                          IF finished THEN [d EXCEPT !.state_ = "URI"] ELSE d]
            /\ timer' = IF finished THEN [timer EXCEPT ![cur] = "none"]
                                    ELSE timer
            /\ events_' = [events_ EXCEPT ![cur] =
                             IF d.error_ \/ finished THEN ev
                                                     ELSE ev \cup {"IN"}]
            /\ pc' = IF /\ finished /\ d.inBuffer_ > 0
                        /\ d.ConnectionState_ # "DISCONNECTING"
                     THEN "read" ELSE AfterRead
    /\ UNCHANGED <<kern, lastEvents_, tableVars, stray, functorVars, retVars,
                   cur, failures>>

\* EPOLLOUT: the channel's writeHandler_.
WriteReady ==
    /\ pc = "write"
    /\ IF http[cur].error_
       THEN UNCHANGED <<sock, http, events_>>
       ELSE \E w \in Writes(http[cur], sock[cur]) :
              /\ HandleWrite(cur, w)
              /\ http' = [http EXCEPT ![cur] = w.http]
              /\ events_' = [events_ EXCEPT ![cur] = EventsAfter(w, @)]
    /\ pc' = "conn"
    /\ UNCHANGED <<kern, lastEvents_, tableVars, timerVars, functorVars,
                   retVars, cur, failures>>

MutantKeepTimer ==
    /\ pc = "conn"
    /\ pc' = "update"
    /\ UNCHANGED <<netVars, http, events_, lastEvents_, tableVars, timerVars,
                   functorVars, retVars, cur, failures>>

\* handleConn: first seperateTimer,
SeperateTimer ==
    /\ pc = "conn"
    /\ timer' = [timer EXCEPT ![cur] = "none"]
    /\ pc' = "update"
    /\ UNCHANGED <<netVars, http, events_, lastEvents_, tableVars, stray,
                   functorVars, retVars, cur, failures>>

\* then what the connection needs next: to be polled with a new timer,
\* nothing (output is left over after the client's FIN), or to be closed.
HandleConn ==
    LET d == http[cur]
        ev == events_[cur]
        wanted == IF ev = {} THEN {"IN"}
                  ELSE IF {"IN", "OUT"} \subseteq ev THEN {"OUT"} ELSE ev
    IN  /\ pc = "update"
        /\ \/ /\ ~d.error_ /\ d.ConnectionState_ = "CONNECTED"
              /\ events_' = [events_ EXCEPT ![cur] = wanted]
              /\ EpollMod(cur, wanted)
              /\ UNCHANGED http
           \/ /\ ~d.error_ /\ d.ConnectionState_ = "DISCONNECTING"
              /\ "OUT" \in ev
              /\ UNCHANGED <<http, events_, kern, lastEvents_, tableVars,
                             timerVars, failures>>
           \/ /\ \/ d.error_
                 \/ d.ConnectionState_ = "DISCONNECTED"
                 \/ d.ConnectionState_ = "DISCONNECTING" /\ "OUT" \notin ev
              /\ HandleClose(cur)
              /\ UNCHANGED <<events_, timerVars>>
        /\ cur' = NoFd
        /\ pc' = "dispatch"
        /\ UNCHANGED <<sock, functorVars, retVars>>

\* doPendingFunctors: the swap,
TakeFunctors ==
    /\ pc = "dispatch"
    /\ ret = {}
    /\ functors' = pendingFunctors_
    /\ pendingFunctors_' = {}
    /\ pc' = "functors"
    /\ UNCHANGED <<netVars, http, events_, lastEvents_, tableVars, timerVars,
                   woken, retVars, cur, failures>>

\* newEvent of one connection,
NewEvent(c) ==
    /\ pc = "functors"
    /\ c \in functors
    /\ functors' = functors \ {c}
    /\ events_' = [events_ EXCEPT ![c] = DEFAULT_EVENT]
    /\ EpollAdd(c, DEFAULT_EVENT)
    /\ UNCHANGED <<sock, http, pendingFunctors_, woken, retVars, cur, pc>>

EndFunctors ==
    /\ pc = "functors"
    /\ functors = {}
    /\ pc' = "expire"
    /\ UNCHANGED <<netVars, http, events_, lastEvents_, tableVars, timerVars,
                   functorVars, retVars, cur, failures>>

\* handleExpired: the destructor of a node that is popped closes its
\* connection;
Expire(c) ==
    /\ pc = "expire"
    /\ timer[c] = "overdue" \/ c \in stray
    /\ timer' = [timer EXCEPT ![c] = IF c \in stray THEN @ ELSE "none"]
    /\ stray' = stray \ {c}
    /\ HandleClose(c)
    /\ UNCHANGED <<sock, events_, functorVars, retVars, cur, pc>>

MutantEndExpire ==
    /\ pc = "expire"
    /\ pc' = "poll"
    /\ UNCHANGED <<netVars, http, events_, lastEvents_, tableVars, timerVars,
                   functorVars, retVars, cur, failures>>

\* it ends at the first node that is neither deleted nor overdue.
EndExpire ==
    /\ pc = "expire"
    /\ \A c \in Fds : timer[c] # "overdue"
    /\ pc' = "poll"
    /\ UNCHANGED <<netVars, http, events_, lastEvents_, tableVars, timerVars,
                   functorVars, retVars, cur, failures>>

LoopStep ==
    \/ Poll
    \/ HandleRead \/ Reply \/ WriteReady \/ SeperateTimer \/ HandleConn
    \/ TakeFunctors \/ EndFunctors \/ EndExpire
    \/ \E c \in Fds : HandleEvents(c) \/ NewEvent(c) \/ Expire(c)

Next ==
    \/ LoopStep
    \/ \E c \in Fds : \/ Accept(c) \/ Tick(c)
                      \/ Send(c) \/ Fin(c) \/ Rst(c) \/ Drain(c)
    \/ Nudge \/ ClockStartsAgain

SafeSpec == Init /\ [][Next]_vars

\* The loop's thread is scheduled, and the clients that are still there read
\* what they are sent.
Spec ==
    SafeSpec /\ WF_vars(LoopStep) /\ \A c \in Fds : WF_vars(Drain(c))

-----------------------------------------------------------------------------
\* The types.  Buffers stay within their bounds, and the loop handles at most
\* one connection, of this reactor.
TypeOK ==
    /\ sock \in [Fds -> Sockets]
    /\ kern \in [Fds -> Entries]
    /\ http \in [Fds -> HttpDatas]
    /\ events_ \in [Fds -> SUBSET Flags]
    /\ lastEvents_ \in [Fds -> SUBSET Flags]
    /\ fd2chan_ \subseteq Fds /\ fd2http_ \subseteq Fds
    /\ timer \in [Fds -> {"none", "running", "overdue"}]
    /\ stray \subseteq Fds
    /\ pendingFunctors_ \subseteq Fds /\ functors \subseteq Fds
    /\ woken \in BOOLEAN
    /\ ret \subseteq Fds
    /\ revents_ \in [Fds -> SUBSET {"IN", "OUT", "ERR", "HUP"}]
    /\ cur \in Fds \cup {NoFd}
    /\ pc \in PCs
    /\ failures \in 0 .. MaxFailures

\* The callbacks of a Channel hold a bare pointer to the HttpData.  Whatever
\* order timers, closes, failures and newly accepted clients come in, a
\* Channel that poll can return, has returned, or is handling has its
\* HttpData; so an event never reaches the next owner of a descriptor.
NoDanglingCallback ==
    \A c \in fd2chan_ \cup ret \cup ({cur} \ {NoFd}) : Alive(c)

\* A connection that waits for its client has a TimerNode to end the wait,
\* also after its epoll_ctl failed or its error event was ignored.  The
\* exception is the branch of handleConn taken when output was left over at
\* the client's FIN: it neither polls nor closes, and the timer is gone.
Supervised ==
    pc = "poll" =>
        \A c \in fd2http_ : \/ timer[c] # "none"
                            \/ http[c].ConnectionState_ = "DISCONNECTING"

\* At most one live TimerNode refers to a connection: the one of an earlier
\* request cannot close the connection under a later one.
OneTimer == stray = {}

\* While the loop waits, epoll waits for something on each open connection,
\* for room when output is left.  lastEvents_, which decides whether
\* epoll_ctl is called, is what the kernel has; in particular no connection
\* is left behind a one-shot entry that has fired.
PolledAsNeeded ==
    pc = "poll" =>
        \A c \in fd2chan_ :
            ~sock[c].rst /\ http[c].ConnectionState_ = "CONNECTED" =>
                /\ kern[c].reg
                /\ lastEvents_[c] = kern[c].interest
                /\ kern[c].interest \cap {"IN", "OUT"} # {}
                /\ http[c].outBuffer_ > 0 => "OUT" \in kern[c].interest

\* Edge-triggered epoll reports once.  While the loop waits, a connection
\* that could go on (there is input, or room for output it is polled for)
\* still has its edge: no handler has stopped short of EAGAIN, and none has
\* asked for the events it was already polled for after missing an edge.
EdgeKept ==
    pc = "poll" =>
        \A c \in fd2chan_ :
            /\ ~sock[c].rst /\ http[c].ConnectionState_ = "CONNECTED"
            /\ Reported(kern[c], sock[c]) # {}
            => kern[c].onList

\* EPOLLOUT means there is data to write (README.md:49): a connection with
\* output left, unless its client has reset it, is polled for EPOLLOUT.
OutputIsPolled ==
    pc = "poll" =>
        \A c \in fd2chan_ :
            ~sock[c].rst /\ http[c].outBuffer_ > 0 =>
                "OUT" \in kern[c].interest

\* handleRead comes back to poll, unless a client adds another request to
\* inBuffer_ before each of its recursive calls, for ever.
ReturnsToPoll == []<>(pc = "poll")

\* What a client sent is read, or the connection is closed or reset, also
\* when it arrives behind the back of a handler, before newEvent, or while a
\* response is being written; unless epoll_ctl has failed.
InputIsRead ==
    ReturnsToPoll =>
        \A c \in Fds : sock[c].data /\ Alive(c) ~>
                         \/ ~sock[c].data \/ sock[c].rst \/ ~Alive(c)
                         \/ failures > 0

\* The output of a connection whose client reads is written to the end,
\* unless epoll_ctl has failed.
OutputIsWritten ==
    ReturnsToPoll =>
        \A c \in Fds :
            http[c].outBuffer_ > 0 /\ http[c].ConnectionState_ = "CONNECTED"
                ~> \/ http[c].outBuffer_ = 0
                   \/ http[c].ConnectionState_ # "CONNECTED" \/ sock[c].rst
                   \/ ~Alive(c) \/ failures > 0

\* Time passes, and other connections keep waking the loop (handleExpired
\* runs only after poll has returned), in time before the clock starts again.
KeptAwake ==
    /\ WF_vars(Nudge)
    /\ \A c \in Fds : WF_vars(Tick(c))
    /\ <>[][~ClockStartsAgain]_vars

\* A reset is ignored by handleEvents, but the connection is closed in the
\* end, and its descriptor freed, as long as the loop is kept awake.
ResetIsCleanedUp ==
    KeptAwake =>
        \A c \in Fds :
            sock[c].rst /\ http[c].ConnectionState_ = "CONNECTED" /\ Alive(c)
                ~> ~Alive(c)

Timers == INSTANCE ConnectionTimers WITH Conns <- Fds, sweeping <- pc = "expire"

\* A connection deals with its timer as TimerManager expects: whatever its
\* handlers do, they never ask for a timer while it has one, they leave
\* timers alone during the sweep, and the sweep takes overdue ones only.
UsesTimers == Timers!Spec
=============================================================================
