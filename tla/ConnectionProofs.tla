--------------------------- MODULE ConnectionProofs ---------------------------
(***************************************************************************)
(* Theorems about Connection for any set of descriptors and any bounds.    *)
(* The invariant follows one connection through the tables, the timers and *)
(* the loop: what poll may return is in fd2chan_, what is in fd2chan_ is   *)
(* in fd2http_, and only the connection being handled may lack a timer.    *)
(***************************************************************************)
EXTENDS Connection, TLAPS

Handling == {"read", "reply", "write", "conn", "update"}

\* The tables and the loop's place: who may refer to a connection when.
TableInv ==
    /\ fd2chan_ \subseteq fd2http_ /\ fd2http_ \subseteq Fds
    /\ ret \subseteq fd2http_
    /\ pc \in {"poll", "functors", "expire"} => ret = {}
    /\ pc \in Handling => cur \in fd2http_ /\ cur \notin ret
    /\ pc \notin Handling => cur = NoFd
    /\ pc \in PCs

\* A newEvent that is still to run is for a connection nobody else knows.
FunctorInv ==
    /\ pendingFunctors_ \subseteq Fds /\ functors \subseteq Fds
    /\ pendingFunctors_ \cap functors = {}
    /\ pc # "functors" => functors = {}
    /\ \A c \in pendingFunctors_ \cup functors :
          c \notin fd2http_ /\ timer[c] = "none"

\* Nothing is lost or doubled: every connection in the table has its timer,
\* unless its handlers are running or its client has half-closed.
TimerInv ==
    /\ timer \in [Fds -> {"none", "running", "overdue"}]
    /\ DOMAIN http = Fds
    /\ stray = {}
    /\ pc = "update" => timer[cur] = "none"
    /\ \A c \in fd2http_ :
          \/ timer[c] # "none"
          \/ c = cur
          \/ http[c].ConnectionState_ = "DISCONNECTING"

Inv == TableInv /\ FunctorInv /\ TimerInv

USE NoFdAssumption
    DEF netVars, tableVars, timerVars, functorVars, retVars, PCs, Handling

LEMMA InitInv == Init => Inv
  <1> SUFFICES ASSUME Init PROVE Inv
    OBVIOUS
  <1>1. TableInv
    BY DEF Init, TableInv
  <1>2. FunctorInv
    BY DEF Init, FunctorInv
  <1>3. TimerInv
    BY DEF Init, TimerInv
  <1> QED
    BY <1>1, <1>2, <1>3 DEF Inv

LEMMA PeerPreserves ==
  ASSUME Inv, NEW c \in Fds,
         Send(c) \/ Fin(c) \/ Rst(c) \/ Drain(c)
  PROVE  Inv'
  <1>1. UNCHANGED <<http, tableVars, timerVars, functorVars, retVars, cur, pc>>
    BY DEF Send, Fin, Rst, Drain, Peer
  <1> QED
    BY <1>1 DEF Inv, TableInv, FunctorInv, TimerInv

LEMMA AcceptPreserves ==
  ASSUME Inv, NEW c \in Fds, Accept(c)
  PROVE  Inv'
  <1> USE DEF Inv, TableInv, FunctorInv, TimerInv
  <1>1. c \notin fd2http_ \cup pendingFunctors_ \cup functors
        /\ timer[c] = "none"
    BY DEF Accept, Alive
  <1>2. TableInv'
    BY DEF Accept
  <1>3. FunctorInv'
    BY <1>1 DEF Accept
  <1>4. TimerInv'
    BY <1>1 DEF Accept
  <1> QED
    BY <1>2, <1>3, <1>4

LEMMA TickPreserves ==
  ASSUME Inv, NEW c \in Fds, Tick(c)
  PROVE  Inv'
  BY DEF Tick, Inv, TableInv, FunctorInv, TimerInv

LEMMA ClockPreserves ==
  ASSUME Inv, ClockStartsAgain
  PROVE  Inv'
  BY DEF ClockStartsAgain, Inv, TableInv, FunctorInv, TimerInv

(* The steps of one handler touch the connection it handles and nothing of *)
(* the tables, until HandleConn decides.                                   *)
LEMMA HandlerPreserves ==
  ASSUME Inv, HandleRead \/ Reply \/ WriteReady \/ SeperateTimer
  PROVE  Inv'
  <1> USE DEF Inv, TableInv, FunctorInv, TimerInv
  <1>1. cur \in fd2http_ /\ cur \notin ret /\ cur \in Fds /\ pc \in Handling
    BY DEF HandleRead, Reply, WriteReady, SeperateTimer
  <1>2. UNCHANGED <<tableVars, stray, functorVars, retVars, cur>>
    BY DEF HandleRead, Reply, WriteReady, SeperateTimer
  <1>3. pc' \in Handling
    BY DEF HandleRead, Reply, WriteReady, SeperateTimer, AfterRead
  <1>4. /\ timer' \in [Fds -> {"none", "running", "overdue"}]
        /\ \A c \in Fds \ {cur} : timer'[c] = timer[c]
        /\ timer'[cur] \in {timer[cur], "none"}
    BY <1>1 DEF HandleRead, Reply, WriteReady, SeperateTimer
  <1>5. /\ DOMAIN http' = Fds
        /\ \A c \in Fds \ {cur} : http'[c] = http[c]
    BY <1>1 DEF HandleRead, Reply, WriteReady, SeperateTimer
  <1>6. pc' = "update" => timer'[cur] = "none"
    BY <1>1 DEF HandleRead, Reply, WriteReady, SeperateTimer, AfterRead
  <1>7. TableInv'
    BY <1>1, <1>2, <1>3
  <1>8. FunctorInv'
    BY <1>1, <1>2, <1>3, <1>4
  <1>9. TimerInv'
    BY <1>1, <1>2, <1>4, <1>5, <1>6
  <1> QED
    BY <1>7, <1>8, <1>9

LEMMA HandleConnPreserves ==
  ASSUME Inv, HandleConn
  PROVE  Inv'
  <1> USE DEF Inv, TableInv, FunctorInv, TimerInv
  <1>1. /\ pc = "update" /\ pc' = "dispatch" /\ cur' = NoFd
        /\ cur \in fd2http_ /\ cur \in Fds /\ cur \notin ret
        /\ timer[cur] = "none"
        /\ UNCHANGED <<functorVars, retVars>>
    BY DEF HandleConn
  <1>2. CASE /\ \E ev : EpollMod(cur, ev)
             /\ UNCHANGED http
    <2>1. /\ timer' = [timer EXCEPT ![cur] = "running"]
          /\ stray' = {}
          /\ fd2chan_' \subseteq fd2chan_
          /\ fd2http_' = fd2http_
      BY <1>1, <1>2 DEF EpollMod, EpollCtl, EpollFails, AddTimer
    <2> QED
      BY <1>1, <1>2, <2>1
  <1>3. CASE /\ http[cur].ConnectionState_ = "DISCONNECTING"
             /\ UNCHANGED <<http, tableVars, timerVars>>
    BY <1>1, <1>3
  <1>4. CASE HandleClose(cur) /\ UNCHANGED timerVars
    <2>1. /\ fd2chan_' = fd2chan_ \ {cur}
          /\ fd2http_' = fd2http_ \ {cur}
          /\ DOMAIN http' = Fds
          /\ \A c \in Fds \ {cur} : http'[c] = http[c]
      BY <1>1, <1>4 DEF HandleClose, EpollDel
    <2> QED
      BY <1>1, <1>4, <2>1
  <1> QED
    BY <1>2, <1>3, <1>4 DEF HandleConn

LEMMA LoopPreserves ==
  ASSUME Inv, Poll \/ TakeFunctors \/ EndFunctors \/ EndExpire
  PROVE  Inv'
  <1> USE DEF Inv, TableInv, FunctorInv, TimerInv
  <1>1. CASE Poll
    <2>1. /\ pc = "poll" /\ pc' \in {"poll", "dispatch"}
          /\ ret' \subseteq fd2chan_
          /\ pc' = "poll" => ret' = {}
          /\ UNCHANGED <<http, tableVars, timerVars, pendingFunctors_,
                         functors, cur>>
      BY <1>1 DEF Poll
    <2> QED
      BY <2>1
  <1>2. CASE TakeFunctors
    BY <1>2 DEF TakeFunctors
  <1>3. CASE EndFunctors
    BY <1>3 DEF EndFunctors
  <1>4. CASE EndExpire
    BY <1>4 DEF EndExpire
  <1> QED
    BY <1>1, <1>2, <1>3, <1>4

LEMMA ChannelPreserves ==
  ASSUME Inv, NEW c \in Fds, HandleEvents(c) \/ NewEvent(c) \/ Expire(c)
  PROVE  Inv'
  <1> USE DEF Inv, TableInv, FunctorInv, TimerInv
  <1>1. CASE HandleEvents(c)
    <2>1. /\ pc = "dispatch" /\ c \in ret /\ ret' = ret \ {c}
          /\ \/ cur' = NoFd /\ pc' = "dispatch"
             \/ cur' = c /\ pc' \in {"read", "write", "conn"}
          /\ UNCHANGED <<http, tableVars, timerVars, functorVars>>
      BY <1>1 DEF HandleEvents
    <2> QED
      BY <2>1
  <1>2. CASE NewEvent(c)
    <2>1. /\ pc = "functors" /\ pc' = pc /\ c \in functors
          /\ functors' = functors \ {c}
          /\ timer' = [timer EXCEPT ![c] = "running"]
          /\ stray' = {}
          /\ fd2chan_' \subseteq fd2chan_ \cup {c}
          /\ fd2http_' = fd2http_ \cup {c}
          /\ UNCHANGED <<http, pendingFunctors_, retVars, cur>>
      BY <1>2 DEF NewEvent, EpollAdd, EpollCtl, EpollFails, AddTimer
    <2> QED
      BY <2>1
  <1>3. CASE Expire(c)
    <2>1. /\ pc = "expire" /\ pc' = pc
          /\ timer' = [timer EXCEPT ![c] = "none"]
          /\ stray' = {}
          /\ fd2chan_' = fd2chan_ \ {c} /\ fd2http_' = fd2http_ \ {c}
          /\ DOMAIN http' = Fds
          /\ \A d \in Fds \ {c} : http'[d] = http[d]
          /\ UNCHANGED <<functorVars, retVars, cur>>
      BY <1>3 DEF Expire, HandleClose, EpollDel
    <2> QED
      BY <2>1
  <1> QED
    BY <1>1, <1>2, <1>3

LEMMA NextPreserves ==
  ASSUME Inv, [Next]_vars
  PROVE  Inv'
  <1>1. CASE UNCHANGED vars
    BY <1>1 DEF vars, Inv, TableInv, FunctorInv, TimerInv
  <1>2. CASE LoopStep
    <2>1. ASSUME NEW c \in Fds, HandleEvents(c) \/ NewEvent(c) \/ Expire(c)
          PROVE  Inv'
      BY <2>1, ChannelPreserves
    <2> QED
      BY <1>2, <2>1, HandlerPreserves, HandleConnPreserves, LoopPreserves
         DEF LoopStep
  <1>3. ASSUME NEW c \in Fds, Accept(c) PROVE Inv'
    BY <1>3, AcceptPreserves
  <1>4. ASSUME NEW c \in Fds, Tick(c) PROVE Inv'
    BY <1>4, TickPreserves
  <1>5. ASSUME NEW c \in Fds, Send(c) \/ Fin(c) \/ Rst(c) \/ Drain(c)
        PROVE  Inv'
    BY <1>5, PeerPreserves
  <1>6. CASE Nudge
    BY <1>6 DEF Nudge, Inv, TableInv, FunctorInv, TimerInv
  <1> QED
    BY <1>1, <1>2, <1>3, <1>4, <1>5, <1>6, ClockPreserves DEF Next

(* The invariant holds of every run of the loop and its clients.           *)
THEOREM Invariance == SafeSpec => []Inv
  <1> QED
    BY InitInv, NextPreserves, PTL DEF SafeSpec

(* The HttpData behind every callback the loop may make is alive: epoll_add *)
(* keeps it in fd2http_ for as long as its channel can be found.           *)
THEOREM CallbacksAreSafe == SafeSpec => []NoDanglingCallback
  <1>1. Inv => NoDanglingCallback
    BY DEF Inv, TableInv, NoDanglingCallback, Alive
  <1> QED
    BY <1>1, Invariance, PTL

(* While the loop waits, whatever failed before, each connection that has  *)
(* not been half-closed by its client has a timer (epoll_add, epoll_mod).  *)
THEOREM ConnectionsAreSupervised == SafeSpec => []Supervised
  <1>1. Inv => Supervised
    BY DEF Inv, TableInv, TimerInv, Supervised
  <1> QED
    BY <1>1, Invariance, PTL

(* seperateTimer is called before every new timer: no connection has two.  *)
THEOREM TimersAreUnique == SafeSpec => []OneTimer
  <1>1. Inv => OneTimer
    BY DEF Inv, TimerInv, OneTimer
  <1> QED
    BY <1>1, Invariance, PTL

-----------------------------------------------------------------------------
(* The timers: what handlers ask of TimerManager.                          *)

LEMMA InitUses == Init => Timers!Init
  BY DEF Init, Timers!Init

(* A round of handlers ends one connection's timer, and starts it again    *)
(* only after seperateTimer.                                               *)
LEMMA HandlerUses ==
  ASSUME Inv, Reply \/ SeperateTimer \/ HandleConn
  PROVE  \/ UNCHANGED Timers!vars
         \/ Timers!Clear(cur) \/ Timers!Add(cur)
  <1> USE DEF Timers!vars
  <1>1. pc # "expire" /\ pc' # "expire" /\ cur \in Fds
    BY DEF Reply, SeperateTimer, HandleConn, AfterRead, Inv, TableInv
  <1>2. CASE UNCHANGED timer
    BY <1>1, <1>2
  <1>3. CASE timer' = [timer EXCEPT ![cur] = "none"]
    BY <1>1, <1>3 DEF Timers!Clear
  <1>4. CASE pc = "update" /\ timer' = [timer EXCEPT ![cur] = "running"]
    BY <1>1, <1>4 DEF Timers!Add, Inv, TimerInv
  <1>5. CASE HandleConn
    <2>1. pc = "update" /\ (AddTimer(cur) \/ UNCHANGED timer)
      BY <1>5 DEF HandleConn, EpollMod, HandleClose
    <2> QED
      BY <2>1, <1>2, <1>4 DEF AddTimer
  <1> QED
    BY <1>2, <1>3, <1>5 DEF Reply, SeperateTimer

LEMMA ChannelUses ==
  ASSUME Inv, NEW c \in Fds, NewEvent(c) \/ Expire(c)
  PROVE  Timers!Add(c) \/ Timers!Expire(c)
  <1>1. CASE NewEvent(c)
    <2>1. pc = "functors" /\ pc' = pc /\ timer[c] = "none"
          /\ timer' = [timer EXCEPT ![c] = "running"]
      BY <1>1 DEF NewEvent, EpollAdd, AddTimer, Inv, FunctorInv
    <2> QED
      BY <2>1 DEF Timers!Add
  <1>2. CASE Expire(c)
    <2>1. pc = "expire" /\ pc' = pc /\ timer[c] = "overdue"
          /\ timer' = [timer EXCEPT ![c] = "none"]
      BY <1>2 DEF Expire, Inv, TimerInv
    <2> QED
      BY <2>1 DEF Timers!Expire
  <1> QED
    BY <1>1, <1>2

LEMMA NextUses ==
  ASSUME Inv, [Next]_vars
  PROVE  [Timers!Next]_Timers!vars
  <1>1. ASSUME UNCHANGED timer, pc' # "expire" <=> pc # "expire"
        PROVE  UNCHANGED Timers!vars
    BY <1>1 DEF Timers!vars
  <1>2. CASE UNCHANGED vars \/ Nudge
    BY <1>1, <1>2 DEF vars, Nudge
  <1>3. CASE Poll \/ HandleRead \/ WriteReady \/ TakeFunctors
    BY <1>1, <1>3 DEF Poll, HandleRead, WriteReady, TakeFunctors, AfterRead
  <1>4. CASE Reply \/ SeperateTimer \/ HandleConn
    <2>1. cur \in Fds
      BY <1>4 DEF Reply, SeperateTimer, HandleConn, Inv, TableInv
    <2> QED
      BY <1>4, <2>1, HandlerUses DEF Timers!Next
  <1>5. CASE EndFunctors
    BY <1>5 DEF EndFunctors, Timers!Next, Timers!StartSweep
  <1>6. CASE EndExpire
    BY <1>6 DEF EndExpire, Timers!Next, Timers!EndSweep
  <1>7. ASSUME NEW c \in Fds, HandleEvents(c) \/ Accept(c)
        PROVE  UNCHANGED Timers!vars
    BY <1>1, <1>7 DEF HandleEvents, Accept
  <1>8. ASSUME NEW c \in Fds, Send(c) \/ Fin(c) \/ Rst(c) \/ Drain(c)
        PROVE  UNCHANGED Timers!vars
    BY <1>1, <1>8 DEF Send, Fin, Rst, Drain, Peer
  <1>9. ASSUME NEW c \in Fds, NewEvent(c) \/ Expire(c)
        PROVE  Timers!Next
    BY <1>9, ChannelUses DEF Timers!Next
  <1>10. ASSUME NEW c \in Fds, Tick(c)
         PROVE  Timers!Next
    <2>1. Timers!Elapse({c})
      BY <1>10 DEF Tick, Timers!Elapse, Inv, TimerInv
    <2> QED
      BY <2>1 DEF Timers!Next
  <1>11. CASE ClockStartsAgain
    BY <1>11 DEF ClockStartsAgain, Timers!Next, Timers!StartAgain
  <1> QED
    BY <1>2, <1>3, <1>4, <1>5, <1>6, <1>7, <1>8, <1>9, <1>10, <1>11
       DEF Next, LoopStep

(* What the handlers, newEvent and the sweep do with the timers of their   *)
(* connections is what TimerManager (ManagerKeepsItsPromise) provides for: *)
(* no second timer, no timer touched while it sweeps.                      *)
THEOREM TimersAreUsedRightly == SafeSpec => UsesTimers
  <1> QED
    BY InitUses, NextUses, Invariance, PTL DEF SafeSpec, UsesTimers, Timers!Spec

-----------------------------------------------------------------------------
(* Types.  The parser and the writer stay within the bounds of the buffers *)
(* and keep the HttpData one.                                              *)

LEMMA ReadsType ==
  ASSUME NEW d \in HttpDatas, NEW s \in Sockets, NEW r \in Reads(d, s)
  PROVE  r \in HttpDatas
  BY BoundsAssumption DEF Reads, HttpDatas

LEMMA FieldTypes ==
  ASSUME NEW d \in HttpDatas
  PROVE  /\ Failed(d) \in HttpDatas
         /\ d.inBuffer_ \in 0 .. MaxIn /\ d.outBuffer_ \in 0 .. MaxOut
         /\ [d EXCEPT !.ConnectionState_ = "DISCONNECTING"] \in HttpDatas
         /\ \A i \in 0 .. MaxIn :
              /\ [d EXCEPT !.inBuffer_ = i] \in HttpDatas
              /\ \A s \in {"HEADERS", "BODY"} :
                    [d EXCEPT !.state_ = s, !.inBuffer_ = i] \in HttpDatas
              /\ \A n \in 0 .. MaxOut :
                   Answered(d, i, n) \in HttpDatas
         /\ \A n \in 0 .. MaxOut : [d EXCEPT !.outBuffer_ = n] \in HttpDatas
  BY DEF HttpDatas, Failed, Answered

(* What the parser makes of d, without regard to the state it began in.    *)
LEMMA ParsesCases ==
  ASSUME NEW d, NEW e \in Parses(d)
  PROVE  \/ e = d \/ e = Failed(d) \/ e = [Failed(d) EXCEPT !.inBuffer_ = 0]
         \/ \E s \in {"HEADERS", "BODY"}, i \in 0 .. d.inBuffer_ :
               e = [d EXCEPT !.state_ = s, !.inBuffer_ = i]
         \/ \E i \in 0 .. d.inBuffer_ - 1, n \in {MaxOut} \cup 1 .. MaxOut :
               e = Answered(d, i, n)
  <1>1. ASSUME NEW s \in {"HEADERS", "BODY"}, e \in Waits(d, s)
        PROVE  \E i \in 0 .. d.inBuffer_ :
                 e = [d EXCEPT !.state_ = s, !.inBuffer_ = i]
    BY <1>1, Zenon DEF Waits
  <1>2. ASSUME e \in Analyses(d), e # Failed(d)
        PROVE  \E i \in 0 .. d.inBuffer_ - 1, n \in {MaxOut} \cup 1 .. MaxOut :
                 e = Answered(d, i, n)
    BY <1>2 DEF Analyses
  <1>3. \/ e = d \/ e = Failed(d) \/ e = [Failed(d) EXCEPT !.inBuffer_ = 0]
        \/ e \in Waits(d, "HEADERS") \/ e \in Waits(d, "BODY")
        \/ e \in Analyses(d)
    BY Zenon DEF Parses, URIParses, HeaderParses, Bodies
  <1> QED
    BY <1>1, <1>2, <1>3, Zenon

LEMMA ParsesType ==
  ASSUME NEW d \in HttpDatas, NEW e \in Parses(d)
  PROVE  e \in HttpDatas
  <1>1. d.inBuffer_ \in 0 .. MaxIn /\ Failed(d) \in HttpDatas
    BY FieldTypes
  <1>2. [Failed(d) EXCEPT !.inBuffer_ = 0] \in HttpDatas
    <2>1. 0 \in 0 .. MaxIn
      BY BoundsAssumption
    <2> QED
      BY <1>1, <2>1, FieldTypes
  <1>3. ASSUME NEW s \in {"HEADERS", "BODY"}, NEW i \in 0 .. d.inBuffer_
        PROVE  [d EXCEPT !.state_ = s, !.inBuffer_ = i] \in HttpDatas
    <2>1. i \in 0 .. MaxIn
      BY <1>1, BoundsAssumption
    <2> QED
      BY <2>1, FieldTypes
  <1>4. ASSUME NEW i \in 0 .. d.inBuffer_ - 1, NEW n \in {MaxOut} \cup 1 .. MaxOut
        PROVE  Answered(d, i, n) \in HttpDatas
    <2>1. i \in 0 .. MaxIn /\ n \in 0 .. MaxOut
      BY <1>1, BoundsAssumption
    <2> QED
      BY <2>1, FieldTypes
  <1>5. CASE \E s \in {"HEADERS", "BODY"}, i \in 0 .. d.inBuffer_ :
               e = [d EXCEPT !.state_ = s, !.inBuffer_ = i]
    BY <1>3, <1>5
  <1>6. CASE \E i \in 0 .. d.inBuffer_ - 1, n \in {MaxOut} \cup 1 .. MaxOut :
               e = Answered(d, i, n)
    BY <1>4, <1>6
  <1>7. CASE e = d \/ e = Failed(d) \/ e = [Failed(d) EXCEPT !.inBuffer_ = 0]
    BY <1>1, <1>2, <1>7
  <1> QED
    BY <1>5, <1>6, <1>7, ParsesCases

LEMMA PassesType ==
  ASSUME NEW d \in HttpDatas, NEW s \in Sockets, NEW e \in Passes(d, s)
  PROVE  e \in HttpDatas
  <1>1. 0 \in 0 .. MaxIn
    BY BoundsAssumption
  <1>2. /\ [d EXCEPT !.ConnectionState_ = "DISCONNECTING"] \in HttpDatas
        /\ [d EXCEPT !.inBuffer_ = 0] \in HttpDatas
        /\ Failed(d) \in HttpDatas
    BY <1>1, FieldTypes
  <1> QED
    BY <1>2, ParsesType DEF Passes

LEMMA WritesType ==
  ASSUME NEW d \in HttpDatas, NEW s \in Sockets, NEW w \in Writes(d, s)
  PROVE  w.http \in HttpDatas /\ w.room \in BOOLEAN
  <1>1. CASE w = [http |-> d, room |-> s.room]
    BY <1>1 DEF Sockets
  <1>2. CASE w = [http |-> Failed(d), room |-> s.room]
    BY <1>2, FieldTypes DEF Sockets
  <1>3. CASE w = [http |-> d, room |-> FALSE]
    BY <1>3
  <1>4. CASE \E n \in 0 .. d.outBuffer_ - 1 :
               w = [http |-> [d EXCEPT !.outBuffer_ = n], room |-> n = 0]
    <2>1. PICK n \in 0 .. d.outBuffer_ - 1 :
            w = [http |-> [d EXCEPT !.outBuffer_ = n], room |-> n = 0]
      BY <1>4
    <2>2. n \in 0 .. MaxOut
      <3>1. d.outBuffer_ \in 0 .. MaxOut
        BY FieldTypes
      <3> QED
        BY <3>1, BoundsAssumption
    <2>3. w.http \in HttpDatas
      BY <2>1, <2>2, FieldTypes
    <2>4. w.room \in BOOLEAN
      BY <2>1
    <2> QED
      BY <2>3, <2>4
  <1> QED
    BY <1>1, <1>2, <1>3, <1>4 DEF Writes

LEMMA EdgeType ==
  ASSUME NEW k \in Entries, NEW s \in Sockets
  PROVE  Edge(k, s) \in Entries
  BY DEF Edge, Entries

\* What Inv does not say of the variables' types.
DataInv ==
    /\ sock \in [Fds -> Sockets]
    /\ kern \in [Fds -> Entries]
    /\ http \in [Fds -> HttpDatas]
    /\ events_ \in [Fds -> SUBSET Flags]
    /\ lastEvents_ \in [Fds -> SUBSET Flags]
    /\ woken \in BOOLEAN
    /\ revents_ \in [Fds -> SUBSET {"IN", "OUT", "ERR", "HUP"}]
    /\ failures \in 0 .. MaxFailures

LEMMA InitData == Init => DataInv
  <1>1. NewSocket \in Sockets
    BY DEF NewSocket, Sockets
  <1>2. NoEntry \in Entries
    BY DEF NoEntry, Entries
  <1>3. NewHttpData \in HttpDatas
    BY BoundsAssumption DEF NewHttpData, HttpDatas
  <1>4. 0 \in 0 .. MaxFailures
    BY BoundsAssumption
  <1> SUFFICES ASSUME Init PROVE DataInv
    OBVIOUS
  <1>5. /\ sock \in [Fds -> Sockets]
        /\ kern \in [Fds -> Entries]
        /\ http \in [Fds -> HttpDatas]
    BY <1>1, <1>2, <1>3 DEF Init
  <1>6. /\ events_ \in [Fds -> SUBSET Flags]
        /\ lastEvents_ \in [Fds -> SUBSET Flags]
        /\ revents_ \in [Fds -> SUBSET {"IN", "OUT", "ERR", "HUP"}]
    BY DEF Init
  <1> QED
    BY <1>4, <1>5, <1>6 DEF Init, DataInv

LEMMA PeerData ==
  ASSUME DataInv, NEW c \in Fds,
         Send(c) \/ Fin(c) \/ Rst(c) \/ Drain(c)
  PROVE  DataInv'
  <1>1. PICK s \in Sockets : Peer(c, s)
    <2>1. sock[c] \in Sockets
      BY DEF DataInv
    <2>2. /\ [sock[c] EXCEPT !.data = TRUE] \in Sockets
          /\ [sock[c] EXCEPT !.fin = TRUE] \in Sockets
          /\ [sock[c] EXCEPT !.rst = TRUE] \in Sockets
          /\ [sock[c] EXCEPT !.room = TRUE] \in Sockets
      BY <2>1 DEF Sockets
    <2> QED
      BY <2>2 DEF Send, Fin, Rst, Drain
  <1>2. Edge(kern[c], s) \in Entries
    BY EdgeType DEF DataInv
  <1> QED
    BY <1>1, <1>2 DEF Peer, DataInv

LEMMA AcceptData ==
  ASSUME DataInv, NEW c \in Fds, Accept(c)
  PROVE  DataInv'
  <1>1. NewSocket \in Sockets
    BY DEF NewSocket, Sockets
  <1>2. NoEntry \in Entries
    BY DEF NoEntry, Entries
  <1>3. NewHttpData \in HttpDatas
    BY BoundsAssumption DEF NewHttpData, HttpDatas
  <1> QED
    BY <1>1, <1>2, <1>3 DEF Accept, DataInv

(* epoll_ctl registers the events it is given and counts its failures.     *)
LEMMA EpollCtlData ==
  ASSUME DataInv, NEW c \in Fds, NEW ev \in SUBSET Flags,
         EpollCtl(c, ev) \/ EpollFails(c)
  PROVE  kern' \in [Fds -> Entries] /\ failures' \in 0 .. MaxFailures
  <1>1. CASE EpollCtl(c, ev)
    <2>1. [kern[c] EXCEPT !.reg = TRUE, !.interest = ev] \in Entries
      <3>1. kern[c] \in Entries
        BY DEF DataInv
      <3> QED
        BY <3>1 DEF Entries
    <2>2. Edge([kern[c] EXCEPT !.reg = TRUE, !.interest = ev], sock[c])
            \in Entries
      BY <2>1, EdgeType DEF DataInv
    <2> QED
      BY <1>1, <2>2 DEF EpollCtl, DataInv
  <1>2. CASE EpollFails(c)
    BY <1>2, BoundsAssumption DEF EpollFails, DataInv
  <1> QED
    BY <1>1, <1>2

(* handleClose leaves an HttpData and an empty entry.                      *)
LEMMA CloseData ==
  ASSUME DataInv, NEW c \in Fds, HandleClose(c)
  PROVE  http' \in [Fds -> HttpDatas] /\ kern' \in [Fds -> Entries]
  <1>1. NoEntry \in Entries
    BY DEF NoEntry, Entries
  <1>2. [http[c] EXCEPT !.ConnectionState_ = "DISCONNECTED"] \in HttpDatas
    BY DEF DataInv, HttpDatas
  <1> QED
    BY <1>1, <1>2 DEF HandleClose, EpollDel, DataInv

LEMMA HandlerData ==
  ASSUME Inv, DataInv, HandleRead \/ Reply \/ WriteReady \/ SeperateTimer
  PROVE  DataInv'
  <1>1. cur \in Fds
    BY DEF Inv, TableInv, HandleRead, Reply, WriteReady, SeperateTimer
  <1>2. /\ sock[cur] \in Sockets /\ http[cur] \in HttpDatas
        /\ events_[cur] \in SUBSET Flags
    BY <1>1 DEF DataInv
  <1>3. CASE HandleRead
    <2>1. ReadOut(sock[cur]) \in Sockets
      BY <1>2 DEF ReadOut, Sockets
    <2>2. PICK r \in Reads(http[cur], sock[cur]) :
            \E d \in Passes(r, sock[cur]) : http' = [http EXCEPT ![cur] = d]
      BY <1>3 DEF HandleRead
    <2>3. r \in HttpDatas
      BY <1>2, ReadsType
    <2>4. \A d \in Passes(r, sock[cur]) : d \in HttpDatas
      BY <1>2, <2>3, PassesType
    <2>5. http' \in [Fds -> HttpDatas]
      BY <2>2, <2>4 DEF DataInv
    <2>6. sock' \in [Fds -> Sockets]
      BY <1>3, <2>1 DEF HandleRead, DataInv
    <2> QED
      BY <1>3, <2>5, <2>6 DEF HandleRead, DataInv
  <1>4. ASSUME NEW w \in Writes(http[cur], sock[cur])
        PROVE  /\ w.http \in HttpDatas
               /\ [w.http EXCEPT !.state_ = "URI"] \in HttpDatas
               /\ [sock EXCEPT ![cur].room = w.room] \in [Fds -> Sockets]
               /\ EventsAfter(w, events_[cur]) \in SUBSET Flags
    <2>1. w.http \in HttpDatas /\ w.room \in BOOLEAN
      BY <1>2, WritesType
    <2>2. [w.http EXCEPT !.state_ = "URI"] \in HttpDatas
      BY <2>1 DEF HttpDatas
    <2>3. [sock[cur] EXCEPT !.room = w.room] \in Sockets
      BY <1>2, <2>1 DEF Sockets
    <2>4. [sock EXCEPT ![cur].room = w.room] \in [Fds -> Sockets]
      BY <2>3 DEF DataInv
    <2>5. EventsAfter(w, events_[cur]) \in SUBSET Flags
      BY <1>2 DEF EventsAfter, Flags
    <2> QED
      BY <2>1, <2>2, <2>4, <2>5
  <1>5. CASE Reply
    <2>1. PICK w \in Writes(http[cur], sock[cur]) :
            /\ sock' = [sock EXCEPT ![cur].room = w.room]
            /\ \/ http' = [http EXCEPT ![cur] = [w.http EXCEPT !.state_ = "URI"]]
               \/ http' = [http EXCEPT ![cur] = w.http]
            /\ \/ events_' = [events_ EXCEPT ![cur] =
                                 EventsAfter(w, events_[cur])]
               \/ events_' = [events_ EXCEPT ![cur] =
                                 EventsAfter(w, events_[cur]) \cup {"IN"}]
      BY <1>5 DEF Reply, HandleWrite
    <2>2. EventsAfter(w, events_[cur]) \cup {"IN"} \in SUBSET Flags
      BY <1>4 DEF Flags
    <2>3. http' \in [Fds -> HttpDatas]
      BY <1>4, <2>1 DEF DataInv
    <2>4. events_' \in [Fds -> SUBSET Flags]
      BY <1>4, <2>1, <2>2 DEF DataInv
    <2> QED
      BY <1>4, <1>5, <2>1, <2>3, <2>4 DEF Reply, DataInv
  <1>6. CASE WriteReady
    <2>1. CASE UNCHANGED <<sock, http, events_>>
      BY <1>6, <2>1 DEF WriteReady, DataInv
    <2>2. CASE ~UNCHANGED <<sock, http, events_>>
      <3>1. PICK w \in Writes(http[cur], sock[cur]) :
              /\ sock' = [sock EXCEPT ![cur].room = w.room]
              /\ http' = [http EXCEPT ![cur] = w.http]
              /\ events_' = [events_ EXCEPT ![cur] =
                               EventsAfter(w, events_[cur])]
        BY <1>6, <2>2 DEF WriteReady, HandleWrite
      <3> QED
        BY <1>4, <1>6, <3>1 DEF WriteReady, DataInv
    <2> QED
      BY <2>1, <2>2
  <1>7. CASE SeperateTimer
    BY <1>7 DEF SeperateTimer, DataInv
  <1> QED
    BY <1>3, <1>5, <1>6, <1>7

LEMMA HandleConnData ==
  ASSUME Inv, DataInv, HandleConn
  PROVE  DataInv'
  <1>1. cur \in Fds
    BY DEF Inv, TableInv, HandleConn
  <1>2. UNCHANGED <<sock, woken, revents_>>
    BY DEF HandleConn
  <1>3. CASE \E ev \in SUBSET Flags :
               /\ events_' = [events_ EXCEPT ![cur] = ev]
               /\ EpollMod(cur, ev)
               /\ UNCHANGED http
    <2>1. PICK ev \in SUBSET Flags :
            /\ events_' = [events_ EXCEPT ![cur] = ev]
            /\ lastEvents_' = [lastEvents_ EXCEPT ![cur] = ev]
            /\ \/ UNCHANGED <<kern, failures>>
               \/ EpollCtl(cur, ev) \/ EpollFails(cur)
            /\ UNCHANGED http
      BY <1>3 DEF EpollMod
    <2>2. kern' \in [Fds -> Entries] /\ failures' \in 0 .. MaxFailures
      BY <1>1, <2>1, EpollCtlData DEF DataInv
    <2> QED
      BY <1>1, <1>2, <2>1, <2>2 DEF DataInv
  <1>4. CASE UNCHANGED <<http, events_, kern, lastEvents_, failures>>
    BY <1>2, <1>4 DEF DataInv
  <1>5. CASE HandleClose(cur) /\ UNCHANGED events_
    <2>1. http' \in [Fds -> HttpDatas] /\ kern' \in [Fds -> Entries]
      BY <1>1, <1>5, CloseData
    <2> QED
      BY <1>2, <1>5, <2>1 DEF HandleClose, EpollDel, DataInv
  <1>6. events_[cur] \in SUBSET Flags /\ {"IN"} \in SUBSET Flags
        /\ {"OUT"} \in SUBSET Flags
    BY <1>1 DEF DataInv, Flags
  <1> QED
    BY <1>3, <1>4, <1>5, <1>6 DEF HandleConn

LEMMA LoopData ==
  ASSUME DataInv, Poll \/ TakeFunctors \/ EndFunctors \/ EndExpire
  PROVE  DataInv'
  <1>1. CASE Poll
    <2>1. ASSUME NEW c \in Fds, NEW i \in {{}, kern[c].interest}
          PROVE  [kern[c] EXCEPT !.onList = FALSE, !.interest = i] \in Entries
      <3>1. kern[c] \in Entries
        BY DEF DataInv
      <3> QED
        BY <2>1, <3>1 DEF Entries
    <2>2. \A c \in Fds : kern'[c] \in Entries
      BY <1>1, <2>1 DEF Poll
    <2>3. kern' \in [Fds -> Entries]
      BY <1>1, <2>2 DEF Poll
    <2>4. \A c \in Fds : Reported(kern[c], sock[c]) \subseteq
                           {"IN", "OUT", "ERR", "HUP"}
      BY DEF Reported, Ready
    <2>5. revents_' \in [Fds -> SUBSET {"IN", "OUT", "ERR", "HUP"}]
      BY <1>1, <2>4 DEF Poll
    <2>6. events_' \in [Fds -> SUBSET Flags]
      BY <1>1 DEF Poll, DataInv
    <2> QED
      BY <1>1, <2>3, <2>5, <2>6 DEF Poll, DataInv
  <1>2. CASE TakeFunctors \/ EndFunctors \/ EndExpire
    BY <1>2 DEF TakeFunctors, EndFunctors, EndExpire, DataInv
  <1> QED
    BY <1>1, <1>2

LEMMA ChannelData ==
  ASSUME DataInv, NEW c \in Fds, HandleEvents(c) \/ NewEvent(c) \/ Expire(c)
  PROVE  DataInv'
  <1>1. CASE HandleEvents(c)
    BY <1>1 DEF HandleEvents, DataInv
  <1>2. CASE NewEvent(c)
    <2>1. DEFAULT_EVENT \in SUBSET Flags
      BY DEF DEFAULT_EVENT, Flags
    <2>2. /\ events_' = [events_ EXCEPT ![c] = DEFAULT_EVENT]
          /\ lastEvents_' = [lastEvents_ EXCEPT ![c] = DEFAULT_EVENT]
          /\ EpollCtl(c, DEFAULT_EVENT) \/ EpollFails(c)
          /\ UNCHANGED <<sock, http, woken, revents_>>
      BY <1>2 DEF NewEvent, EpollAdd
    <2>3. kern' \in [Fds -> Entries] /\ failures' \in 0 .. MaxFailures
      BY <2>1, <2>2, EpollCtlData
    <2> QED
      BY <2>1, <2>2, <2>3 DEF DataInv
  <1>3. CASE Expire(c)
    <2>1. http' \in [Fds -> HttpDatas] /\ kern' \in [Fds -> Entries]
      BY <1>3, CloseData DEF Expire
    <2> QED
      BY <1>3, <2>1 DEF Expire, HandleClose, EpollDel, DataInv
  <1> QED
    BY <1>1, <1>2, <1>3

LEMMA NextData ==
  ASSUME Inv, DataInv, [Next]_vars
  PROVE  DataInv'
  <1>1. CASE UNCHANGED vars
    BY <1>1 DEF vars, DataInv
  <1>2. CASE LoopStep
    <2>1. ASSUME NEW c \in Fds, HandleEvents(c) \/ NewEvent(c) \/ Expire(c)
          PROVE  DataInv'
      BY <2>1, ChannelData
    <2> QED
      BY <1>2, <2>1, HandlerData, HandleConnData, LoopData DEF LoopStep
  <1>3. ASSUME NEW c \in Fds, Accept(c) PROVE DataInv'
    BY <1>3, AcceptData
  <1>4. ASSUME NEW c \in Fds, Tick(c) PROVE DataInv'
    BY <1>4 DEF Tick, DataInv
  <1>5. ASSUME NEW c \in Fds, Send(c) \/ Fin(c) \/ Rst(c) \/ Drain(c)
        PROVE  DataInv'
    BY <1>5, PeerData
  <1>6. CASE Nudge \/ ClockStartsAgain
    BY <1>6 DEF Nudge, ClockStartsAgain, DataInv
  <1> QED
    BY <1>1, <1>2, <1>3, <1>4, <1>5, <1>6 DEF Next

(* Every variable keeps its type, for all bounds: the loop always knows     *)
(* which connection it handles, and no handler leaves the buffers' bounds. *)
THEOREM TypeCorrect == SafeSpec => []TypeOK
  <1>1. Inv /\ DataInv => TypeOK
    BY DEF Inv, TableInv, FunctorInv, TimerInv, DataInv, TypeOK
  <1> QED
    BY <1>1, InitInv, InitData, NextPreserves, NextData, PTL DEF SafeSpec

-----------------------------------------------------------------------------
(***************************************************************************)
(* The kernel: what the loop waits for is what it needs, and no edge is    *)
(* lost.                                                                   *)
(*                                                                         *)
(* The invariant follows the entry of one connection through a report, its *)
(* handlers and the epoll_mod, or the absence of one, that ends them.  It  *)
(* speaks of connections that are open, that is, connected and not reset.  *)
(***************************************************************************)

Open(c) ==
    c \in fd2chan_ /\ ~sock[c].rst /\ http[c].ConnectionState_ = "CONNECTED"

Edged(c) == Reported(kern[c], sock[c]) # {} => kern[c].onList

\* lastEvents_ is what the kernel has, unless a one-shot entry has fired.
Entry(c) ==
    ~sock[c].rst =>
        /\ kern[c].reg
        /\ lastEvents_[c] \in {DEFAULT_EVENT, {"IN"}, {"OUT"}}
        /\ \/ kern[c].interest = lastEvents_[c]
           \/ kern[c].interest = {} /\ lastEvents_[c] = DEFAULT_EVENT

\* What a connection is promised whose handlers do not run.
Armed(c) ==
    Open(c) =>
        /\ kern[c].interest = lastEvents_[c]
        /\ http[c].outBuffer_ > 0 => "OUT" \in kern[c].interest
        /\ Edged(c)

\* A report has something a handler is called for, and nothing else.
Report(c) ==
    Open(c) => /\ revents_[c] # {}
               /\ revents_[c] \subseteq lastEvents_[c] \cap {"IN", "OUT"}

\* What the handlers have done by the time they come to each place.  Input
\* has been read once HandleRead has run; and a connection polled for room
\* that still has output has filled the socket.
Handled(c) ==
    Open(c) =>
        /\ events_[c] \subseteq {"IN", "OUT"}
        /\ pc \in {"read", "reply"} => "IN" \in revents_[c]
        /\ pc = "write" => lastEvents_[c] = {"OUT"} /\ events_[c] = {}
        /\ pc \in {"reply", "conn", "update"} /\ lastEvents_[c] = {"IN"} =>
              Edged(c)
        /\ pc \in {"conn", "update"} =>
              /\ lastEvents_[c] = {"OUT"} /\ "OUT" \in events_[c] => Edged(c)
              /\ ~http[c].error_ /\ http[c].outBuffer_ > 0 =>
                    "OUT" \in events_[c]

PollInv ==
    /\ \A c \in fd2chan_ : Entry(c)
    /\ \A c \in fd2chan_ \ (ret \cup {cur}) : Armed(c)
    /\ \A c \in ret : Report(c)
    /\ \A c \in pendingFunctors_ \cup functors : http[c].outBuffer_ = 0
    /\ pc \in Handling => Report(cur) /\ Handled(cur)

USE NoFdAssumption
    DEF netVars, tableVars, timerVars, functorVars, retVars, PCs, Handling

LEMMA InitPoll == Init => PollInv
  BY DEF Init, PollInv, Armed, Open

(* A connection nobody touches keeps what it was promised.                 *)
LEMMA Untouched ==
  ASSUME NEW c \in Fds,
         sock'[c] = sock[c], kern'[c] = kern[c], http'[c] = http[c],
         lastEvents_'[c] = lastEvents_[c], c \in fd2chan_' => c \in fd2chan_
  PROVE  /\ Entry(c) => Entry(c)'
         /\ Armed(c) => Armed(c)'
         /\ Report(c) /\ revents_'[c] = revents_[c] => Report(c)'
         /\ /\ Handled(c) /\ pc' = pc
            /\ revents_'[c] = revents_[c] /\ events_'[c] = events_[c]
            => Handled(c)'
  <1>1. Edged(c) <=> Edged(c)'
    BY DEF Edged, Reported, Ready
  <1>2. Open(c)' => Open(c)
    BY DEF Open
  <1> QED
    BY <1>1, <1>2 DEF Entry, Armed, Report, Handled

(* Whatever the client does to an open connection raises an edge.          *)
LEMMA PeerTouches ==
  ASSUME DataInv, NEW c \in Fds, NEW s \in Sockets, Peer(c, s),
         sock[c].rst => s.rst, c \in fd2chan_ => Entry(c)
  PROVE  /\ Entry(c) => Entry(c)'
         /\ Armed(c) => Armed(c)'
         /\ Report(c) => Report(c)'
         /\ Handled(c) => Handled(c)'
  <1>1. /\ UNCHANGED <<http, events_, lastEvents_, fd2chan_, retVars, pc>>
        /\ sock'[c] = s /\ kern'[c] = Edge(kern[c], s)
        /\ kern[c] \in Entries
    BY DEF Peer, DataInv
  <1>2. /\ kern'[c].reg = kern[c].reg
        /\ kern'[c].interest = kern[c].interest
        /\ kern'[c].onList = (kern[c].onList \/ (kern[c].reg /\ Reported(kern[c], s) # {}))
    BY <1>1 DEF Edge, Entries
  <1>3. Open(c)' => Open(c)
    BY <1>1 DEF Open
  <1>4. Open(c) => Edged(c)'
    <2>1. Reported(kern'[c], s) = Reported(kern[c], s)
      BY <1>2 DEF Reported
    <2> QED
      BY <1>1, <1>2, <2>1 DEF Edged, Open, Entry
  <1>5. Entry(c) => Entry(c)'
    BY <1>1, <1>2 DEF Entry
  <1>6. Armed(c) => Armed(c)'
    BY <1>1, <1>2, <1>3, <1>4 DEF Armed
  <1>7. Report(c) => Report(c)'
    BY <1>1, <1>3 DEF Report
  <1>8. Handled(c) => Handled(c)'
    BY <1>1, <1>3, <1>4 DEF Handled
  <1> QED
    BY <1>5, <1>6, <1>7, <1>8

LEMMA PeerPolls ==
  ASSUME Inv, DataInv, PollInv, NEW c \in Fds,
         Send(c) \/ Fin(c) \/ Rst(c) \/ Drain(c)
  PROVE  PollInv'
  <1>1. PICK s \in Sockets : Peer(c, s) /\ (sock[c].rst => s.rst)
    <2>1. sock[c] \in Sockets
      BY DEF DataInv
    <2>2. /\ [sock[c] EXCEPT !.data = TRUE] \in Sockets
          /\ [sock[c] EXCEPT !.fin = TRUE] \in Sockets
          /\ [sock[c] EXCEPT !.rst = TRUE] \in Sockets
          /\ [sock[c] EXCEPT !.room = TRUE] \in Sockets
      BY <2>1 DEF Sockets
    <2> QED
      BY <2>1, <2>2 DEF Send, Fin, Rst, Drain, Sockets
  <1>2. UNCHANGED <<http, events_, lastEvents_, tableVars, functorVars,
                    retVars, cur, pc>>
    BY <1>1 DEF Peer
  <1>3. \A d \in Fds \ {c} : sock'[d] = sock[d] /\ kern'[d] = kern[d]
    BY <1>1 DEF Peer, DataInv
  <1>4. ASSUME NEW d \in Fds, d \in fd2chan_ => Entry(d)
        PROVE  /\ Entry(d) => Entry(d)'
               /\ Armed(d) => Armed(d)'
               /\ Report(d) => Report(d)'
               /\ Handled(d) => Handled(d)'
    BY <1>1, <1>2, <1>3, <1>4, PeerTouches, Untouched
  <1>5. fd2chan_ \subseteq Fds /\ ret \subseteq Fds
        /\ (pc \in Handling => cur \in Fds)
    BY DEF Inv, TableInv
  <1>6. \A d \in fd2chan_ : Entry(d)
    BY DEF PollInv
  <1> QED
    BY <1>2, <1>4, <1>5, <1>6 DEF PollInv

LEMMA AcceptPolls ==
  ASSUME Inv, DataInv, PollInv, NEW c \in Fds, Accept(c)
  PROVE  PollInv'
  <1>1. c \notin fd2http_ \cup fd2chan_ \cup ret /\ c # cur
    BY DEF Accept, Alive, Inv, TableInv
  <1>2. /\ UNCHANGED <<tableVars, functors, retVars, cur, pc>>
        /\ pendingFunctors_' = pendingFunctors_ \cup {c}
        /\ http'[c].outBuffer_ = 0
    BY DEF Accept, NewHttpData, DataInv
  <1>3. \A d \in Fds \ {c} :
          /\ sock'[d] = sock[d] /\ kern'[d] = kern[d] /\ http'[d] = http[d]
          /\ events_'[d] = events_[d] /\ lastEvents_'[d] = lastEvents_[d]
    BY DEF Accept, DataInv
  <1>4. ASSUME NEW d \in Fds \ {c}
        PROVE  /\ Entry(d) => Entry(d)'
               /\ Armed(d) => Armed(d)'
               /\ Report(d) => Report(d)'
               /\ Handled(d) => Handled(d)'
    BY <1>2, <1>3, Untouched
  <1>5. fd2chan_ \subseteq Fds \ {c} /\ ret \subseteq Fds \ {c}
        /\ (pc \in Handling => cur \in Fds \ {c})
    BY <1>1 DEF Inv, TableInv
  <1>6. \A d \in pendingFunctors_' \cup functors' : http'[d].outBuffer_ = 0
    BY <1>2, <1>3 DEF PollInv, Inv, FunctorInv
  <1> QED
    BY <1>2, <1>4, <1>5, <1>6 DEF PollInv

(* epoll_wait returns what has an edge; what is not returned had nothing   *)
(* to report, and keeps its interest.                                      *)
LEMMA PollPolls ==
  ASSUME Inv, DataInv, PollInv, Poll
  PROVE  PollInv'
  <1>1. /\ ret = {} /\ cur = NoFd /\ fd2chan_ \subseteq Fds
        /\ functors = {}
    BY DEF Inv, TableInv, FunctorInv, Poll
  <1>2. /\ UNCHANGED <<sock, http, lastEvents_, tableVars, pendingFunctors_,
                       functors, cur>>
        /\ pc' \notin Handling
        /\ ret' \subseteq fd2chan_
    BY DEF Poll
  <1>3. ASSUME NEW c \in fd2chan_
        PROVE  /\ Entry(c)'
               /\ c \notin ret' => Armed(c)'
               /\ c \in ret' => Report(c)'
    <2>1. c \in Fds /\ Entry(c) /\ Armed(c) /\ kern[c] \in Entries
      BY <1>1 DEF PollInv, DataInv
    <2>2. /\ kern'[c].reg = kern[c].reg
          /\ kern'[c].interest = kern[c].interest
             \/ (kern'[c].interest = {} /\ "ONESHOT" \in kern[c].interest)
      BY <2>1 DEF Poll, Entries
    <2>3. c \in ret' <=> kern[c].onList /\ Reported(kern[c], sock[c]) # {}
      BY <2>1 DEF Poll
    <2>4. Entry(c)'
      BY <1>2, <2>1, <2>2 DEF Entry, DEFAULT_EVENT
    <2>5. Open(c)' <=> Open(c)
      BY <1>2 DEF Open
    <2>6. CASE c \notin ret' /\ Open(c)
      <3>1. Reported(kern[c], sock[c]) = {}
        BY <2>1, <2>3, <2>6 DEF Armed, Edged
      <3>2. kern'[c].interest = kern[c].interest
        BY <2>1, <3>1 DEF Poll, Entries
      <3>3. Reported(kern'[c], sock'[c]) = {}
        BY <1>2, <3>1, <3>2 DEF Reported
      <3> QED
        BY <1>2, <2>1, <2>4, <2>6, <3>2, <3>3 DEF Armed, Edged
    <2>7. CASE c \in ret' /\ Open(c)
      <3>1. revents_'[c] = Reported(kern[c], sock[c])
        BY <2>1, <2>3, <2>7 DEF Poll
      <3>2. Reported(kern[c], sock[c]) \subseteq kern[c].interest \cap {"IN", "OUT"}
        BY <2>7 DEF Open, Reported, Ready
      <3>3. kern[c].interest = lastEvents_[c]
        BY <2>1, <2>7 DEF Armed
      <3> QED
        BY <1>2, <2>3, <2>4, <2>7, <3>1, <3>2, <3>3 DEF Report
    <2> QED
      BY <2>4, <2>5, <2>6, <2>7 DEF Armed, Report
  <1> QED
    BY <1>1, <1>2, <1>3 DEF PollInv

LEMMA HandleEventsPolls ==
  ASSUME Inv, DataInv, PollInv, NEW c \in Fds, HandleEvents(c)
  PROVE  PollInv'
  <1>1. /\ UNCHANGED <<sock, kern, http, lastEvents_, tableVars,
                       functorVars, revents_>>
        /\ cur = NoFd /\ c \in ret /\ ret' = ret \ {c}
        /\ fd2chan_ \subseteq Fds /\ ret \subseteq Fds
    BY DEF HandleEvents, Inv, TableInv
  <1>2. ASSUME NEW d \in Fds
        PROVE  /\ Entry(d) => Entry(d)'
               /\ Armed(d) => Armed(d)'
               /\ Report(d) => Report(d)'
    BY <1>1, Untouched
  <1>3. Report(c)
    BY <1>1 DEF PollInv
  <1>4. Open(c) => c \in fd2chan_ /\ Entry(c)
    BY DEF Open, PollInv
  <1>5. Open(c)' <=> Open(c)
    BY <1>1 DEF Open
  <1>6. CASE cur' = NoFd
    <2>1. pc' \notin Handling
      BY <1>1, <1>6 DEF HandleEvents
    <2>2. ~Open(c)
      BY <1>1, <1>3, <1>6 DEF HandleEvents, Report
    <2>3. Armed(c)'
      BY <1>5, <2>2 DEF Armed
    <2> QED
      BY <1>1, <1>2, <1>6, <2>1, <2>3 DEF PollInv
  <1>7. CASE cur' = c
    <2>1. /\ events_'[c] = {}
          /\ pc' = IF "IN" \in revents_[c] THEN "read"
                   ELSE IF "OUT" \in revents_[c] THEN "write" ELSE "conn"
      BY <1>1, <1>7 DEF HandleEvents, DataInv
    <2>2. Handled(c)'
      BY <1>1, <1>3, <1>4, <1>5, <2>1 DEF Handled, Report, Entry, DEFAULT_EVENT, Open
    <2> QED
      BY <1>1, <1>2, <1>3, <1>7, <2>2 DEF PollInv
  <1> QED
    BY <1>6, <1>7 DEF HandleEvents

(* A handler changes the connection it handles.                            *)
LEMMA HandlerTouches ==
  ASSUME Inv, DataInv, PollInv, NEW c \in Fds, c = cur, pc' \in Handling,
         Handled(c)',
         UNCHANGED <<kern, lastEvents_, tableVars, functorVars, retVars, cur>>,
         \A d \in Fds \ {c} : sock'[d] = sock[d] /\ http'[d] = http[d],
         pc \in Handling, sock[c].rst => sock'[c].rst,
         Open(c)' => Open(c)
  PROVE  PollInv'
  <1>1. fd2chan_ \subseteq Fds /\ ret \subseteq Fds \ {c}
    BY DEF Inv, TableInv
  <1>2. ASSUME NEW d \in Fds \ {c}
        PROVE  /\ Entry(d) => Entry(d)'
               /\ Armed(d) => Armed(d)'
               /\ Report(d) => Report(d)'
    BY Untouched
  <1>3. Entry(c) => Entry(c)'
    BY DEF Entry
  <1>4. Report(c)'
    BY DEF Report, PollInv
  <1>5. \A d \in pendingFunctors_ \cup functors : d \in Fds \ {c}
    BY DEF Inv, TableInv, FunctorInv
  <1>6. \A d \in pendingFunctors_' \cup functors' : http'[d].outBuffer_ = 0
    BY <1>5 DEF PollInv
  <1>7. \A d \in fd2chan_' : Entry(d)'
    BY <1>1, <1>2, <1>3 DEF PollInv
  <1>8. \A d \in fd2chan_' \ (ret' \cup {cur'}) : Armed(d)'
    BY <1>1, <1>2 DEF PollInv
  <1>9. \A d \in ret' : Report(d)'
    BY <1>1, <1>2 DEF PollInv
  <1> QED
    BY <1>4, <1>6, <1>7, <1>8, <1>9 DEF PollInv

(* The parser leaves the connection's state alone, and a connection that   *)
(* stays connected has not seen the client's FIN.                          *)
LEMMA ParsesState ==
  ASSUME NEW d \in HttpDatas, NEW e \in Parses(d)
  PROVE  e.ConnectionState_ = d.ConnectionState_
  <1>1. /\ Failed(d).ConnectionState_ = d.ConnectionState_
        /\ [Failed(d) EXCEPT !.inBuffer_ = 0].ConnectionState_ = d.ConnectionState_
        /\ \A s, i : [d EXCEPT !.state_ = s, !.inBuffer_ = i].ConnectionState_
                       = d.ConnectionState_
        /\ \A i, n : Answered(d, i, n).ConnectionState_ = d.ConnectionState_
    BY DEF Failed, Answered, HttpDatas
  <1>2. CASE \E s \in {"HEADERS", "BODY"}, i \in 0 .. d.inBuffer_ :
               e = [d EXCEPT !.state_ = s, !.inBuffer_ = i]
    BY <1>1, <1>2
  <1>3. CASE \E i \in 0 .. d.inBuffer_ - 1, n \in {MaxOut} \cup 1 .. MaxOut :
               e = Answered(d, i, n)
    BY <1>1, <1>3
  <1>4. CASE e = d \/ e = Failed(d) \/ e = [Failed(d) EXCEPT !.inBuffer_ = 0]
    BY <1>1, <1>4
  <1> QED
    BY <1>2, <1>3, <1>4, ParsesCases

LEMMA PassesState ==
  ASSUME NEW d \in HttpDatas, NEW s \in Sockets, NEW e \in Passes(d, s),
         e.ConnectionState_ = "CONNECTED", ~s.rst
  PROVE  d.ConnectionState_ = "CONNECTED" /\ ~s.fin
  <1> DEFINE closing == [d EXCEPT !.ConnectionState_ = "DISCONNECTING"]
  <1>1. closing \in HttpDatas /\ closing.ConnectionState_ = "DISCONNECTING"
    BY DEF HttpDatas
  <1>2. e \notin Parses(closing)
    BY <1>1, ParsesState
  <1>3. d.ConnectionState_ # "DISCONNECTING"
    BY DEF Passes, HttpDatas
  <1>4. e \in Parses(d) /\ ~s.fin
    BY <1>1, <1>2, <1>3 DEF Passes
  <1> QED
    BY <1>4, ParsesState

LEMMA WritesState ==
  ASSUME NEW d \in HttpDatas, NEW s \in Sockets, NEW w \in Writes(d, s), ~s.rst
  PROVE  /\ w.http.ConnectionState_ = d.ConnectionState_
         /\ w.http.outBuffer_ > 0 => ~w.room
  <1>1. d.outBuffer_ \in 0 .. MaxOut
    BY FieldTypes
  <1>2. CASE d.outBuffer_ = 0
    BY <1>1, <1>2 DEF Writes
  <1>3. CASE d.outBuffer_ # 0 /\ ~s.room
    BY <1>3 DEF Writes
  <1>4. CASE d.outBuffer_ # 0 /\ s.room
    <2>1. PICK n \in 0 .. d.outBuffer_ - 1 :
            w = [http |-> [d EXCEPT !.outBuffer_ = n], room |-> n = 0]
      BY <1>4 DEF Writes
    <2>2. w.http.outBuffer_ = n /\ (w.room <=> n = 0)
          /\ w.http.ConnectionState_ = d.ConnectionState_
      BY <2>1 DEF HttpDatas
    <2> QED
      BY <2>1, <2>2, <1>1, BoundsAssumption
  <1> QED
    BY <1>2, <1>3, <1>4

LEMMA HandleReadPolls ==
  ASSUME Inv, DataInv, PollInv, HandleRead
  PROVE  PollInv'
  <1>1. /\ cur \in Fds /\ cur \in fd2http_ /\ pc = "read"
        /\ sock[cur] \in Sockets /\ http[cur] \in HttpDatas
        /\ Report(cur) /\ Handled(cur)
    BY DEF HandleRead, Inv, TableInv, DataInv, PollInv
  <1>2. PICK r \in Reads(http[cur], sock[cur]) :
          \E d \in Passes(r, sock[cur]) :
              /\ http' = [http EXCEPT ![cur] = d]
              /\ pc' = IF d.error_ THEN AfterRead ELSE "reply"
    BY DEF HandleRead
  <1>3. PICK d \in Passes(r, sock[cur]) :
              /\ http' = [http EXCEPT ![cur] = d]
              /\ pc' = IF d.error_ THEN AfterRead ELSE "reply"
    BY <1>2
  <1>4. r \in HttpDatas /\ r.ConnectionState_ = http[cur].ConnectionState_
    BY <1>1, ReadsType DEF Reads, HttpDatas
  <1>5. /\ sock'[cur] = [sock[cur] EXCEPT !.data = FALSE]
        /\ UNCHANGED <<kern, events_, lastEvents_, tableVars, functorVars,
                       retVars, cur>>
        /\ http'[cur] = d
        /\ \A c \in Fds \ {cur} : sock'[c] = sock[c] /\ http'[c] = http[c]
    BY <1>1, <1>3 DEF HandleRead, ReadOut, DataInv
  <1>6. Open(cur)' => Open(cur) /\ ~sock[cur].fin
    BY <1>1, <1>4, <1>5, PassesState DEF Open, Sockets
  <1>7. Open(cur) => Entry(cur)
    BY DEF Open, PollInv
  <1>8. Handled(cur)'
    <2> SUFFICES ASSUME Open(cur)' PROVE Handled(cur)'
      BY DEF Handled
    <2>1. Open(cur) /\ ~sock[cur].fin /\ Entry(cur)
      BY <1>6, <1>7
    <2>2. /\ events_[cur] \subseteq {"IN", "OUT"} /\ "IN" \in revents_[cur]
          /\ "IN" \in lastEvents_[cur] /\ "OUT" \notin revents_[cur]
      BY <1>1, <2>1 DEF Handled, Report, Entry, DEFAULT_EVENT, Open
    <2>3. pc' = IF d.error_ THEN "conn" ELSE "reply"
      BY <1>3, <2>2 DEF AfterRead
    <2>4. lastEvents_[cur] = {"IN"} => Edged(cur)'
      <3>1. sock'[cur] \in Sockets /\ ~sock'[cur].data /\ ~sock'[cur].fin
            /\ ~sock'[cur].rst
        BY <1>1, <1>5, <2>1 DEF Sockets, Open
      <3>2. lastEvents_[cur] = {"IN"} => kern[cur].interest = {"IN"}
        BY <2>1 DEF Entry, DEFAULT_EVENT, Open
      <3>3. "IN" \notin Ready(sock'[cur]) /\ "ERR" \notin Ready(sock'[cur])
            /\ "HUP" \notin Ready(sock'[cur])
        BY <3>1 DEF Ready
      <3> QED
        BY <1>5, <3>2, <3>3 DEF Edged, Reported
    <2>5. lastEvents_[cur] # {"OUT"}
      BY <2>2
    <2> QED
      BY <1>5, <2>2, <2>3, <2>4, <2>5 DEF Handled
  <1>9. pc' \in Handling
    BY <1>3 DEF AfterRead
  <1>10. sock'[cur].rst = sock[cur].rst
    BY <1>1, <1>5 DEF Sockets
  <1> QED
    BY <1>1, <1>5, <1>6, <1>8, <1>9, <1>10, HandlerTouches

(* Writing leaves everything of the socket but its room.                   *)
LEMMA RoomOnly ==
  ASSUME DataInv, NEW c \in Fds, NEW b, lastEvents_[c] = {"IN"},
         Entry(c), Edged(c), ~sock[c].rst,
         sock' = [sock EXCEPT ![c].room = b], UNCHANGED kern
  PROVE  Edged(c)'
  <1>1. kern[c].interest = {"IN"}
    BY DEF Entry, DEFAULT_EVENT
  <1>2. sock[c] \in Sockets /\ sock'[c] = [sock[c] EXCEPT !.room = b]
    BY DEF DataInv
  <1>3. /\ sock'[c].data = sock[c].data /\ sock'[c].fin = sock[c].fin
        /\ sock'[c].rst = sock[c].rst
    BY <1>2 DEF Sockets
  <1>4. Ready(sock'[c]) \cap {"IN", "ERR", "HUP"}
          = Ready(sock[c]) \cap {"IN", "ERR", "HUP"}
    BY <1>3 DEF Ready
  <1> QED
    BY <1>1, <1>4 DEF Edged, Reported

LEMMA ReplyPolls ==
  ASSUME Inv, DataInv, PollInv, Reply
  PROVE  PollInv'
  <1>1. /\ cur \in Fds /\ pc = "reply"
        /\ sock[cur] \in Sockets /\ http[cur] \in HttpDatas
        /\ Report(cur) /\ Handled(cur)
    BY DEF Reply, Inv, TableInv, DataInv, PollInv
  <1>2. PICK w \in Writes(http[cur], sock[cur]) :
          /\ sock' = [sock EXCEPT ![cur].room = w.room]
          /\ \/ http' = [http EXCEPT ![cur] = [w.http EXCEPT !.state_ = "URI"]]
             \/ http' = [http EXCEPT ![cur] = w.http]
          /\ \/ events_' = [events_ EXCEPT ![cur] =
                               EventsAfter(w, events_[cur])]
             \/ events_' = [events_ EXCEPT ![cur] =
                               EventsAfter(w, events_[cur]) \cup {"IN"}]
          /\ pc' \in {"read", AfterRead}
    BY DEF Reply, HandleWrite
  <1>3. w.http \in HttpDatas
    BY <1>1, WritesType
  <1>4. /\ http'[cur].ConnectionState_ = w.http.ConnectionState_
        /\ http'[cur].outBuffer_ = w.http.outBuffer_
    BY <1>1, <1>2, <1>3 DEF DataInv, HttpDatas
  <1>5. /\ UNCHANGED <<kern, lastEvents_, tableVars, functorVars, retVars, cur>>
        /\ sock'[cur].rst = sock[cur].rst
        /\ \A c \in Fds \ {cur} : sock'[c] = sock[c] /\ http'[c] = http[c]
    BY <1>1, <1>2 DEF Reply, DataInv, Sockets
  <1>6. Open(cur)' => Open(cur)
    BY <1>1, <1>4, <1>5, WritesState DEF Open
  <1>7. Handled(cur)'
    <2> SUFFICES ASSUME Open(cur)' PROVE Handled(cur)'
      BY DEF Handled
    <2>1. Open(cur) /\ Entry(cur)
      BY <1>6 DEF Open, PollInv
    <2>2. /\ events_[cur] \subseteq {"IN", "OUT"} /\ "IN" \in revents_[cur]
          /\ "IN" \in lastEvents_[cur] /\ "OUT" \notin revents_[cur]
          /\ lastEvents_[cur] = {"IN"} => Edged(cur)
      BY <1>1, <2>1 DEF Handled, Report, Entry, DEFAULT_EVENT, Open
    <2>3. pc' \in {"read", "conn"}
      BY <1>2, <2>2 DEF AfterRead
    <2>4. lastEvents_[cur] = {"IN"} => Edged(cur)'
      BY <1>1, <1>2, <1>5, <2>1, <2>2, RoomOnly DEF Open
    <2>5. /\ events_'[cur] \subseteq {"IN", "OUT"}
          /\ w.http.outBuffer_ > 0 => "OUT" \in events_'[cur]
      BY <1>1, <1>2, <2>2 DEF EventsAfter, DataInv
    <2>6. lastEvents_[cur] # {"OUT"}
      BY <2>2
    <2> QED
      BY <1>4, <1>5, <2>2, <2>3, <2>4, <2>5, <2>6 DEF Handled
  <1>8. pc' \in Handling
    BY <1>2 DEF AfterRead
  <1> QED
    BY <1>1, <1>5, <1>6, <1>7, <1>8, HandlerTouches

LEMMA WriteReadyPolls ==
  ASSUME Inv, DataInv, PollInv, WriteReady
  PROVE  PollInv'
  <1>1. /\ cur \in Fds /\ pc = "write" /\ pc' = "conn"
        /\ sock[cur] \in Sockets /\ http[cur] \in HttpDatas
        /\ Report(cur) /\ Handled(cur)
        /\ UNCHANGED <<kern, lastEvents_, tableVars, functorVars, retVars, cur>>
    BY DEF WriteReady, Inv, TableInv, DataInv, PollInv
  <1>2. CASE http[cur].error_ /\ UNCHANGED <<sock, http, events_>>
    <2>1. Open(cur)' <=> Open(cur)
      BY <1>1, <1>2 DEF Open
    <2>2. Handled(cur)'
      BY <1>1, <1>2, <2>1 DEF Handled
    <2> QED
      BY <1>1, <1>2, <2>1, <2>2, HandlerTouches
  <1>3. CASE \E w \in Writes(http[cur], sock[cur]) :
               /\ sock' = [sock EXCEPT ![cur].room = w.room]
               /\ http' = [http EXCEPT ![cur] = w.http]
               /\ events_' = [events_ EXCEPT ![cur] =
                                EventsAfter(w, events_[cur])]
    <2>1. PICK w \in Writes(http[cur], sock[cur]) :
            /\ sock' = [sock EXCEPT ![cur].room = w.room]
            /\ http' = [http EXCEPT ![cur] = w.http]
            /\ events_' = [events_ EXCEPT ![cur] = EventsAfter(w, events_[cur])]
      BY <1>3
    <2>2. /\ http'[cur] = w.http
          /\ sock'[cur].rst = sock[cur].rst /\ sock'[cur].room = w.room
          /\ events_'[cur] = EventsAfter(w, events_[cur])
          /\ \A c \in Fds \ {cur} : sock'[c] = sock[c] /\ http'[c] = http[c]
      BY <1>1, <2>1 DEF DataInv, Sockets
    <2>3. Open(cur)' => Open(cur)
      BY <1>1, <2>2, WritesState DEF Open
    <2>4. Handled(cur)'
      <3> SUFFICES ASSUME Open(cur)' PROVE Handled(cur)'
        BY DEF Handled
      <3>1. Open(cur) /\ Entry(cur)
        BY <2>3 DEF Open, PollInv
      <3>2. events_[cur] = {} /\ lastEvents_[cur] = {"OUT"}
        BY <1>1, <3>1 DEF Handled
      <3>3. /\ events_'[cur] \subseteq {"OUT"}
            /\ w.http.outBuffer_ > 0 <=> "OUT" \in events_'[cur]
        BY <2>2, <3>2 DEF EventsAfter
      <3>4. kern[cur].interest = {"OUT"}
        BY <3>1, <3>2 DEF Entry, DEFAULT_EVENT, Open
      <3>5. "OUT" \in events_'[cur] => Edged(cur)'
        <4> SUFFICES ASSUME "OUT" \in events_'[cur] PROVE Edged(cur)'
          OBVIOUS
        <4>1. ~sock'[cur].room /\ ~sock'[cur].rst
          BY <1>1, <2>2, <3>1, <3>3, WritesState DEF Open
        <4>2. Reported(kern[cur], sock'[cur]) = {}
          BY <3>4, <4>1 DEF Reported, Ready
        <4> QED
          BY <1>1, <4>2 DEF Edged
      <3> QED
        BY <1>1, <2>2, <3>2, <3>3, <3>5 DEF Handled
    <2> QED
      BY <1>1, <2>2, <2>3, <2>4, HandlerTouches
  <1> QED
    BY <1>2, <1>3 DEF WriteReady, HandleWrite

LEMMA SeperateTimerPolls ==
  ASSUME Inv, DataInv, PollInv, SeperateTimer
  PROVE  PollInv'
  <1>1. /\ cur \in Fds /\ pc = "conn" /\ pc' = "update"
        /\ Report(cur) /\ Handled(cur)
        /\ UNCHANGED <<netVars, http, events_, lastEvents_, tableVars,
                       functorVars, retVars, cur>>
    BY DEF SeperateTimer, Inv, TableInv, PollInv
  <1>2. Open(cur)' <=> Open(cur)
    BY <1>1 DEF Open
  <1>3. Edged(cur)' <=> Edged(cur)
    BY <1>1 DEF Edged, Reported, Ready
  <1>4. Handled(cur)'
    BY <1>1, <1>2, <1>3 DEF Handled
  <1> QED
    BY <1>1, <1>2, <1>4, HandlerTouches

(* epoll_ctl looks at once whether the connection is ready.                *)
LEMMA EpollCtlEdge ==
  ASSUME DataInv, NEW c \in Fds, NEW ev \in SUBSET Flags, EpollCtl(c, ev),
         UNCHANGED sock
  PROVE  /\ kern'[c].reg /\ kern'[c].interest = ev /\ Edged(c)'
         /\ \A d \in Fds \ {c} : kern'[d] = kern[d]
  <1> DEFINE k == [kern[c] EXCEPT !.reg = TRUE, !.interest = ev]
  <1>1. kern[c] \in Entries
    BY DEF DataInv
  <1>2. k.reg /\ k.interest = ev /\ k \in Entries
    BY <1>1 DEF Entries
  <1>3. /\ kern'[c] = Edge(k, sock[c])
        /\ \A d \in Fds \ {c} : kern'[d] = kern[d]
    BY DEF EpollCtl, DataInv
  <1> HIDE DEF k
  <1>4. /\ kern'[c].reg /\ kern'[c].interest = ev
        /\ Reported(k, sock[c]) # {} => kern'[c].onList
    BY <1>2, <1>3 DEF Edge, Entries
  <1>5. Reported(kern'[c], sock'[c]) = Reported(k, sock[c])
    BY <1>2, <1>4 DEF Reported
  <1> QED
    BY <1>3, <1>4, <1>5 DEF Edged

(* A step between the handlers that concerns one connection.               *)
LEMMA OneConnection ==
  ASSUME Inv, PollInv, NEW c \in Fds, c \notin ret,
         cur \in {c, NoFd}, cur' = NoFd, pc' \notin Handling,
         UNCHANGED retVars,
         \A d \in Fds \ {c} :
            /\ sock'[d] = sock[d] /\ kern'[d] = kern[d] /\ http'[d] = http[d]
            /\ lastEvents_'[d] = lastEvents_[d],
         fd2chan_' \subseteq fd2chan_ \cup {c},
         pendingFunctors_' \cup functors'
            \subseteq (pendingFunctors_ \cup functors) \ {c},
         c \in fd2chan_' => Entry(c)' /\ Armed(c)'
  PROVE  PollInv'
  <1>1. fd2chan_ \subseteq Fds /\ ret \subseteq Fds \ {c}
        /\ pendingFunctors_ \cup functors \subseteq Fds
    BY DEF Inv, TableInv, FunctorInv
  <1>2. ASSUME NEW d \in Fds \ {c}
        PROVE  /\ Entry(d) => Entry(d)'
               /\ Armed(d) => Armed(d)'
               /\ Report(d) => Report(d)'
    BY Untouched
  <1>3. \A d \in fd2chan_' : Entry(d)'
    BY <1>1, <1>2 DEF PollInv
  <1>4. \A d \in fd2chan_' \ (ret' \cup {cur'}) : Armed(d)'
    BY <1>1, <1>2 DEF PollInv
  <1>5. \A d \in ret' : Report(d)'
    BY <1>1, <1>2 DEF PollInv
  <1>6. \A d \in pendingFunctors_' \cup functors' : http'[d].outBuffer_ = 0
    BY <1>1 DEF PollInv
  <1> QED
    BY <1>3, <1>4, <1>5, <1>6 DEF PollInv

(* epoll_mod is left out only if the kernel already has the events, and    *)
(* then nothing has happened since the report that raised no edge.         *)
LEMMA UpdatePolls ==
  ASSUME Inv, DataInv, PollInv, NEW c \in Fds, c = cur, c \notin ret,
         c \notin pendingFunctors_ \cup functors, pc = "update",
         pc' = "dispatch", cur' = NoFd,
         UNCHANGED <<sock, http, functorVars, retVars>>,
         ~http[c].error_, http[c].ConnectionState_ = "CONNECTED",
         NEW wanted \in SUBSET Flags,
         wanted = (IF events_[c] = {} THEN {"IN"}
                   ELSE IF {"IN", "OUT"} \subseteq events_[c]
                        THEN {"OUT"} ELSE events_[c]),
         EpollMod(c, wanted)
  PROVE  PollInv'
  <1>1. Report(c) /\ Handled(c)
    BY DEF PollInv
  <1>2. /\ lastEvents_'[c] = wanted
        /\ \A d \in Fds \ {c} : lastEvents_'[d] = lastEvents_[d]
    BY DEF EpollMod, DataInv
  <1>3. c \in fd2chan_ /\ ~sock[c].rst =>
          /\ wanted \in {{"IN"}, {"OUT"}}
          /\ http[c].outBuffer_ > 0 => wanted = {"OUT"}
          /\ lastEvents_[c] = wanted => Edged(c)
    <2> SUFFICES ASSUME c \in fd2chan_, ~sock[c].rst
                 PROVE  /\ wanted \in {{"IN"}, {"OUT"}}
                        /\ http[c].outBuffer_ > 0 => wanted = {"OUT"}
                        /\ lastEvents_[c] = wanted => Edged(c)
      OBVIOUS
    <2>1. /\ events_[c] \subseteq {"IN", "OUT"}
          /\ lastEvents_[c] = {"IN"} => Edged(c)
          /\ lastEvents_[c] = {"OUT"} /\ "OUT" \in events_[c] => Edged(c)
          /\ http[c].outBuffer_ > 0 => "OUT" \in events_[c]
      BY <1>1 DEF Handled, Open
    <2>2. /\ "OUT" \in events_[c] => wanted = {"OUT"}
          /\ "OUT" \notin events_[c] => wanted = {"IN"}
      BY <2>1
    <2> QED
      BY <2>1, <2>2
  <1>4. CASE lastEvents_[c] = wanted /\ UNCHANGED <<kern, fd2chan_>>
    <2>1. Open(c)' <=> Open(c)
      BY <1>4 DEF Open
    <2>2. Edged(c) => Edged(c)'
      BY <1>4 DEF Edged
    <2>3. c \in fd2chan_ => Entry(c) /\ Entry(c)'
      BY <1>2, <1>4 DEF PollInv, Entry
    <2>4. Open(c) => kern[c].interest = wanted
      BY <1>3, <1>4, <2>3 DEF Open, Entry, DEFAULT_EVENT
    <2>5. Armed(c)'
      BY <1>2, <1>3, <1>4, <2>1, <2>2, <2>4 DEF Armed, Open
    <2> QED
      BY <1>2, <1>4, <2>3, <2>5, OneConnection
  <1>5. CASE EpollCtl(c, wanted) /\ UNCHANGED fd2chan_
    <2>1. /\ kern'[c].reg /\ kern'[c].interest = wanted
          /\ Edged(c)'
          /\ \A d \in Fds \ {c} : kern'[d] = kern[d]
      BY <1>1, <1>5, EpollCtlEdge
    <2>2. Open(c)' <=> Open(c)
      BY <1>5 DEF Open
    <2>3. Open(c) => Armed(c)'
      BY <1>2, <1>3, <2>1 DEF Armed, Open
    <2>4. Armed(c)'
      BY <2>2, <2>3 DEF Armed
    <2>5. c \in fd2chan_' => Entry(c)'
      BY <1>2, <1>3, <1>5, <2>1 DEF Entry
    <2> QED
      BY <1>2, <1>5, <2>1, <2>4, <2>5, OneConnection
  <1>6. CASE EpollFails(c)
    <2>1. UNCHANGED kern /\ fd2chan_' = fd2chan_ \ {c}
      BY <1>6 DEF EpollFails
    <2> QED
      BY <1>2, <2>1, OneConnection
  <1> QED
    BY <1>4, <1>5, <1>6 DEF EpollMod

LEMMA HandleConnPolls ==
  ASSUME Inv, DataInv, PollInv, HandleConn
  PROVE  PollInv'
  <1>1. PICK c \in Fds :
        /\ c = cur /\ c \notin ret /\ pc = "update"
        /\ c \notin pendingFunctors_ \cup functors
        /\ Report(c) /\ Handled(c)
    BY DEF HandleConn, Inv, TableInv, FunctorInv, PollInv
  <1>2. /\ pc' = "dispatch" /\ cur' = NoFd
        /\ UNCHANGED <<sock, functorVars, retVars>>
    BY DEF HandleConn
  <1>3. CASE /\ ~http[c].error_ /\ UNCHANGED http
             /\ EpollMod(c, IF events_[c] = {} THEN {"IN"}
                              ELSE IF {"IN", "OUT"} \subseteq events_[c]
                                   THEN {"OUT"} ELSE events_[c])
             /\ http[c].ConnectionState_ = "CONNECTED"
    <2>1. PICK wanted \in SUBSET Flags :
            /\ wanted = (IF events_[c] = {} THEN {"IN"}
                         ELSE IF {"IN", "OUT"} \subseteq events_[c]
                              THEN {"OUT"} ELSE events_[c])
            /\ EpollMod(c, wanted)
      BY <1>1, <1>3 DEF DataInv, Flags
    <2> QED
      BY <1>1, <1>2, <1>3, <2>1, UpdatePolls
  <1>4. CASE /\ http[c].ConnectionState_ = "DISCONNECTING"
             /\ UNCHANGED <<http, kern, lastEvents_, tableVars>>
    <2>1. Armed(c)'
      BY <1>4 DEF Armed, Open
    <2>2. c \in fd2chan_' => Entry(c)'
      BY <1>2, <1>4 DEF Entry, PollInv
    <2> QED
      BY <1>1, <1>2, <1>4, <2>1, <2>2, OneConnection
  <1>5. CASE HandleClose(c)
    <2>1. /\ fd2chan_' = fd2chan_ \ {c} /\ UNCHANGED lastEvents_
          /\ \A d \in Fds \ {c} : http'[d] = http[d] /\ kern'[d] = kern[d]
      BY <1>5 DEF HandleClose, EpollDel, DataInv
    <2> QED
      BY <1>1, <1>2, <2>1, OneConnection
  <1> QED
    BY <1>1, <1>3, <1>4, <1>5 DEF HandleConn

(* The steps between the handlers that leave the connections alone.        *)
LEMMA IdlePolls ==
  ASSUME Inv, DataInv, PollInv,
         UNCHANGED <<netVars, http, lastEvents_, tableVars, retVars, cur>>,
         pendingFunctors_' \cup functors' \subseteq pendingFunctors_ \cup functors,
         pc' \notin Handling \/ (pc' = pc /\ UNCHANGED events_)
  PROVE  PollInv'
  <1>1. fd2chan_ \subseteq Fds /\ ret \subseteq Fds
        /\ pendingFunctors_ \cup functors \subseteq Fds
        /\ (pc \in Handling => cur \in Fds)
    BY DEF Inv, TableInv, FunctorInv
  <1>2. ASSUME NEW d \in Fds
        PROVE  /\ Entry(d) => Entry(d)'
               /\ Armed(d) => Armed(d)'
               /\ Report(d) => Report(d)'
               /\ pc' = pc /\ UNCHANGED events_ /\ Handled(d) => Handled(d)'
    BY Untouched
  <1>3. \A d \in fd2chan_' : Entry(d)'
    BY <1>1, <1>2 DEF PollInv
  <1>4. \A d \in fd2chan_' \ (ret' \cup {cur'}) : Armed(d)'
    BY <1>1, <1>2 DEF PollInv
  <1>5. \A d \in ret' : Report(d)'
    BY <1>1, <1>2 DEF PollInv
  <1>6. \A d \in pendingFunctors_' \cup functors' : http'[d].outBuffer_ = 0
    BY <1>1 DEF PollInv
  <1>7. pc' \in Handling => Report(cur)' /\ Handled(cur)'
    <2> SUFFICES ASSUME NEW d \in Fds, d = cur, pc \in Handling,
                        pc' = pc, UNCHANGED events_
                 PROVE  Report(d)' /\ Handled(d)'
      BY <1>1
    <2> QED
      BY <1>2 DEF PollInv
  <1> QED
    BY <1>3, <1>4, <1>5, <1>6, <1>7 DEF PollInv

(* newEvent registers a connection that has no output yet, or fails.       *)
LEMMA NewEventPolls ==
  ASSUME Inv, DataInv, PollInv, NEW c \in Fds, NewEvent(c)
  PROVE  PollInv'
  <1>1. /\ pc = "functors" /\ pc' = "functors" /\ c \in functors
        /\ cur = NoFd /\ cur' = NoFd /\ ret = {}
        /\ c \notin pendingFunctors_
        /\ functors' = functors \ {c}
        /\ UNCHANGED <<sock, http, pendingFunctors_, retVars>>
    BY DEF NewEvent, Inv, TableInv, FunctorInv
  <1>2. http[c].outBuffer_ = 0
    BY <1>1 DEF PollInv
  <1>3. /\ lastEvents_'[c] = DEFAULT_EVENT
        /\ \A d \in Fds \ {c} : lastEvents_'[d] = lastEvents_[d]
    BY DEF NewEvent, EpollAdd, DataInv
  <1>4. CASE EpollCtl(c, DEFAULT_EVENT) /\ fd2chan_' = fd2chan_ \cup {c}
    <2>1. DEFAULT_EVENT \in SUBSET Flags
      BY DEF DEFAULT_EVENT, Flags
    <2>2. /\ kern'[c].reg /\ kern'[c].interest = DEFAULT_EVENT /\ Edged(c)'
          /\ \A d \in Fds \ {c} : kern'[d] = kern[d]
      BY <1>1, <1>4, <2>1, EpollCtlEdge
    <2>3. Entry(c)' /\ Armed(c)'
      BY <1>1, <1>2, <1>3, <2>2 DEF Entry, Armed
    <2> QED
      BY <1>1, <1>3, <1>4, <2>2, <2>3, OneConnection
  <1>5. CASE EpollFails(c)
    <2>1. UNCHANGED kern /\ fd2chan_' = fd2chan_ \ {c}
      BY <1>5 DEF EpollFails
    <2> QED
      BY <1>1, <1>3, <2>1, OneConnection
  <1> QED
    BY <1>4, <1>5 DEF NewEvent, EpollAdd

LEMMA ExpirePolls ==
  ASSUME Inv, DataInv, PollInv, NEW c \in Fds, Expire(c)
  PROVE  PollInv'
  <1>1. /\ pc = "expire" /\ pc' = "expire" /\ cur = NoFd /\ cur' = NoFd
        /\ ret = {} /\ c \notin pendingFunctors_ \cup functors
        /\ UNCHANGED <<sock, functorVars, retVars>>
    BY DEF Expire, Inv, TableInv, TimerInv, FunctorInv
  <1>2. /\ fd2chan_' = fd2chan_ \ {c} /\ UNCHANGED lastEvents_
        /\ \A d \in Fds \ {c} : http'[d] = http[d] /\ kern'[d] = kern[d]
    BY DEF Expire, HandleClose, EpollDel, DataInv
  <1> QED
    BY <1>1, <1>2, OneConnection

LEMMA NextPolls ==
  ASSUME Inv, DataInv, PollInv, [Next]_vars
  PROVE  PollInv'
  <1>1. CASE UNCHANGED vars
    BY <1>1, IdlePolls DEF vars
  <1>2. CASE Poll
    BY <1>2, PollPolls
  <1>3. CASE HandleRead \/ Reply \/ WriteReady \/ SeperateTimer \/ HandleConn
    BY <1>3, HandleReadPolls, ReplyPolls, WriteReadyPolls,
       SeperateTimerPolls, HandleConnPolls
  <1>4. CASE TakeFunctors
    BY <1>4, IdlePolls DEF TakeFunctors
  <1>5. CASE EndFunctors
    BY <1>5, IdlePolls DEF EndFunctors
  <1>6. CASE EndExpire
    BY <1>6, IdlePolls DEF EndExpire
  <1>7. CASE Nudge \/ ClockStartsAgain
    BY <1>7, IdlePolls DEF Nudge, ClockStartsAgain
  <1>8. ASSUME NEW c \in Fds, HandleEvents(c) \/ NewEvent(c) \/ Expire(c)
        PROVE  PollInv'
    BY <1>8, HandleEventsPolls, NewEventPolls, ExpirePolls
  <1>9. ASSUME NEW c \in Fds, Send(c) \/ Fin(c) \/ Rst(c) \/ Drain(c)
        PROVE  PollInv'
    BY <1>9, PeerPolls
  <1>10. ASSUME NEW c \in Fds, Accept(c)
         PROVE  PollInv'
    BY <1>10, AcceptPolls
  <1>11. ASSUME NEW c \in Fds, Tick(c)
         PROVE  PollInv'
    BY <1>11, IdlePolls DEF Tick
  <1> QED
    BY <1>1, <1>2, <1>3, <1>4, <1>5, <1>6, <1>7, <1>8, <1>9, <1>10, <1>11
       DEF Next, LoopStep

(* While epoll waits, the kernel has the events updatePoller last asked    *)
(* for, and EPOLLOUT among them if output is left: also when epoll_mod was *)
(* skipped because lastEvents_ says that nothing changes.                  *)
THEOREM ConnectionsArePolled == SafeSpec => []PolledAsNeeded
  <1>1. ASSUME Inv, PollInv PROVE PolledAsNeeded
    <2> SUFFICES ASSUME pc = "poll", NEW c \in fd2chan_, Open(c)
                 PROVE  /\ kern[c].reg
                        /\ lastEvents_[c] = kern[c].interest
                        /\ kern[c].interest \cap {"IN", "OUT"} # {}
                        /\ http[c].outBuffer_ > 0 => "OUT" \in kern[c].interest
      BY DEF PolledAsNeeded, Open
    <2>1. Entry(c) /\ Armed(c)
      BY <1>1 DEF PollInv, Inv, TableInv
    <2>2. /\ kern[c].reg
          /\ lastEvents_[c] \in {DEFAULT_EVENT, {"IN"}, {"OUT"}}
      BY <2>1 DEF Entry, Open
    <2>3. /\ kern[c].interest = lastEvents_[c]
          /\ http[c].outBuffer_ > 0 => "OUT" \in kern[c].interest
      BY <2>1 DEF Armed
    <2> QED
      BY <2>2, <2>3 DEF DEFAULT_EVENT
  <1> QED
    BY <1>1, InitInv, InitData, InitPoll, NextPreserves, NextData, NextPolls,
       PTL DEF SafeSpec

(* While epoll waits, a connection that could go on still has its edge: no *)
(* handler has stopped short of EAGAIN, and epoll_mod raised every edge a  *)
(* handler may have missed.                                                *)
THEOREM EdgesAreKept == SafeSpec => []EdgeKept
  <1>1. ASSUME Inv, PollInv PROVE EdgeKept
    <2> SUFFICES ASSUME pc = "poll", NEW c \in fd2chan_, Open(c)
                 PROVE  Edged(c)
      BY DEF EdgeKept, Open, Edged
    <2>1. Armed(c)
      BY <1>1 DEF PollInv, Inv, TableInv
    <2> QED
      BY <2>1 DEF Armed
  <1> QED
    BY <1>1, InitInv, InitData, InitPoll, NextPreserves, NextData, NextPolls,
       PTL DEF SafeSpec

=============================================================================
