----------------------------- MODULE TimerManager -----------------------------
(***************************************************************************)
(* The timers of one sub-reactor (Timer.cpp), with the clock they read:    *)
(* Connection.tla lets a timer become overdue at any time, this module     *)
(* says when.  A TimerNode keeps the time of day, modulo 10000 seconds, at *)
(* which it expires; TimerManager keeps the nodes in a priority queue and  *)
(* handleExpiredEvent pops them from its top.  A node whose request has    *)
(* been answered is only marked and stays in the queue.                    *)
(*                                                                         *)
(* The unit of time is arbitrary.  The loop sweeps the queue at least once *)
(* in Slack units, as it does while its connections are busy.              *)
(***************************************************************************)
EXTENDS Integers

CONSTANTS
    Conns,          \* the HttpData of the loop
    NoConn,
    Nodes,          \* bound: TimerNodes in the queue at a time
    NoNode,
    Period,         \* the clock counts 0 .. Period - 1 and starts again
    Timeouts,       \* DEFAULT_EXPIRED_TIME, DEFAULT_KEEP_ALIVE_TIME, its half
    Slack,          \* the clock's ticks between two sweeps, at most
    MaxWait         \* bound: ticks a node waits

ASSUME NoneAssumption == NoConn \notin Conns /\ NoNode \notin Nodes
ASSUME ClockAssumption ==
    /\ Period \in Nat \ {0} /\ Slack \in Nat \ {0} /\ MaxWait \in Nat
    /\ Timeouts \subseteq Nat \ {0}

VARIABLES
    clock,          \* gettimeofday: tv_sec % 10000 in ms, plus tv_usec / 1000
    heap,           \* timerNodeQueue, as the set of its nodes
    SPHttpData,     \* of each node: its connection, NoConn once cleared
    expiredTime_, deleted_,
    timer_,         \* of each connection: the node it points to
    pc,             \* whether handleExpiredEvent is running
    owner, timeout, \* of each node: what addTimer was given
    waited,         \* of each node: ticks since addTimer, until it is cleared
    unswept         \* ticks since the last sweep ended

nodeVars == <<heap, SPHttpData, expiredTime_, deleted_, timer_>>
ghostVars == <<owner, timeout, waited>>
clockVars == <<clock, unswept>>
vars == <<nodeVars, pc, ghostVars, clockVars>>

Live(n) == n \in heap /\ SPHttpData[n] # NoConn

Init ==
    /\ clock \in 0 .. Period - 1
    /\ heap = {}
    /\ SPHttpData = [n \in Nodes |-> NoConn]
    /\ expiredTime_ = [n \in Nodes |-> 0]
    /\ deleted_ = [n \in Nodes |-> FALSE]
    /\ timer_ = [c \in Conns |-> NoNode]
    /\ pc = "handle"
    /\ owner = [n \in Nodes |-> NoConn]
    /\ timeout = [n \in Nodes |-> 0]
    /\ waited = [n \in Nodes |-> 0]
    /\ unswept = 0

\* Time passes, in the handlers and in the sweep alike.
Tick ==
    /\ unswept < Slack
    /\ \A n \in Nodes : waited[n] < MaxWait
    /\ unswept' = unswept + 1
    /\ clock' = (clock + 1) % Period
    /\ waited' = [n \in Nodes |-> IF Live(n) THEN waited[n] + 1 ELSE waited[n]]
    /\ UNCHANGED <<nodeVars, pc, owner, timeout>>

\* expiredTime_: the clock is reduced modulo the period, the sum is not.
ExpiresAt(t) == clock + t

\* addTimer, with the constructor of TimerNode.  epoll_add and epoll_mod
\* call it for a connection that has no timer: a new one, or one that
\* seperateTimer has been called for.
AddTimer(c, t, n) ==
    /\ pc = "handle"
    /\ timer_[c] = NoNode
    /\ n \notin heap
    /\ heap' = heap \cup {n}
    /\ SPHttpData' = [SPHttpData EXCEPT ![n] = c]
    /\ deleted_' = [deleted_ EXCEPT ![n] = FALSE]
    /\ expiredTime_' = [expiredTime_ EXCEPT ![n] = ExpiresAt(t)]
    /\ timer_' = [timer_ EXCEPT ![c] = n]
    /\ owner' = [owner EXCEPT ![n] = c]
    /\ timeout' = [timeout EXCEPT ![n] = t]
    /\ waited' = [waited EXCEPT ![n] = 0]
    /\ UNCHANGED <<pc, clockVars>>

\* The node is marked but keeps its shared_ptr.
MutantClearKeepsRequest(c) ==
    LET n == timer_[c]
    IN  /\ pc = "handle"
        /\ n # NoNode
        /\ deleted_' = [deleted_ EXCEPT ![n] = TRUE]
        /\ timer_' = [timer_ EXCEPT ![c] = NoNode]
        /\ UNCHANGED <<heap, SPHttpData, expiredTime_, pc, ghostVars, clockVars>>

\* seperateTimer and reset of an HttpData, with the clearReq they call.
ClearReq(c) ==
    LET n == timer_[c]
    IN  /\ pc = "handle"
        /\ n # NoNode
        /\ SPHttpData' = [SPHttpData EXCEPT ![n] = NoConn]
        /\ deleted_' = [deleted_ EXCEPT ![n] = TRUE]
        /\ timer_' = [timer_ EXCEPT ![c] = NoNode]
        /\ timeout' = [timeout EXCEPT ![n] = 0]
        /\ waited' = [waited EXCEPT ![n] = 0]
        /\ UNCHANGED <<heap, expiredTime_, pc, owner, clockVars>>

\* handleExpiredEvent,
StartSweep ==
    /\ pc = "handle"
    /\ pc' = "sweep"
    /\ UNCHANGED <<nodeVars, ghostVars, clockVars>>

Top(n) == n \in heap /\ \A m \in heap : expiredTime_[n] <= expiredTime_[m]

\* isValid: the clock is read again for each node.
IsValid(n) == clock < expiredTime_[n]

\* one node of it: a node that is marked, or that has expired, is popped,
\* and if it still holds an HttpData its destructor closes that.  timer_ is
\* a weak_ptr and finds the node no longer.
PopExpired(n) ==
    /\ pc = "sweep"
    /\ Top(n)
    /\ deleted_[n] \/ ~IsValid(n)
    /\ heap' = heap \ {n}
    /\ timer_' = [c \in Conns |-> IF timer_[c] = n THEN NoNode ELSE timer_[c]]
    /\ SPHttpData' = [SPHttpData EXCEPT ![n] = NoConn]
    /\ deleted_' = [deleted_ EXCEPT ![n] = FALSE]
    /\ expiredTime_' = [expiredTime_ EXCEPT ![n] = 0]
    /\ owner' = [owner EXCEPT ![n] = NoConn]
    /\ timeout' = [timeout EXCEPT ![n] = 0]
    /\ waited' = [waited EXCEPT ![n] = 0]
    /\ UNCHANGED <<pc, clockVars>>

MutantOnePopPerSweep ==
    /\ pc = "sweep"
    /\ pc' = "handle"
    /\ unswept' = 0
    /\ UNCHANGED <<nodeVars, ghostVars, clock>>

\* and its end, at the first node that is neither.  Of nodes with the same
\* expiry time any may be at the top.
EndSweep ==
    /\ pc = "sweep"
    /\ heap = {} \/ \E n \in heap : Top(n) /\ ~deleted_[n] /\ IsValid(n)
    /\ pc' = "handle"
    /\ unswept' = 0
    /\ UNCHANGED <<nodeVars, ghostVars, clock>>

Next ==
    \/ Tick
    \/ \E c \in Conns :
          \/ \E t \in Timeouts, n \in Nodes : AddTimer(c, t, n)
          \/ ClearReq(c)
    \/ StartSweep
    \/ \E n \in Nodes : PopExpired(n)
    \/ EndSweep

Spec == Init /\ [][Next]_vars

-----------------------------------------------------------------------------
\* To a connection its timer is overdue when the node is not valid any more.
TimerOf(c) == IF timer_[c] = NoNode THEN "none"
              ELSE IF IsValid(timer_[c]) THEN "running" ELSE "overdue"

Timers == INSTANCE ConnectionTimers WITH
              timer <- [c \in Conns |-> TimerOf(c)], sweeping <- pc = "sweep"

\* What Connection is written against: through marked nodes that stay in the
\* queue, nodes that expire while they are swept and a clock that goes around,
\* a sweep closes those connections whose time is over, all of them, and no
\* others.
ImplementsTimers == Timers!Spec

\* The types.  An expiry time is a size_t: it is never before zero.
TypeOK ==
    /\ clock \in 0 .. Period - 1
    /\ heap \subseteq Nodes
    /\ SPHttpData \in [Nodes -> Conns \cup {NoConn}]
    /\ expiredTime_ \in [Nodes -> Nat]
    /\ deleted_ \in [Nodes -> BOOLEAN]
    /\ timer_ \in [Conns -> Nodes \cup {NoNode}]
    /\ pc \in {"handle", "sweep"}
    /\ owner \in [Nodes -> Conns \cup {NoConn}]
    /\ timeout \in [Nodes -> Nat]
    /\ waited \in [Nodes -> Nat]
    /\ unswept \in 0 .. Slack

\* A connection is closed by a timer only after the timeout it was given:
\* neither a node that was cleared nor a clock that has started again cuts
\* the wait short.
NeverEarly ==
    [][\A n \in heap : n \notin heap' /\ Live(n) => waited[n] >= timeout[n]]_vars

\* A node that is due in this period of the clock is not late by more than
\* the gap between two sweeps, whatever marked nodes and longer timeouts
\* stand in the queue with it.
OnTime ==
    \A n \in heap : Live(n) /\ expiredTime_[n] + Slack < Period =>
                       waited[n] < timeout[n] + Slack

\* A node can be deleted once it is at the head and has timed out
\* (README.md:39).  For a node made so shortly before the clock starts again
\* that its expiry time lies beyond the period, too, the head comes, and its
\* time is over, no later than the gap between two sweeps after its timeout.
EveryTimerOnTime ==
    \A n \in heap : Live(n) /\ expiredTime_[n] >= Period =>
                       waited[n] < timeout[n] + Slack

\* The invariant behind NeverEarly and OnTime: what a node waited accounts
\* for the clock, and with no period in between exactly; what was valid when
\* the last sweep ended has expired since.
ClockInv ==
    /\ TypeOK
    /\ \A n \in heap :
          Live(n) =>
            /\ ~deleted_[n]
            /\ clock <= waited[n] + expiredTime_[n] - timeout[n]
            /\ expiredTime_[n] + Slack < Period =>
                 /\ clock = waited[n] + expiredTime_[n] - timeout[n]
                 /\ clock < expiredTime_[n] + unswept
=============================================================================
