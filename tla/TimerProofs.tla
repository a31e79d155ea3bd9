------------------------------ MODULE TimerProofs ------------------------------
(***************************************************************************)
(* Theorems about TimerManager for any period, any timeouts and any number *)
(* of connections and nodes.  ClockInv is inductive: the clock never gets  *)
(* ahead of what a node has waited, because starting again only takes it   *)
(* back; and a node due in the current period is popped before that.       *)
(***************************************************************************)
EXTENDS TimerManager, TLAPS

USE NoneAssumption, ClockAssumption DEF nodeVars, ghostVars, clockVars, Live

(* The clock's next value.                                                 *)
LEMMA ClockAdvances ==
  ASSUME NEW x \in 0 .. Period - 1
  PROVE  (x + 1) % Period = IF x + 1 = Period THEN 0 ELSE x + 1
  OBVIOUS

(* What a node holds is a number.                                          *)
LEMMA Numbers ==
  ASSUME TypeOK, NEW n \in heap
  PROVE  /\ n \in Nodes
         /\ waited[n] \in Nat /\ expiredTime_[n] \in Nat /\ timeout[n] \in Nat
         /\ clock \in Nat /\ unswept \in 0 .. Slack
  BY DEF TypeOK

LEMMA InitInv == Init => ClockInv
  BY DEF Init, ClockInv, TypeOK

LEMMA TickPreserves ==
  ASSUME ClockInv, Tick
  PROVE  ClockInv'
  <1> USE DEF ClockInv, TypeOK, Tick
  <1>1. clock' = IF clock + 1 = Period THEN 0 ELSE clock + 1
    BY ClockAdvances
  <1>2. TypeOK'
    BY <1>1
  <1>3. ASSUME NEW n \in heap, Live(n)
        PROVE  /\ ~deleted_[n]
               /\ clock' <= waited'[n] + expiredTime_[n] - timeout[n]
               /\ expiredTime_[n] + Slack < Period =>
                    /\ clock' = waited'[n] + expiredTime_[n] - timeout[n]
                    /\ clock' < expiredTime_[n] + unswept'
    <2>1. /\ waited'[n] = waited[n] + 1
          /\ unswept' = unswept + 1 /\ unswept < Slack
          /\ waited[n] \in Nat /\ expiredTime_[n] \in Nat /\ timeout[n] \in Nat
      BY <1>3, Numbers
    <2>2. /\ clock <= waited[n] + expiredTime_[n] - timeout[n]
          /\ expiredTime_[n] + Slack < Period =>
               /\ clock = waited[n] + expiredTime_[n] - timeout[n]
               /\ clock < expiredTime_[n] + unswept
      BY <1>3
    <2> QED
      BY <1>1, <2>1, <2>2
  <1> QED
    BY <1>2, <1>3

LEMMA AddTimerPreserves ==
  ASSUME ClockInv, NEW c \in Conns, NEW t \in Timeouts, NEW n \in Nodes,
         AddTimer(c, t, n)
  PROVE  ClockInv'
  <1> USE DEF ClockInv, TypeOK, AddTimer, ExpiresAt
  <1>1. TypeOK'
    OBVIOUS
  <1>2. ASSUME NEW m \in heap', Live(m)'
        PROVE  /\ ~deleted_'[m]
               /\ clock <= waited'[m] + expiredTime_'[m] - timeout'[m]
               /\ expiredTime_'[m] + Slack < Period =>
                    /\ clock = waited'[m] + expiredTime_'[m] - timeout'[m]
                    /\ clock < expiredTime_'[m] + unswept
    <2>1. CASE m = n
      BY <2>1
    <2>2. CASE m # n
      BY <1>2, <2>2
    <2> QED
      BY <2>1, <2>2
  <1> QED
    BY <1>1, <1>2

LEMMA ClearReqPreserves ==
  ASSUME ClockInv, NEW c \in Conns, ClearReq(c)
  PROVE  ClockInv'
  <1> USE DEF ClockInv, TypeOK, ClearReq
  <1>1. TypeOK'
    OBVIOUS
  <1> QED
    BY <1>1

LEMMA PopExpiredPreserves ==
  ASSUME ClockInv, NEW n \in Nodes, PopExpired(n)
  PROVE  ClockInv'
  <1> USE DEF ClockInv, TypeOK, PopExpired
  <1>1. TypeOK'
    OBVIOUS
  <1> QED
    BY <1>1

(* The sweep ends at a node that is valid: so are all behind it.           *)
LEMMA EndSweepPreserves ==
  ASSUME ClockInv, EndSweep
  PROVE  ClockInv'
  <1> USE DEF ClockInv, TypeOK, EndSweep
  <1>1. \A m \in heap : clock < expiredTime_[m]
    BY DEF Top, IsValid
  <1> QED
    BY <1>1

LEMMA NextPreserves ==
  ASSUME ClockInv, [Next]_vars
  PROVE  ClockInv'
  <1>1. CASE UNCHANGED vars
    BY <1>1 DEF vars, ClockInv, TypeOK
  <1>2. CASE StartSweep
    BY <1>2 DEF StartSweep, ClockInv, TypeOK
  <1> QED
    BY <1>1, <1>2, TickPreserves, AddTimerPreserves, ClearReqPreserves,
       PopExpiredPreserves, EndSweepPreserves DEF Next

(* The accounts of clock and waiting times balance in every state.         *)
THEOREM Invariance == Spec => []ClockInv
  <1> QED
    BY InitInv, NextPreserves, PTL DEF Spec

(* The variables keep their types; a sweep is never overdue.               *)
THEOREM TypeCorrect == Spec => []TypeOK
  <1>1. ClockInv => TypeOK
    BY DEF ClockInv
  <1> QED
    BY <1>1, Invariance, PTL

(* handleExpiredEvent closes no connection before its timeout is over,     *)
(* however often the clock has started again.                              *)
THEOREM NoTimerIsEarly == Spec => NeverEarly
  <1>1. ClockInv /\ [Next]_vars =>
          [\A n \in heap : n \notin heap' /\ Live(n) => waited[n] >= timeout[n]]_vars
    <2> SUFFICES ASSUME ClockInv, Next, NEW n \in heap, n \notin heap', Live(n)
                 PROVE  waited[n] >= timeout[n]
      OBVIOUS
    <2>1. PopExpired(n)
      BY DEF Next, Tick, AddTimer, ClearReq, StartSweep, PopExpired, EndSweep
    <2> QED
      BY <2>1, Numbers DEF PopExpired, IsValid, ClockInv
  <1> QED
    BY <1>1, Invariance, PTL DEF Spec, NeverEarly

(* A timer due in the present period is at most Slack late, whatever else  *)
(* the priority queue holds.                                               *)
THEOREM TimersAreOnTime == Spec => []OnTime
  <1>1. ClockInv => OnTime
    BY Numbers DEF ClockInv, OnTime
  <1> QED
    BY <1>1, Invariance, PTL

-----------------------------------------------------------------------------
(* The timers as connections see them (ConnectionTimers).                  *)

\* A connection's node is in the queue, unmarked, and its own.
OwnNode(c) ==
    timer_[c] # NoNode =>
        /\ timer_[c] \in heap
        /\ SPHttpData[timer_[c]] = c
        /\ ~deleted_[timer_[c]]

LinkInv ==
    /\ TypeOK
    /\ \A n \in heap : expiredTime_[n] > 0
    /\ \A c \in Conns : OwnNode(c)

LEMMA InitLink == Init => LinkInv
  BY DEF Init, LinkInv, TypeOK, OwnNode

(* Two connections never have the same node, so what is done to one of     *)
(* them by clearReq or by its expiry leaves the others as they are.        *)
LEMMA NextLink ==
  ASSUME LinkInv, TypeOK', [Next]_vars
  PROVE  LinkInv'
  <1> USE DEF LinkInv, TypeOK, OwnNode
  <1>1. CASE UNCHANGED nodeVars
    BY <1>1
  <1>2. ASSUME NEW c \in Conns, NEW t \in Timeouts, NEW n \in Nodes, AddTimer(c, t, n)
        PROVE  LinkInv'
    <2>1. \A m \in heap' : expiredTime_'[m] > 0
      BY <1>2 DEF AddTimer, ExpiresAt
    <2>2. ASSUME NEW d \in Conns PROVE OwnNode(d)'
      BY <1>2 DEF AddTimer
    <2> QED
      BY <2>1, <2>2
  <1>3. ASSUME NEW c \in Conns, ClearReq(c)
        PROVE  LinkInv'
    <2>1. ASSUME NEW d \in Conns PROVE OwnNode(d)'
      BY <1>3 DEF ClearReq
    <2> QED
      BY <1>3, <2>1 DEF ClearReq
  <1>4. ASSUME NEW n \in Nodes, PopExpired(n)
        PROVE  LinkInv'
    <2>1. ASSUME NEW d \in Conns PROVE OwnNode(d)'
      BY <1>4 DEF PopExpired
    <2> QED
      BY <1>4, <2>1 DEF PopExpired
  <1> QED
    BY <1>1, <1>2, <1>3, <1>4 DEF Next, vars, Tick, StartSweep, EndSweep

LEMMA InitImplements == Init => Timers!Init
  BY DEF Init, Timers!Init, TimerOf, IsValid

(* A tick that is not the last of the period makes some timers overdue;    *)
(* the last makes none so, and takes back what had become of the others.   *)
LEMMA TickImplements ==
  ASSUME LinkInv, Tick
  PROVE  Timers!Elapse({c \in Conns : TimerOf(c) = "running" /\ TimerOf(c)' = "overdue"})
         \/ Timers!StartAgain
  <1> DEFINE C == {c \in Conns : TimerOf(c) = "running" /\ TimerOf(c)' = "overdue"}
  <1>1. UNCHANGED <<nodeVars, pc>>
    BY DEF Tick
  <1>2. clock \in 0 .. Period - 1 /\ clock' = (clock + 1) % Period
    BY DEF Tick, LinkInv, TypeOK
  <1>3. clock' = IF clock + 1 = Period THEN 0 ELSE clock + 1
    BY <1>2, ClockAdvances
  <1>4. ASSUME NEW c \in Conns, timer_[c] # NoNode
        PROVE  expiredTime_[timer_[c]] \in Nat \ {0}
    BY <1>4 DEF LinkInv, OwnNode, TypeOK
  <1>5. CASE clock + 1 = Period
    <2>1. ASSUME NEW c \in Conns
          PROVE  TimerOf(c)' = IF TimerOf(c) = "none" THEN "none" ELSE "running"
      BY <1>1, <1>3, <1>4, <1>5, <2>1 DEF TimerOf, IsValid
    <2> QED
      BY <1>1, <2>1 DEF Timers!StartAgain
  <1>6. CASE clock + 1 # Period
    <2>1. ASSUME NEW c \in Conns, c \notin C PROVE TimerOf(c)' = TimerOf(c)
      BY <1>1, <1>2, <1>3, <1>4, <1>6, <2>1 DEF TimerOf, IsValid
    <2>2. [c \in Conns |-> TimerOf(c)]' =
            [c \in Conns |-> IF c \in C THEN "overdue" ELSE TimerOf(c)]
      BY <2>1
    <2> QED
      BY <1>1, <2>2 DEF Timers!Elapse
  <1> QED
    BY <1>5, <1>6

LEMMA NextImplements ==
  ASSUME LinkInv, [Next]_vars
  PROVE  [Timers!Next]_Timers!vars
  <1> USE DEF LinkInv, TypeOK, OwnNode
  <1>1. CASE UNCHANGED vars
    BY <1>1 DEF vars, Timers!vars, TimerOf, IsValid
  <1>2. CASE Tick
    <2>1. {c \in Conns : TimerOf(c) = "running" /\ TimerOf(c)' = "overdue"}
            \in SUBSET Conns
      OBVIOUS
    <2> QED
      BY <1>2, <2>1, TickImplements DEF Timers!Next
  <1>3. ASSUME NEW c \in Conns, NEW t \in Timeouts, NEW n \in Nodes, AddTimer(c, t, n)
        PROVE  Timers!Add(c)
    <2>1. ~(pc = "sweep") /\ UNCHANGED pc /\ TimerOf(c) = "none"
      BY <1>3 DEF AddTimer, TimerOf, IsValid
    <2>2. TimerOf(c)' = "running"
      BY <1>3 DEF AddTimer, TimerOf, IsValid, ExpiresAt
    <2>3. ASSUME NEW d \in Conns, d # c PROVE TimerOf(d)' = TimerOf(d)
      BY <1>3, <2>3 DEF AddTimer, TimerOf, IsValid
    <2> QED
      BY <2>1, <2>2, <2>3 DEF Timers!Add
  <1>4. ASSUME NEW c \in Conns, ClearReq(c)
        PROVE  Timers!Clear(c)
    <2>1. ~(pc = "sweep") /\ UNCHANGED pc /\ TimerOf(c)' = "none"
      BY <1>4 DEF ClearReq, TimerOf, IsValid
    <2>2. ASSUME NEW d \in Conns, d # c PROVE TimerOf(d)' = TimerOf(d)
      BY <1>4, <2>2 DEF ClearReq, TimerOf, IsValid
    <2> QED
      BY <2>1, <2>2 DEF Timers!Clear
  <1>5. ASSUME NEW n \in Nodes, PopExpired(n)
        PROVE  \/ \E c \in Conns : Timers!Expire(c)
               \/ UNCHANGED Timers!vars
    <2>1. pc = "sweep" /\ UNCHANGED <<pc, clock>>
      BY <1>5 DEF PopExpired
    <2>2. ASSUME NEW d \in Conns, timer_[d] # n PROVE TimerOf(d)' = TimerOf(d)
      BY <1>5, <2>2 DEF PopExpired, TimerOf, IsValid
    <2>3. CASE \E c \in Conns : timer_[c] = n
      <3>1. PICK c \in Conns : timer_[c] = n
        BY <2>3
      <3>2. n # NoNode /\ SPHttpData[n] = c /\ ~deleted_[n]
        BY <3>1
      <3>3. TimerOf(c) = "overdue" /\ TimerOf(c)' = "none"
        BY <1>5, <3>1, <3>2 DEF PopExpired, TimerOf, IsValid
      <3>4. ASSUME NEW d \in Conns, d # c PROVE TimerOf(d)' = TimerOf(d)
        BY <2>2, <3>2, <3>4
      <3>5. Timers!Expire(c)
        BY <2>1, <3>3, <3>4 DEF Timers!Expire
      <3> QED
        BY <3>5
    <2>4. CASE ~ \E c \in Conns : timer_[c] = n
      BY <2>1, <2>2, <2>4 DEF Timers!vars
    <2> QED
      BY <2>3, <2>4
  <1>6. CASE StartSweep
    BY <1>6 DEF StartSweep, Timers!Next, Timers!StartSweep, TimerOf, IsValid
  <1>7. CASE EndSweep
    <2>1. \A m \in heap : clock < expiredTime_[m]
      BY <1>7 DEF EndSweep, Top, IsValid
    <2>2. \A c \in Conns : TimerOf(c) # "overdue"
      BY <2>1 DEF TimerOf, IsValid
    <2>3. /\ pc = "sweep" /\ ~(pc' = "sweep")
          /\ [c \in Conns |-> TimerOf(c)]' = [c \in Conns |-> TimerOf(c)]
      BY <1>7 DEF EndSweep, TimerOf, IsValid
    <2> QED
      BY <2>2, <2>3 DEF Timers!Next, Timers!EndSweep
  <1> QED
    BY <1>1, <1>2, <1>3, <1>4, <1>5, <1>6, <1>7 DEF Next, Timers!Next

(* For any period, timeouts and gap between sweeps, TimerManager does what *)
(* Connection takes for granted: lazily deleted nodes, nodes that expire   *)
(* during the sweep and the clock that starts again do not show.           *)
THEOREM ManagerKeepsItsPromise == Spec => ImplementsTimers
  <1>1. Spec => []LinkInv
    <2>1. LinkInv /\ TypeOK' /\ [Next]_vars => LinkInv'
      BY NextLink
    <2> QED
      BY <2>1, InitLink, TypeCorrect, PTL DEF Spec
  <1> QED
    BY <1>1, InitImplements, NextImplements, PTL
       DEF Spec, ImplementsTimers, Timers!Spec
=============================================================================
