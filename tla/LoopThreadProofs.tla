--------------------------- MODULE LoopThreadProofs ---------------------------
(***************************************************************************)
(* LoopThread, for every number of threads and of failures: the pool hands *)
(* out loops that are there, and the assertions of Thread.cpp hold.        *)
(***************************************************************************)
EXTENDS LoopThread, TLAPS

LEMMA InitHolds == Init => ThreadInv
  <1> SUFFICES ASSUME Init PROVE ThreadInv
    OBVIOUS
  <1>1. TypeOK
    BY NumThreadsAssumption
    DEF Init, TypeOK, Workers, NULL, MainPCs, PCs
  <1>2. StageInv /\ PoolIsThere /\ RunInv
    BY NumThreadsAssumption
    DEF Init, StageInv, PoolIsThere, RunInv, Workers, NULL, Starting
  <1> QED
    BY <1>1, <1>2 DEF ThreadInv

(* The entries of the pool belong to threads up to the current one.        *)
LEMMA Entries ==
  ASSUME TypeOK, StageInv
  PROVE  /\ Len(loops_) \in Nat
         /\ main \in Starting => Len(loops_) = cur - 1
         /\ \A i \in 1 .. Len(loops_) : i \in Workers /\ i \in Int
  <1>1. Len(loops_) \in Nat /\ cur \in Workers
    BY DEF TypeOK
  <1> QED
    BY <1>1, NumThreadsAssumption DEF StageInv, Workers

LEMMA MainPreserves ==
  ASSUME TypeOK, StageInv, PoolIsThere, MainStep \/ Spurious \/ Destruct
  PROVE  TypeOK' /\ StageInv' /\ PoolIsThere'
  <1> USE DEF threadVars, loopVars
  <1>0. /\ \A w \in Workers : w \in Int
        /\ cur \in Workers /\ cur \in Int
        /\ 1 \in Workers
        /\ cur < NumThreads => cur + 1 \in Workers
        /\ cur >= NumThreads => cur = NumThreads
        /\ NumThreads \in Nat /\ NULL \notin Workers
        /\ \A w \in Workers : 1 <= w /\ w <= NumThreads
    BY NumThreadsAssumption DEF TypeOK, Workers, NULL
  <1>1. CASE Create
    <2>1. TypeOK'
      BY <1>0, <1>1 DEF TypeOK, Create, MainPCs, PCs
    <2>2. StageInv'
      BY <1>0, <1>1 DEF TypeOK, StageInv, Create, Starting
    <2>3. PoolIsThere'
      <3>1. /\ main = "create" /\ main' \in Starting /\ loops_' = loops_
            /\ loop_' = loop_
            /\ \A i \in Workers : i # cur => pc'[i] = pc[i]
        BY <1>0, <1>1 DEF TypeOK, Create, Starting
      <3>2. main \in Starting /\ main \notin {"serving"}
        BY <3>1 DEF Starting
      <3>3. \A i \in 1 .. Len(loops_) : i \in Workers /\ i # cur
        BY <1>0, <3>2, Entries
      <3>4. main' # "serving"
        BY <3>1 DEF Starting
      <3> QED
        BY <3>1, <3>2, <3>3, <3>4 DEF PoolIsThere, Alive
    <2> QED
      BY <2>1, <2>2, <2>3
  <1>2. CASE LatchWait \/ LoopWait \/ Spurious
    <2>1. TypeOK'
      BY <1>0, <1>2 DEF TypeOK, LatchWait, LoopWait, Spurious, MainPCs
    <2>2. StageInv'
      BY <1>0, <1>2 DEF TypeOK, StageInv, LatchWait, LoopWait, Spurious, Starting
    <2>3. PoolIsThere'
      BY <1>0, <1>2
      DEF PoolIsThere, Alive, LatchWait, LoopWait, Spurious, Starting
    <2> QED
      BY <2>1, <2>2, <2>3
  <1>3. CASE Return
    <2>1. TypeOK'
      BY <1>0, <1>3 DEF TypeOK, Return, Advance, MainPCs
    <2>2. /\ loops_ \in Seq(Workers \cup {NULL}) /\ Len(loops_) = cur - 1
          /\ loop_[cur] = cur /\ cur \in Workers
      BY <1>0, <1>3 DEF Return, StageInv, TypeOK, Starting
    <2>3. /\ loops_' = Append(loops_, cur) /\ Len(loops_') = cur
          /\ \A i \in 1 .. Len(loops_) : loops_'[i] = loops_[i]
          /\ loops_'[cur] = cur
      BY <1>0, <1>3, <2>2 DEF Return
    <2>4. StageInv'
      BY <1>0, <1>3, <2>2, <2>3 DEF TypeOK, StageInv, Return, Advance, Starting
    <2>5. PoolIsThere'
      BY <1>0, <1>3, <2>2, <2>3
      DEF TypeOK, StageInv, PoolIsThere, Alive, Return, Advance, Starting
    <2> QED
      BY <2>1, <2>4, <2>5
  <1>4. CASE Destruct \/ Test \/ Join
    <2>1. TypeOK'
      BY <1>0, <1>4 DEF TypeOK, Destruct, Test, Join, Advance, MainPCs
    <2>2. StageInv'
      BY <1>0, <1>4
      DEF TypeOK, StageInv, Destruct, Test, Join, Advance, Starting, PCs
    <2>3. PoolIsThere'
      BY <1>0, <1>4
      DEF PoolIsThere, Destruct, Test, Join, Advance, Starting
    <2> QED
      BY <2>1, <2>2, <2>3
  <1>5. CASE Flag \/ Wakeup
    <2>1. TypeOK'
      <3>1. Alive(cur) \in BOOLEAN
        BY DEF Alive
      <3>2. quit_' \in [Workers -> BOOLEAN] /\ woken' \in [Workers -> BOOLEAN]
        BY <1>5, <3>1 DEF TypeOK, Flag, Wakeup
      <3>3. main' \in MainPCs
        BY <1>5 DEF Flag, Wakeup, MainPCs
      <3> QED
        BY <1>5, <3>2, <3>3 DEF TypeOK, Flag, Wakeup
    <2>2. StageInv'
      BY <1>0, <1>5 DEF TypeOK, StageInv, Flag, Wakeup, Starting
    <2>3. PoolIsThere'
      BY <1>0, <1>5 DEF PoolIsThere, Flag, Wakeup, Starting
    <2> QED
      BY <2>1, <2>2, <2>3
  <1> QED
    BY <1>1, <1>2, <1>3, <1>4, <1>5 DEF MainStep

LEMMA WorkerPreserves ==
  ASSUME TypeOK, StageInv, PoolIsThere,
         NEW w \in Workers, WorkerStep(w) \/ PollOther(w)
  PROVE  TypeOK' /\ StageInv' /\ PoolIsThere'
  <1> USE DEF mainVars, threadVars, loopVars
  <1>0. \A i \in 1 .. Len(loops_) : i \in Workers
    BY Entries
  <1>1. CASE Begin(w) \/ CountDown(w)
    <2>1. TypeOK'
      <3>0. 0 \in 0 .. 1
        OBVIOUS
      <3>1. tid_' \in [Workers -> BOOLEAN] /\ count_' \in [Workers -> 0 .. 1]
        BY <1>1, <3>0, Zenon DEF TypeOK, Begin, CountDown
      <3>2. main' \in MainPCs
        BY <1>1 DEF TypeOK, Begin, CountDown, MainPCs
      <3>3. pc' \in [Workers -> PCs]
        BY <1>1 DEF TypeOK, Begin, CountDown, Goto, PCs
      <3> QED
        BY <1>1, <3>1, <3>2, <3>3 DEF TypeOK, Begin, CountDown
    <2>2. StageInv'
      BY <1>1 DEF TypeOK, StageInv, Begin, CountDown, Goto, Starting
    <2>3. PoolIsThere'
      <3>1. /\ loops_' = loops_
            /\ main \in Starting \cup {"serving"} <=>
                  main' \in Starting \cup {"serving"}
            /\ main' = "serving" <=> main = "serving"
        BY <1>1 DEF Begin, CountDown, Starting
      <3>2. \A i \in Workers : Alive(i) /\ loop_[i] = i
                                  => Alive(i)' /\ loop_'[i] = i
        BY <1>1 DEF TypeOK, Alive, Begin, CountDown, Goto
      <3> QED
        BY <1>0, <3>1, <3>2 DEF PoolIsThere
    <2> QED
      BY <2>1, <2>2, <2>3
  <1>2. CASE Construct(w) \/ Publish(w)
    <2>1. TypeOK'
      BY <1>2 DEF TypeOK, Construct, Publish, Goto, PCs, MainPCs
    <2>2. StageInv'
      BY <1>2 DEF TypeOK, StageInv, Construct, Publish, Goto, Starting
    <2>3. PoolIsThere'
      <3>1. /\ loops_' = loops_
            /\ main \in Starting \cup {"serving"} <=>
                  main' \in Starting \cup {"serving"}
            /\ main' = "serving" <=> main = "serving"
        BY <1>2 DEF Construct, Publish, Starting
      <3>2. \A i \in Workers : Alive(i) /\ loop_[i] = i
                                  => Alive(i)' /\ loop_'[i] = i
        BY <1>2 DEF TypeOK, Alive, Construct, Publish, Goto
      <3> QED
        BY <1>0, <3>1, <3>2 DEF PoolIsThere
    <2> QED
      BY <2>1, <2>2, <2>3
  <1>3. CASE Enter(w) \/ PollWoken(w) \/ PollOther(w)
    <2>1. TypeOK'
      BY <1>3 DEF TypeOK, Enter, PollWoken, PollOther, Goto, PCs
    <2>2. StageInv'
      BY <1>3
      DEF TypeOK, StageInv, Enter, PollWoken, PollOther, Goto, Starting
    <2>3. PoolIsThere'
      <3>1. /\ loops_' = loops_
            /\ main \in Starting \cup {"serving"} <=>
                  main' \in Starting \cup {"serving"}
            /\ main' = "serving" <=> main = "serving"
        BY <1>3 DEF Enter, PollWoken, PollOther, Starting
      <3>2. \A i \in Workers : Alive(i) /\ loop_[i] = i
                                  => Alive(i)' /\ loop_'[i] = i
        BY <1>3 DEF TypeOK, Alive, Enter, PollWoken, PollOther, Goto
      <3> QED
        BY <1>0, <3>1, <3>2 DEF PoolIsThere
    <2> QED
      BY <2>1, <2>2, <2>3
  <1>4. CASE Check(w)
    <2>1. TypeOK'
      BY <1>4 DEF TypeOK, Check, Goto, PCs
    <2>2. StageInv'
      BY <1>4 DEF TypeOK, StageInv, Check, Goto, Starting
    <2>3. PoolIsThere'
      BY <1>4
      DEF TypeOK, StageInv, PoolIsThere, Alive, Check, Goto, Starting
    <2> QED
      BY <2>1, <2>2, <2>3
  <1>5. CASE Clear(w) \/ Destroy(w)
    <2>0. main \notin Starting \cup {"serving"}
      BY <1>5 DEF StageInv, Clear, Destroy, Goto
    <2>1. TypeOK'
      BY <1>5 DEF TypeOK, Clear, Destroy, Goto, PCs
    <2>2. StageInv'
      BY <1>5, <2>0 DEF TypeOK, StageInv, Clear, Destroy, Goto, Starting
    <2>3. PoolIsThere'
      BY <1>5, <2>0 DEF PoolIsThere, Clear, Destroy, Goto
    <2> QED
      BY <2>1, <2>2, <2>3
  <1> QED
    BY <1>1, <1>2, <1>3, <1>4, <1>5 DEF WorkerStep

(* Only the flag of ~EventLoopThread takes a loop out of loop().           *)
LEMMA RunPreserves ==
  ASSUME ThreadInv, TypeOK', StageInv', PoolIsThere',
         \/ MainStep \/ Spurious \/ Destruct
         \/ \E w \in Workers : WorkerStep(w) \/ PollOther(w)
  PROVE  RunInv'
  <1> USE DEF ThreadInv, RunInv
  <1>0. /\ cur \in Workers /\ cur' \in Workers
        /\ \A w \in Workers : w \in Int /\ 1 <= w /\ w <= NumThreads
        /\ NumThreads \in Nat
    BY NumThreadsAssumption DEF TypeOK, Workers
  <1>1. CASE Create \/ LatchWait \/ LoopWait \/ Spurious
    BY <1>1 DEF Create, LatchWait, LoopWait, Spurious
  <1>2. CASE Return
    <2>1. /\ main' = "create" \/ (main' = "serving" /\ cur' = 1)
          /\ UNCHANGED <<pc, quit_>>
      BY <1>2 DEF Return, Advance, threadVars, loopVars
    <2>2. ASSUME main' = "serving", NEW w \in Workers
          PROVE  pc'[w] \in {"enter", "check", "poll"} /\ ~quit_'[w]
      <3>1. Len(loops_') = NumThreads /\ w \in 1 .. Len(loops_')
        BY <1>0, <2>2 DEF PoolIsThere
      <3>2. loop_'[w] = w /\ ~quit_'[w]
        BY <2>2, <3>1 DEF PoolIsThere, StageInv
      <3>3. w # NULL
        BY <1>0 DEF NULL
      <3>4. pc'[w] \in {"enter", "check", "poll", "clear"} /\ pc'[w] # "clear"
        BY <2>2, <3>2, <3>3 DEF StageInv
      <3> QED
        BY <3>2, <3>4
    <2> QED
      BY <2>1, <2>2 DEF Running
  <1>3. CASE Destruct
    BY <1>3 DEF Destruct, Running, loopVars
  <1>4. CASE Test
    <2>1. loop_[cur] # NULL
      BY <1>0, <1>4 DEF Test, Running, StageInv, NULL
    <2> QED
      BY <1>4, <2>1 DEF Test, Running, loopVars
  <1>5. CASE Flag
    BY <1>0, <1>5 DEF Flag, Running, TypeOK
  <1>6. CASE Wakeup
    BY <1>6 DEF Wakeup, Running
  <1>7. CASE Join
    BY <1>0, <1>7 DEF Join, Advance, Running, loopVars
  <1>8. ASSUME NEW w \in Workers, WorkerStep(w) \/ PollOther(w)
        PROVE  RunInv'
    <2>1. /\ main' = main \/ main' \in {"latch", "loop"}
          /\ cur' = cur
      BY <1>8
      DEF WorkerStep, PollOther, Begin, CountDown, Construct, Publish, Enter,
          Check, PollWoken, Clear, Destroy, mainVars
    <2>2. ASSUME NEW v \in Workers, Running(v)
          PROVE  Running(v)'
      BY <1>8, <2>2
      DEF WorkerStep, PollOther, Begin, CountDown, Construct, Publish, Enter,
          Check, PollWoken, Clear, Destroy, Goto, Running, TypeOK, loopVars
    <2> QED
      BY <2>1, <2>2
  <1> QED
    BY <1>1, <1>2, <1>3, <1>4, <1>5, <1>6, <1>7, <1>8 DEF MainStep

LEMMA StutterPreserves ==
  ASSUME ThreadInv, UNCHANGED vars
  PROVE  ThreadInv'
  BY DEF ThreadInv, TypeOK, StageInv, PoolIsThere, RunInv, Running, Alive, vars, mainVars,
         threadVars, loopVars

\* How far each thread is on its way from startLoop to the end, at every
\* point of the main thread's way: the invariant behind the others.
THEOREM ThreadInvariant == SafeSpec => []ThreadInv
  <1>1. ThreadInv /\ Next => ThreadInv'
    BY MainPreserves, WorkerPreserves, RunPreserves DEF Next, ThreadInv
  <1>2. ThreadInv /\ UNCHANGED vars => ThreadInv'
    BY StutterPreserves
  <1> QED
    BY InitHolds, <1>1, <1>2, PTL DEF SafeSpec

\* The variables keep their types, with any number of threads.
THEOREM TypeCorrect == SafeSpec => []TypeOK
  <1>1. ThreadInv => TypeOK
    BY DEF ThreadInv
  <1> QED
    BY ThreadInvariant, <1>1, PTL

\* While the server serves, entry i of the pool is the loop of thread i and
\* that loop exists; and ~EventLoopThread calls quit() on a loop that exists.
THEOREM PoolHasItsLoops == SafeSpec => []LoopsAreThere
  <1>1. ASSUME ThreadInv PROVE LoopsAreThere
    <2>1. ASSUME main = "flag" PROVE Alive(cur) /\ loop_[cur] = cur
      <3>1. cur \in Workers /\ cur >= cur
        BY <1>1, NumThreadsAssumption DEF ThreadInv, TypeOK, Workers
      <3>2. pc[cur] \in {"enter", "check", "poll"}
        BY <1>1, <2>1, <3>1 DEF ThreadInv, RunInv, Running
      <3>3. loop_[cur] = cur
        BY <1>1, <3>1, <3>2 DEF ThreadInv, StageInv
      <3> QED
        BY <3>2, <3>3 DEF Alive
    <2> QED
      BY <1>1, <2>1 DEF ThreadInv, LoopsAreThere
  <1> QED
    BY ThreadInvariant, <1>1, PTL

\* The latch opens after the tid is stored, and only threads that were made
\* are joined.
THEOREM AssertionsHold == SafeSpec => []ThreadAsserts
  <1>1. ThreadInv => ThreadAsserts
    BY DEF ThreadInv, TypeOK, StageInv, ThreadAsserts
  <1> QED
    BY ThreadInvariant, <1>1, PTL
=============================================================================
