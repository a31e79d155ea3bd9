-------------------------- MODULE AsyncLoggingProofs --------------------------
(***************************************************************************)
(* Theorems about AsyncLogging for any number of lines, buffers and        *)
(* failures.  The invariant is LogInv: four buffers in four places, and    *)
(* the lines that wait are consecutive.                                    *)
(***************************************************************************)
EXTENDS AsyncLogging, SequenceLemmas

USE DEF startVars, stopVars, frontVars, backVars, writeVars, fileVars, PCs

LEMMA InitLogInv == Init => LogInv
  <1> SUFFICES ASSUME Init PROVE LogInv
    OBVIOUS
  <1> USE SizeAssumption, LimitsAssumption, BuffersAssumption
  <1>1. data = [b \in Buffers |-> <<>>] /\ currentBuffer_ \in Buffers
        /\ {nextBuffer_, newBuffer1, newBuffer2} \subseteq Buffers
        /\ currentBuffer_ \notin {nextBuffer_, newBuffer1, newBuffer2}
        /\ nextBuffer_ # newBuffer1 /\ nextBuffer_ # newBuffer2
        /\ newBuffer1 # newBuffer2
    BY Zenon DEF Init
  <1>2. TypeOK
    <2>1. count_ \in 0 .. FlushEveryN - 1
      BY DEF Init
    <2>2. data \in [Buffers -> Seq(Nat)]
      BY <1>1
    <2>3. <<>> \in Seq(Buffers) /\ <<>> \in Seq(Nat)
      BY EmptySeq
    <2>4. /\ once = "no" /\ latch_ = 1 /\ running_ = FALSE /\ stopper = "no"
          /\ buffers_ = <<>> /\ buffersToWrite = <<>>
          /\ writing = 0 /\ unwritten = <<>> /\ failures = 0
          /\ file = <<>> /\ onDisk = 0 /\ pc = "off" /\ appended = 0
      BY DEF Init
    <2>5. latch_ \in 0 .. 1 /\ 0 \in Nat
      BY <2>4
    <2> QED
      BY <1>1, <2>1, <2>2, <2>3, <2>4, <2>5, Zenon DEF TypeOK
  <1>3. NoSharedBuffer
    BY <1>1 DEF Init, NoSharedBuffer
  <1>4. StartInv /\ RoundInv
    BY <1>1 DEF Init, StartInv, RoundInv
  <1>5. LineInv /\ InOrder
    BY <1>1 DEF Init, LineInv, InOrder, Waiting, First, Top
  <1> QED
    BY <1>2, <1>3, <1>4, <1>5 DEF LogInv

(* The calls.                                                              *)
LEMMA CallPreserves ==
  ASSUME LogInv, OnceInit \/ Started \/ Stop \/ Join
  PROVE  LogInv'
  <1> USE DEF OnceInit, Started, Stop, Join, LogInv
  <1>1. TypeOK'
    <2>1. failures' \in Nat /\ pc' \in PCs
      BY DEF TypeOK
    <2> QED
      BY <2>1 DEF TypeOK
  <1>2. StartInv' /\ RoundInv'
    BY DEF StartInv, RoundInv
  <1>3. NoSharedBuffer' /\ InOrder'
    BY DEF NoSharedBuffer, InOrder
  <1>4. LineInv'
    BY DEF LineInv, Waiting, First, Top
  <1> QED
    BY <1>1, <1>2, <1>3, <1>4

LEMMA OutputPreserves ==
  ASSUME LogInv, Output
  PROVE  LogInv'
  <1>1. /\ data' = [data EXCEPT ![currentBuffer_] = Append(@, appended + 1)]
        /\ appended' = appended + 1
        /\ UNCHANGED <<startVars, stopVars, frontVars, backVars, writeVars,
                       fileVars, pc>>
    BY SizeAssumption DEF Output, AppendLine, Avail
  <1> DEFINE old == data[currentBuffer_]
  <1>2. /\ currentBuffer_ \in Buffers /\ data \in [Buffers -> Seq(Nat)]
        /\ appended \in Nat /\ old \in Seq(Nat)
    BY DEF LogInv, TypeOK
  <1>3. /\ data'[currentBuffer_] = Append(old, appended + 1)
        /\ \A b \in Buffers \ {currentBuffer_} : data'[b] = data[b]
        /\ data' \in [Buffers -> Seq(Nat)]
    BY <1>1, <1>2
  <1>4. TypeOK'
    BY <1>1, <1>2, <1>3 DEF LogInv, TypeOK
  <1>5. StartInv' /\ RoundInv' /\ InOrder'
    BY <1>1 DEF LogInv, StartInv, RoundInv, InOrder
  <1>6. NoSharedBuffer'
    BY <1>1, <1>2, <1>3 DEF LogInv, TypeOK, NoSharedBuffer
  <1>7. LineInv'
    <2>1. /\ Len(Append(old, appended + 1)) = Len(old) + 1
          /\ \A i \in 1 .. Len(old) : Append(old, appended + 1)[i] = old[i]
          /\ Append(old, appended + 1)[Len(old) + 1] = appended + 1
          /\ Len(old) \in Nat /\ Len(unwritten) \in Nat
      BY <1>2, AppendProperties, LenProperties DEF LogInv, TypeOK
    <2>2. /\ Waiting = old /\ Waiting' = Append(old, appended + 1)
          /\ unwritten' = unwritten /\ file' = file
      BY <1>1, <1>3 DEF Waiting
    <2>3. First' = First /\ Top' = Top /\ First = appended - Len(old)
      BY <1>1, <1>2, <2>1, <2>2 DEF First, Top
    <2> QED
      BY <1>2, <2>1, <2>2, <2>3 DEF LogInv, LineInv
  <1> QED
    BY <1>4, <1>5, <1>6, <1>7 DEF LogInv

(* fflush moves no line.                                                   *)
LEMMA FlushOutcome ==
  ASSUME TypeOK, FlushFile
  PROVE  /\ onDisk' \in Nat /\ failures' \in Nat
         /\ \/ failures' = failures /\ onDisk' = Len(file)
            \/ failures' = failures + 1
  <1>1. Len(file) \in Nat /\ onDisk \in Nat /\ failures \in Nat
    BY LenProperties DEF TypeOK
  <1> QED
    BY <1>1 DEF FlushFile

(* The steps of the logging thread that move no line and no buffer.        *)
LEMMA ControlPreserves ==
  ASSUME LogInv, Entry \/ Check \/ Flush
  PROVE  LogInv'
  <1> USE DEF LogInv
  <1>1. TypeOK'
    <2>2. CASE Entry
      BY <2>2 DEF Entry, TypeOK
    <2>3. CASE Check
      <3>1. pc' \in PCs
        BY <2>3 DEF Check
      <3>2. /\ UNCHANGED <<startVars, stopVars, frontVars, backVars>>
            /\ UNCHANGED <<writeVars, fileVars, data, appended>>
        BY <2>3 DEF Check
      <3> QED
        BY <3>1, <3>2, Zenon DEF TypeOK
    <2>4. CASE Flush
      <3>1. pc' \in PCs /\ onDisk' \in Nat /\ failures' \in Nat
        BY <2>4, FlushOutcome DEF Flush
      <3>2. /\ UNCHANGED <<startVars, stopVars, frontVars, backVars>>
            /\ UNCHANGED <<writing, unwritten, file, count_, data, appended>>
        BY <2>4 DEF Flush
      <3> QED
        BY <3>1, <3>2, Zenon DEF TypeOK
    <2> QED
      BY <2>2, <2>3, <2>4
  <1> USE DEF Entry, Check, Flush
  <1>2. StartInv' /\ RoundInv'
    BY DEF StartInv, RoundInv
  <1>3. NoSharedBuffer' /\ InOrder'
    BY DEF NoSharedBuffer, InOrder
  <1>4. LineInv'
    BY DEF LineInv, Waiting, First, Top
  <1> QED
    BY <1>1, <1>2, <1>3, <1>4

(* The swap: the four buffers move one place on, and the lines with them.  *)
LEMMA SwapPreserves ==
  ASSUME LogInv, Swap
  PROVE  LogInv'
  <1> USE DEF LogInv
  <1>1. /\ pc = "wait" /\ buffers_ = <<>> /\ nextBuffer_ # NoBuffer
        /\ currentBuffer_ \in Buffers /\ newBuffer1 \in Buffers
        /\ data \in [Buffers -> Seq(Nat)]
        /\ unwritten = <<>>
        /\ data[newBuffer1] = <<>>
    BY DEF Swap, RoundInv, TypeOK, NoSharedBuffer
  <1>2. /\ Append(buffers_, currentBuffer_) = <<currentBuffer_>>
        /\ Drop(<<currentBuffer_>>) = <<currentBuffer_>>
    BY <1>1 DEF Drop
  <1>3. /\ buffersToWrite' = <<currentBuffer_>>
        /\ buffers_' = <<>>
        /\ currentBuffer_' = newBuffer1
        /\ newBuffer1' = NoBuffer
        /\ UNCHANGED <<nextBuffer_, newBuffer2>>
        /\ writing' = 1 /\ unwritten' = data[currentBuffer_]
        /\ pc' = "write"
        /\ UNCHANGED <<startVars, stopVars, failures, fileVars, data, appended>>
    BY <1>1, <1>2 DEF Swap
  <1>4. TypeOK'
    BY <1>1, <1>3 DEF TypeOK
  <1>5. StartInv' /\ RoundInv' /\ InOrder'
    BY <1>1, <1>3 DEF StartInv, RoundInv, InOrder
  <1>6. NoSharedBuffer'
    BY <1>1, <1>3, BuffersAssumption DEF NoSharedBuffer, TypeOK
  <1>7. LineInv'
    <2>1. /\ Waiting' = <<>> /\ unwritten' = Waiting /\ file' = file
          /\ appended \in Nat /\ Len(Waiting) \in Nat
      BY <1>1, <1>3, LenProperties DEF Waiting, TypeOK
    <2>2. Len(Waiting') = 0 /\ First' = appended /\ Top' = First /\ Top = First
      BY <1>1, <1>3, <2>1 DEF First, Top
    <2> QED
      BY <2>1, <2>2 DEF LineInv
  <1> QED
    BY <1>4, <1>5, <1>6, <1>7

(* Of consecutive numbers, the first can be added to a sequence of smaller *)
(* ones, and the others are still consecutive.                             *)
LEMMA AppendNext ==
  ASSUME NEW s \in Seq(Nat), NEW n \in Nat,
         \A i \in 1 .. Len(s) : s[i] <= n,
         \A i, j \in 1 .. Len(s) : i < j => s[i] < s[j]
  PROVE  LET r == Append(s, n + 1)
         IN  /\ \A i \in 1 .. Len(r) : r[i] <= n + 1
             /\ \A i, j \in 1 .. Len(r) : i < j => r[i] < r[j]
  <1> DEFINE r == Append(s, n + 1)
  <1>1. /\ Len(s) \in Nat /\ Len(r) = Len(s) + 1
        /\ \A i \in 1 .. Len(s) : r[i] = s[i] /\ s[i] \in Nat
        /\ r[Len(s) + 1] = n + 1
    BY AppendProperties, LenProperties
  <1> HIDE DEF r
  <1>2. \A i \in 1 .. Len(r) : r[i] <= n + 1
    BY <1>1
  <1>3. ASSUME NEW i \in 1 .. Len(r), NEW j \in 1 .. Len(r), i < j
        PROVE  r[i] < r[j]
    <2>1. i \in 1 .. Len(s) /\ r[i] = s[i] /\ s[i] \in Nat /\ s[i] <= n
      BY <1>1, <1>3
    <2>2. CASE j = Len(s) + 1
      BY <1>1, <2>1, <2>2
    <2>3. CASE j # Len(s) + 1
      <3>1. j \in 1 .. Len(s)
        BY <1>1, <1>3, <2>3
      <3> QED
        BY <1>1, <1>3, <2>1, <3>1
    <2> QED
      BY <2>2, <2>3
  <1> QED
    BY <1>2, <1>3 DEF r

LEMMA TailNext ==
  ASSUME NEW s \in Seq(Nat), s # <<>>, NEW n \in Nat,
         \A i \in 1 .. Len(s) : s[i] = n + i
  PROVE  \A i \in 1 .. Len(Tail(s)) : Tail(s)[i] = n + 1 + i
  OBVIOUS

(* A line moves from what is unwritten to the end of the file.             *)
LEMMA WriteLinePreserves ==
  ASSUME LogInv, WriteLine
  PROVE  LogInv'
  <1> USE DEF LogInv
  <1>1. /\ unwritten \in Seq(Nat) /\ unwritten # <<>> /\ file \in Seq(Nat)
        /\ appended \in Nat /\ Len(Waiting) \in Nat
        /\ Len(file) \in Nat /\ Len(unwritten) \in Nat
    BY LenProperties DEF WriteLine, TypeOK, Waiting
  <1>2. /\ Tail(unwritten) \in Seq(Nat)
        /\ Len(unwritten) > 0 /\ Len(Tail(unwritten)) = Len(unwritten) - 1
        /\ Head(unwritten) = unwritten[1] /\ Head(unwritten) \in Nat
    BY <1>1
  <1>3. /\ Top \in Nat
        /\ \A i \in 1 .. Len(file) : file[i] <= Top
        /\ \A i \in 1 .. Len(unwritten) : unwritten[i] = Top + i
    <2>1. Top \in Int
      BY <1>1 DEF Top, First
    <2> QED
      BY <2>1 DEF LineInv
  <1>4. /\ file' = Append(file, Head(unwritten))
        /\ unwritten' = Tail(unwritten)
        /\ onDisk' = onDisk \/ onDisk' = Len(file)
        /\ UNCHANGED <<startVars, stopVars, frontVars, backVars, writing,
                       failures, count_, data, pc, appended>>
    BY DEF WriteLine
  <1>5. file' \in Seq(Nat)
    BY <1>1, <1>2, <1>4
  <1>6. TypeOK'
    BY <1>1, <1>2, <1>4, <1>5 DEF TypeOK
  <1>7. StartInv' /\ RoundInv' /\ NoSharedBuffer'
    BY DEF WriteLine, StartInv, RoundInv, NoSharedBuffer
  <1>8. Head(unwritten) = Top + 1
    BY <1>2, <1>3, <1>1
  <1>9. InOrder' /\ \A i \in 1 .. Len(file') : file'[i] <= Top + 1
    BY <1>1, <1>3, <1>4, <1>8, AppendNext DEF InOrder
  <1>10. \A i \in 1 .. Len(unwritten') : unwritten'[i] = Top + 1 + i
    BY <1>1, <1>3, <1>4, TailNext
  <1>11. LineInv'
    <2>1. Waiting' = Waiting /\ First' = First
      BY <1>4 DEF Waiting, First
    <2>2. Top' = Top + 1
      BY <1>1, <1>2, <1>4, <2>1 DEF Top, First
    <2> QED
      BY <1>3, <1>9, <1>10, <2>1, <2>2 DEF LineInv
  <1> QED
    BY <1>6, <1>7, <1>9, <1>11

LEMMA WriteFailsPreserves ==
  ASSUME LogInv, WriteFails
  PROVE  LogInv'
  <1> USE DEF LogInv
  <1>1. Len(unwritten) \in Nat /\ Len(Waiting) \in Nat /\ appended \in Nat
    BY LenProperties DEF TypeOK, Waiting
  <1>2. TypeOK'
    BY DEF WriteFails, TypeOK
  <1>3. StartInv' /\ RoundInv' /\ NoSharedBuffer' /\ InOrder'
    BY DEF WriteFails, StartInv, RoundInv, NoSharedBuffer, InOrder
  <1>4. LineInv'
    <2>1. /\ Waiting' = Waiting /\ First' = First
          /\ unwritten' = <<>> /\ file' = file
      BY DEF WriteFails, Waiting, First
    <2>2. /\ Len(unwritten') = 0 /\ Top' = First
          /\ First \in Int /\ Top \in Int /\ Top <= First
      BY <1>1, <2>1 DEF Top, First
    <2>3. \A i \in 1 .. Len(file) : file[i] \in Nat
      BY DEF TypeOK
    <2> QED
      BY <2>1, <2>2, <2>3 DEF LineInv
  <1> QED
    BY <1>2, <1>3, <1>4

LEMMA NextBufferPreserves ==
  ASSUME LogInv, NextBuffer
  PROVE  LogInv'
  <1> USE DEF LogInv
  <1>0. pc = "write" /\ ~(writing < Len(buffersToWrite))
    <2>1. pc = "write"
      BY DEF NextBuffer
    <2>2. Len(buffersToWrite) = 1 /\ writing = 1
      BY <2>1 DEF RoundInv
    <2> QED
      BY <2>1, <2>2
  <1>1. /\ pc = "write" /\ unwritten = <<>> /\ pc' = "recycle"
        /\ count_' = IF count_ + 1 >= FlushEveryN THEN 0 ELSE count_ + 1
        /\ FlushFile \/ UNCHANGED <<onDisk, failures>>
        /\ UNCHANGED <<writing, unwritten>>
        /\ UNCHANGED <<startVars, stopVars, frontVars, backVars, file, data,
                       appended>>
    BY <1>0 DEF NextBuffer, CountAfter
  <1>5. onDisk' \in Nat /\ failures' \in Nat
    BY <1>1, FlushOutcome DEF TypeOK
  <1>2. TypeOK'
    BY <1>1, <1>5, LimitsAssumption DEF TypeOK
  <1>3. StartInv' /\ RoundInv' /\ NoSharedBuffer' /\ InOrder'
    BY <1>1 DEF StartInv, RoundInv, NoSharedBuffer, InOrder
  <1>4. LineInv'
    BY <1>1 DEF LineInv, Waiting, First, Top
  <1> QED
    BY <1>2, <1>3, <1>4

LEMMA OneOfOne ==
  ASSUME NEW S, NEW s \in Seq(S), Len(s) = 1
  PROVE  s[1] \in S
  OBVIOUS

(* The written buffer comes back, empty, in the place of newBuffer1.       *)
LEMMA RecyclePreserves ==
  ASSUME LogInv, Recycle
  PROVE  LogInv'
  <1> USE DEF LogInv
  <1>0. /\ pc = "recycle" /\ newBuffer1 = NoBuffer /\ newBuffer2 # NoBuffer
        /\ Len(buffersToWrite) = 1
    BY DEF Recycle, RoundInv
  <1>1. /\ pc = "recycle" /\ newBuffer1 = NoBuffer /\ newBuffer2 # NoBuffer
        /\ Len(buffersToWrite) = 1 /\ buffersToWrite[1] \in Buffers
        /\ buffersToWrite[1] # NoBuffer
    <2>1. buffersToWrite \in Seq(Buffers)
      BY DEF TypeOK
    <2> QED
      BY <1>0, <2>1, BuffersAssumption, OneOfOne
  <1> DEFINE b1 == buffersToWrite[1]
  <1>2. Kept[Len(Kept)] = b1
    BY <1>1 DEF Kept
  <1>3. /\ newBuffer1' = b1 /\ newBuffer2' = newBuffer2
        /\ buffersToWrite' = <<>> /\ pc' = "flush"
        /\ data' = [b \in Buffers |-> IF b = b1 THEN <<>> ELSE data[b]]
        /\ UNCHANGED <<startVars, stopVars, frontVars, writeVars, fileVars,
                       appended>>
    BY <1>1, <1>2 DEF Recycle
  <1>4. currentBuffer_ # b1 /\ nextBuffer_ # b1 /\ newBuffer2 # b1
    BY <1>1 DEF NoSharedBuffer, RoundInv
  <1>5. TypeOK'
    BY <1>1, <1>3 DEF TypeOK
  <1>6. StartInv' /\ RoundInv' /\ InOrder'
    BY <1>1, <1>3 DEF StartInv, RoundInv, InOrder
  <1>7. NoSharedBuffer'
    BY <1>1, <1>3, <1>4 DEF NoSharedBuffer, TypeOK
  <1>8. LineInv'
    <2>1. /\ Waiting' = Waiting /\ unwritten' = unwritten /\ file' = file
          /\ appended' = appended
      BY <1>3, <1>4 DEF Waiting, TypeOK
    <2> QED
      BY <2>1 DEF LineInv, First, Top
  <1> QED
    BY <1>5, <1>6, <1>7, <1>8

LEMMA NextPreserves ==
  ASSUME LogInv, [Next]_vars
  PROVE  LogInv'
  <1>1. CASE OnceInit \/ Started \/ Stop \/ Join
    BY <1>1, CallPreserves
  <1>2. CASE Output
    BY <1>2, OutputPreserves
  <1>3. CASE ThreadStep
    BY <1>3, ControlPreserves, SwapPreserves, WriteLinePreserves,
       WriteFailsPreserves, NextBufferPreserves, RecyclePreserves
       DEF ThreadStep
  <1>4. CASE UNCHANGED vars
    <2>1. LogInv' = LogInv
      BY <1>4 DEF vars, LogInv, TypeOK, StartInv, NoSharedBuffer, RoundInv,
                  LineInv, InOrder, Waiting, First, Top
    <2> QED
      BY <2>1
  <1> QED
    BY <1>1, <1>2, <1>3, <1>4 DEF Next

(* The invariant holds throughout; with it buffers_ is empty for ever:     *)
(* append() never hands a full buffer over, and the limit of 25 buffers is *)
(* never reached.                                                          *)
THEOREM LogInvariant == SafeSpec => []LogInv
  <1> QED
    BY InitLogInv, NextPreserves, PTL DEF SafeSpec

(* Every variable keeps its type; append() always has a buffer.            *)
THEOREM TypeCorrect == SafeSpec => []TypeOK
  <1>1. LogInv => TypeOK
    BY DEF LogInv
  <1> QED
    BY <1>1, LogInvariant, PTL

(* The threads that log and the thread that writes never use the same      *)
(* buffer, and no buffer is used again with old lines in it (the swap and  *)
(* the reuse in threadFunc).                                               *)
THEOREM BuffersAreNotShared == SafeSpec => []NoSharedBuffer
  <1>1. LogInv => NoSharedBuffer
    BY DEF LogInv
  <1> QED
    BY <1>1, LogInvariant, PTL

(* The assertions in threadFunc (AsyncLogging.cpp:50, 60-62, 79, 94, 101)  *)
(* never fail.                                                             *)
THEOREM AssertionsHold == SafeSpec => []AssertsHold
  <1>1. ASSUME LogInv PROVE AssertsHold
    <2>1. pc = "entry" => running_
      BY <1>1 DEF LogInv, StartInv
    <2>2. pc = "wait" => /\ newBuffer1 # NoBuffer /\ newBuffer2 # NoBuffer
                         /\ data[newBuffer1] = <<>> /\ data[newBuffer2] = <<>>
                         /\ buffersToWrite = <<>>
      BY <1>1 DEF LogInv, RoundInv, NoSharedBuffer
    <2>3. pc \in {"write", "recycle"} => buffersToWrite # <<>>
      BY <1>1 DEF LogInv, RoundInv
    <2>4. pc = "recycle" => Kept = buffersToWrite /\ newBuffer2 # NoBuffer
      BY <1>1 DEF LogInv, RoundInv, Kept
    <2> QED
      BY <2>1, <2>2, <2>3, <2>4 DEF AssertsHold
  <1> QED
    BY <1>1, LogInvariant, PTL

(* The file has the lines in the order of append(), each at most once,     *)
(* whatever fails.                                                         *)
THEOREM LinesInOrder == SafeSpec => []InOrder
  <1>1. LogInv => InOrder
    BY DEF LogInv
  <1> QED
    BY <1>1, LogInvariant, PTL

-----------------------------------------------------------------------------
(* What stop() leaves behind.                                              *)

\* The file has every line up to Top, and away from a round it is flushed.
FlushInv ==
    /\ stopper = "joined" => pc = "returned"
    /\ failures = 0 =>
          /\ Len(file) = Top
          /\ pc \notin {"write", "recycle", "flush", "final"} =>
                onDisk = Len(file)

LEMMA InitFlushed == Init => FlushInv
  <1> SUFFICES ASSUME Init PROVE FlushInv
    OBVIOUS
  <1>1. /\ stopper = "no" /\ unwritten = <<>> /\ file = <<>> /\ onDisk = 0
        /\ appended = 0 /\ data[currentBuffer_] = <<>>
    BY DEF Init
  <1>2. Len(file) = 0 /\ Len(unwritten) = 0 /\ Len(data[currentBuffer_]) = 0
    <2>1. Len(<<>>) = 0
      OBVIOUS
    <2> QED
      BY <1>1, <2>1, Zenon
  <1>3. appended = 0 /\ onDisk = 0 /\ stopper = "no"
    BY <1>1
  <1>4. Top = 0
    BY <1>2, <1>3 DEF Top, First, Waiting
  <1> QED
    BY <1>2, <1>3, <1>4 DEF FlushInv

LEMMA NextFlushed ==
  ASSUME LogInv, FlushInv, [Next]_vars
  PROVE  FlushInv'
  <1> USE DEF FlushInv
  <1>1. /\ unwritten \in Seq(Nat) /\ file \in Seq(Nat)
        /\ currentBuffer_ \in Buffers /\ data \in [Buffers -> Seq(Nat)]
        /\ appended \in Nat /\ failures \in Nat
        /\ Len(unwritten) \in Nat /\ Len(Waiting) \in Nat
    BY LenProperties DEF LogInv, TypeOK, Waiting
  <1>2. CASE OnceInit \/ Started \/ Stop \/ Join \/ Entry \/ Check \/ Flush
             \/ UNCHANGED vars
    <2>1. /\ UNCHANGED <<file, unwritten, appended, data, currentBuffer_>>
          /\ Top' = Top
      BY <1>2 DEF OnceInit, Started, Stop, Join, Entry, Check, Flush, vars,
                  Top, First, Waiting
    <2>2. stopper' = "joined" => pc' = "returned"
      BY <1>2 DEF OnceInit, Started, Stop, Join, Entry, Check, Flush, vars,
                  LogInv, StartInv
    <2>3. ASSUME failures' = 0
          PROVE  /\ failures = 0
                 /\ \/ onDisk' = Len(file)
                    \/ onDisk' = onDisk /\ pc' = pc
                    \/ onDisk' = onDisk /\ pc \in {"off", "entry", "check"}
                    \/ onDisk' = onDisk /\ pc' = "final"
      <3>1. CASE Flush
        BY <1>1, <2>3, <3>1, FlushOutcome DEF Flush, LogInv
      <3>2. CASE OnceInit \/ Started \/ Stop \/ Join \/ Entry \/ Check
                 \/ UNCHANGED vars
        BY <1>1, <2>3, <3>2
        DEF OnceInit, Started, Stop, Join, Entry, Check, vars, LogInv, StartInv
      <3> QED
        BY <1>2, <3>1, <3>2
    <2> QED
      BY <2>1, <2>2, <2>3
  <1>3. CASE Output
    <2>1. /\ data' = [data EXCEPT ![currentBuffer_] = Append(@, appended + 1)]
          /\ appended' = appended + 1
          /\ UNCHANGED <<stopVars, frontVars, writeVars, fileVars, pc>>
      BY <1>3, SizeAssumption DEF Output, AppendLine, Avail
    <2>2. Waiting' = Append(Waiting, appended + 1) /\ Waiting \in Seq(Nat)
      BY <1>1, <2>1 DEF Waiting
    <2>3. Len(Waiting') = Len(Waiting) + 1
      BY <1>1, <2>2, AppendProperties
    <2>4. Top' = Top
      BY <1>1, <2>1, <2>3 DEF Top, First
    <2> QED
      BY <2>1, <2>4
  <1>4. CASE Swap
    <2>1. /\ buffers_ = <<>> /\ unwritten = <<>> /\ data[newBuffer1] = <<>>
      BY <1>4 DEF Swap, LogInv, RoundInv, NoSharedBuffer
    <2>2. /\ unwritten' = Waiting /\ Waiting' = <<>> /\ pc' = "write"
          /\ UNCHANGED <<stopVars, fileVars, failures, appended>>
          /\ pc = "wait"
      BY <1>4, <2>1 DEF Swap, Waiting
    <2>3. Top' = Top
      BY <1>1, <2>1, <2>2 DEF Top, First
    <2> QED
      BY <2>2, <2>3
  <1>5. CASE WriteLine
    <2>1. /\ Len(unwritten') = Len(unwritten) - 1
          /\ Len(file') = Len(file) + 1
          /\ pc = "write" /\ pc' = "write"
          /\ UNCHANGED <<stopVars, failures, appended, data, currentBuffer_>>
      BY <1>1, <1>5 DEF WriteLine
    <2>2. Top' = Top + 1
      BY <1>1, <2>1 DEF Top, First, Waiting
    <2> QED
      BY <2>1, <2>2
  <1>6. CASE WriteFails
    BY <1>1, <1>6 DEF WriteFails
  <1>7. CASE NextBuffer
    <2>1. Len(buffersToWrite) = 1 /\ writing = 1
      BY <1>7 DEF NextBuffer, LogInv, RoundInv
    <2>2. /\ pc = "write" /\ pc' = "recycle"
          /\ UNCHANGED <<stopVars, appended, data, currentBuffer_, unwritten,
                         file>>
          /\ FlushFile \/ UNCHANGED <<onDisk, failures>>
      BY <1>7, <2>1 DEF NextBuffer
    <2>3. failures' = 0 => failures = 0
      BY <1>1, <2>2, FlushOutcome DEF LogInv
    <2> QED
      BY <2>2, <2>3 DEF Top, First, Waiting
  <1>8. CASE Recycle
    <2>1. Len(buffersToWrite) = 1
      BY <1>8 DEF Recycle, LogInv, RoundInv
    <2>2. currentBuffer_ # buffersToWrite[1]
      BY <2>1 DEF LogInv, NoSharedBuffer
    <2>3. Waiting' = Waiting
      BY <1>1, <1>8, <2>1, <2>2 DEF Recycle, Waiting
    <2>4. /\ pc = "recycle" /\ pc' = "flush"
          /\ UNCHANGED <<stopVars, failures, appended, unwritten, file>>
      BY <1>8 DEF Recycle
    <2> QED
      BY <2>3, <2>4 DEF Top, First
  <1> QED
    BY <1>2, <1>3, <1>4, <1>5, <1>6, <1>7, <1>8 DEF Next, ThreadStep

(* When stop() returns, every line the thread had taken is on the disk,    *)
(* unless a call failed: only what is in the current buffer is lost.       *)
THEOREM StopKeepsTaken == SafeSpec => []StopFlushes
  <1>1. ASSUME LogInv, FlushInv PROVE StopFlushes
    <2> SUFFICES ASSUME stopper = "joined", failures = 0
                 PROVE  onDisk = appended - Len(data[currentBuffer_])
      BY DEF StopFlushes
    <2>1. pc = "returned" /\ unwritten = <<>>
      BY <1>1 DEF FlushInv, LogInv, RoundInv
    <2>2. /\ appended \in Nat /\ Len(Waiting) \in Nat
      BY <1>1, LenProperties DEF LogInv, TypeOK, Waiting
    <2> QED
      BY <1>1, <2>1, <2>2 DEF FlushInv, Top, First, Waiting
  <1> QED
    BY <1>1, InitLogInv, InitFlushed, NextPreserves, NextFlushed,
       PTL DEF SafeSpec

-----------------------------------------------------------------------------
(* The safety part of ImplementsTaskQueue.                                 *)

LEMMA InitRefines == Init => Queue!Init
  <1> SUFFICES ASSUME Init PROVE Queue!Init
    OBVIOUS
  <1>1. /\ unwritten = <<>> /\ data[currentBuffer_] = <<>>
        /\ file = <<>> /\ appended = 0 /\ failures = 0
    BY DEF Init
  <1>2. <<>> \o <<>> = <<>>
    BY ConcatEmptySeq, EmptySeq
  <1>3. (pc = "returned") = FALSE
    BY DEF Init
  <1>4. appended + 1 .. MaxLines = 1 .. MaxLines
    BY <1>1
  <1> QED
    BY <1>1, <1>2, <1>3, <1>4, Zenon DEF Queue!Init

(* append() submits the line; nothing else touches the supply.             *)
LEMMA OutputRefines ==
  ASSUME LogInv, Output
  PROVE  Queue!Next
  <1>1. /\ data' = [data EXCEPT ![currentBuffer_] = Append(@, appended + 1)]
        /\ appended' = appended + 1 /\ appended < MaxLines
        /\ UNCHANGED <<currentBuffer_, unwritten, file, failures, pc>>
    BY SizeAssumption DEF Output, AppendLine, Avail
  <1>2. /\ currentBuffer_ \in Buffers /\ data \in [Buffers -> Seq(Nat)]
        /\ unwritten \in Seq(Nat) /\ appended \in Nat
        /\ data[currentBuffer_] \in Seq(Nat)
    BY DEF LogInv, TypeOK
  <1>3. data'[currentBuffer_'] = Append(data[currentBuffer_], appended + 1)
    BY <1>1, <1>2
  <1>4. unwritten' \o data'[currentBuffer_']
          = Append(unwritten \o data[currentBuffer_], appended + 1)
    BY <1>1, <1>2, <1>3, AppendConcat
  <1>5. /\ appended + 1 \in 1 .. MaxLines
        /\ appended + 1 \in appended + 1 .. MaxLines
        /\ appended' + 1 .. MaxLines
             = (appended + 1 .. MaxLines) \ {appended + 1}
    BY <1>1, <1>2, LimitsAssumption
  <1>6. (pc = "returned")' = (pc = "returned")
    BY <1>1
  <1>7. Queue!Submit(appended + 1)
    BY <1>1, <1>4, <1>5, <1>6, Zenon DEF Queue!Submit
  <1> QED
    BY <1>5, <1>7, Zenon DEF Queue!Next

(* A call that fails loses a task or none, perhaps at the end.             *)
LEMMA FailureRefines ==
  ASSUME LogInv, UNCHANGED <<unwritten, data, currentBuffer_, appended, file>>,
         failures' = failures + 1, pc # "returned"
  PROVE  Queue!Next
  <1> DEFINE queue == unwritten \o data[currentBuffer_]
  <1>1. /\ queue \in Seq(Nat) /\ Len(queue) \in Nat
        /\ SubSeq(queue, 0 + 1, Len(queue)) = queue
    <2>1. unwritten \in Seq(Nat) /\ data[currentBuffer_] \in Seq(Nat)
      BY DEF LogInv, TypeOK
    <2>2. queue \in Seq(Nat)
      BY <2>1, ConcatProperties
    <2> HIDE DEF queue
    <2> QED
      BY <2>2, SuffixOfQueue, LenProperties
  <1>2. 0 \in 0 .. Len(queue)
    BY <1>1
  <1>5. ~(pc = "returned") /\ (pc = "returned")' \in {FALSE, TRUE}
    OBVIOUS
  <1>3. unwritten' \o data'[currentBuffer_'] = queue
    OBVIOUS
  <1>4. Queue!Lose
    BY <1>1, <1>2, <1>3, <1>5, Zenon DEF Queue!Lose
  <1> QED
    BY <1>4 DEF Queue!Next

(* A line that reaches the file is executed; a write that fails loses what *)
(* was left of its buffer, a flush that fails loses no task; the swap      *)
(* leaves the queue as it is; the thread's return is the stop.             *)
LEMMA ThreadRefines ==
  ASSUME LogInv, ThreadStep
  PROVE  [Queue!Next]_(Queue!vars)
  <1> DEFINE Same == /\ UNCHANGED <<appended, file, failures>>
                     /\ unwritten' \o data'[currentBuffer_']
                          = unwritten \o data[currentBuffer_]
  <1>1. /\ unwritten \in Seq(Nat) /\ data[currentBuffer_] \in Seq(Nat)
        /\ currentBuffer_ \in Buffers /\ data \in [Buffers -> Seq(Nat)]
    BY DEF LogInv, TypeOK
  <1>2. ASSUME Same, pc # "returned", pc' # "returned"
        PROVE  UNCHANGED Queue!vars
    <2>1. (pc = "returned")' = (pc = "returned")
      BY <1>2
    <2> QED
      BY <1>2, <2>1, Zenon DEF Queue!vars
  <1>3. CASE Entry \/ Check
    <2>1. Same /\ pc # "returned" /\ pc' # "returned"
      BY <1>3 DEF Entry, Check
    <2> QED
      BY <2>1, <1>2
  <1>4. CASE Swap
    <2>1. /\ buffers_ = <<>> /\ unwritten = <<>> /\ pc = "wait"
          /\ newBuffer1 # NoBuffer /\ data[newBuffer1] = <<>>
      BY <1>4 DEF Swap, LogInv, RoundInv, NoSharedBuffer
    <2>2. Append(buffers_, currentBuffer_)[1] = currentBuffer_
      BY <2>1
    <2>3. /\ unwritten' = data[currentBuffer_] /\ data' = data
          /\ currentBuffer_' = newBuffer1 /\ pc' = "write"
          /\ UNCHANGED <<appended, file, failures>>
      BY <1>4, <2>2 DEF Swap
    <2>4. Same
      BY <1>1, <2>1, <2>3, ConcatEmptySeq
    <2> QED
      BY <2>1, <2>3, <2>4, <1>2
  <1>5. CASE WriteLine
    <2>1. /\ unwritten # <<>>
          /\ unwritten' = Tail(unwritten)
          /\ data' = data /\ currentBuffer_' = currentBuffer_
          /\ file' = Append(file, Head(unwritten))
          /\ appended' = appended /\ failures' = failures
          /\ pc' = pc /\ ~(pc = "returned")
      BY <1>5 DEF WriteLine
    <2>2. /\ unwritten \o data[currentBuffer_] # <<>>
          /\ Head(unwritten \o data[currentBuffer_]) = Head(unwritten)
          /\ Tail(unwritten \o data[currentBuffer_])
               = Tail(unwritten) \o data[currentBuffer_]
      BY <1>1, <2>1, ConcatHeadTail
    <2>3. Queue!Execute
      BY <2>1, <2>2, Zenon DEF Queue!Execute
    <2> QED
      BY <2>3 DEF Queue!Next
  <1>6. CASE WriteFails
    <2> DEFINE queue == unwritten \o data[currentBuffer_]
    <2>1. /\ unwritten' = <<>>
          /\ data' = data /\ currentBuffer_' = currentBuffer_
          /\ file' = file /\ failures' = failures + 1
          /\ appended' = appended /\ ~(pc = "returned")
          /\ (pc = "returned")' \in {FALSE, TRUE}
      BY <1>6 DEF WriteFails
    <2>2. unwritten' \o data'[currentBuffer_'] = data[currentBuffer_]
      BY <1>1, <2>1, ConcatEmptySeq
    <2>3. /\ Len(unwritten) \in 0 .. Len(queue)
          /\ SubSeq(queue, Len(unwritten) + 1, Len(queue))
               = data[currentBuffer_]
      BY <1>1, ConcatSuffix
    <2>4. Queue!Lose
      BY <2>1, <2>2, <2>3, Zenon DEF Queue!Lose
    <2> QED
      BY <2>4 DEF Queue!Next
  <1>7. CASE NextBuffer
    <2>1. Len(buffersToWrite) = 1 /\ writing = 1
      BY <1>7 DEF NextBuffer, LogInv, RoundInv
    <2>2. ~(writing < Len(buffersToWrite))
      BY <2>1
    <2>3. /\ pc = "write" /\ pc' = "recycle"
          /\ UNCHANGED <<unwritten, appended, file, data, currentBuffer_>>
          /\ failures' = failures \/ failures' = failures + 1
      BY <1>7, <2>2 DEF NextBuffer, FlushFile
    <2> QED
      BY <2>3, <1>2, FailureRefines
  <1>8. CASE Recycle
    <2>1. Len(buffersToWrite) = 1
      BY <1>8 DEF Recycle, LogInv, RoundInv
    <2>2. currentBuffer_ # buffersToWrite[1]
      BY <2>1 DEF LogInv, NoSharedBuffer
    <2>3. /\ data'[currentBuffer_] = data[currentBuffer_]
          /\ currentBuffer_' = currentBuffer_
      BY <1>1, <1>8, <2>1, <2>2 DEF Recycle
    <2>4. Same /\ pc # "returned" /\ pc' # "returned"
      BY <1>8, <2>3 DEF Recycle
    <2> QED
      BY <2>4, <1>2
  <1>9. CASE Flush
    <2>1. /\ UNCHANGED <<unwritten, appended, file, data, currentBuffer_>>
          /\ failures' = failures \/ failures' = failures + 1
          /\ pc # "returned"
      BY <1>9 DEF Flush, FlushFile
    <2>2. CASE failures' = failures /\ pc' # "returned"
      BY <2>1, <2>2, <1>2
    <2>3. CASE failures' = failures /\ pc' = "returned"
      <3>1. Queue!Stop
        BY <2>1, <2>3, Zenon DEF Queue!Stop
      <3> QED
        BY <3>1 DEF Queue!Next
    <2>4. CASE failures' = failures + 1
      BY <2>1, <2>4, FailureRefines
    <2> QED
      BY <2>1, <2>2, <2>3, <2>4
  <1> QED
    BY <1>3, <1>4, <1>5, <1>6, <1>7, <1>8, <1>9 DEF ThreadStep

LEMMA NextRefines ==
  ASSUME LogInv, [Next]_vars
  PROVE  [Queue!Next]_(Queue!vars)
  <1>1. CASE Output
    BY <1>1, OutputRefines
  <1>2. CASE ThreadStep
    BY <1>2, ThreadRefines
  <1>3. ASSUME UNCHANGED <<appended, unwritten, data, currentBuffer_, file,
                     failures>>,
               (pc = "returned")' = (pc = "returned")
        PROVE  UNCHANGED Queue!vars
    BY <1>3, Zenon DEF Queue!vars
  <1>4. CASE OnceInit
    <2>1. /\ pc # "returned" /\ pc' # "returned"
          /\ UNCHANGED <<appended, unwritten, data, currentBuffer_, file>>
          /\ failures' = failures \/ failures' = failures + 1
      BY <1>4 DEF OnceInit, LogInv, StartInv
    <2>2. CASE failures' = failures
      BY <1>3, <2>1, <2>2, Zenon
    <2>3. CASE failures' = failures + 1
      BY <2>1, <2>3, FailureRefines
    <2> QED
      BY <2>1, <2>2, <2>3
  <1>5. CASE Started \/ Stop \/ Join \/ UNCHANGED vars
    BY <1>5, <1>3 DEF Started, Stop, Join, vars
  <1> QED
    BY <1>1, <1>2, <1>4, <1>5 DEF Next

(* The logger is a queue: each line is written at most once, in order, and *)
(* a line is left out before another that is written only where a call     *)
(* failed.                                                                 *)
THEOREM LogRefinesTaskQueue == SafeSpec => Queue!SafeSpec
  <1>1. LogInv /\ [Next]_vars => [Queue!Next]_(Queue!vars)
    BY NextRefines
  <1> QED
    BY <1>1, InitRefines, LogInvariant, PTL DEF SafeSpec, Queue!SafeSpec
=============================================================================
