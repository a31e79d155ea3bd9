---------------------------- MODULE AcceptorProofs ----------------------------
(***************************************************************************)
(* Acceptor, for every number of loops, descriptors, clients and failures: *)
(* no descriptor is in two hands, no edge is lost, and the clients are     *)
(* handed over in order.                                                   *)
(***************************************************************************)
EXTENDS Acceptor, SequenceLemmas

LEMMA InitHolds == Init => AcceptorInv
  <1> SUFFICES ASSUME Init PROVE AcceptorInv
    OBVIOUS
  <1>1. PICK O \in SUBSET Fds :
           stage = [fd \in Fds |-> IF fd \in O THEN "other" ELSE "free"]
    BY DEF Init
  <1>2. stage \in [Fds -> Stages]
    BY <1>1 DEF Stages
  <1>3. TypeOK /\ OneOwner
    BY <1>2, SizesAssumption DEF Init, TypeOK, OneOwner, Loops
  <1>4. HeardInv /\ EdgeInv
    BY DEF Init, HeardInv, Heard, EdgeInv, NobodyOverlooked
  <1>5. LeakInv
    BY <1>1 DEF Init, LeakInv, KeepsListening, Leaked
  <1> QED
    BY <1>3, <1>4, <1>5 DEF AcceptorInv, OwnerInv

(* What the steps that only concern the listening socket leave alone.      *)
LEMMA OwnersKept ==
  ASSUME OneOwner, UNCHANGED loopVars
  PROVE  OneOwner'
  BY DEF OneOwner, loopVars

(* A descriptor that nobody uses is in no table and no queue.              *)
LEMMA FreeIsUnknown ==
  ASSUME TypeOK, OneOwner, NEW fd \in Fds, stage[fd] = "free"
  PROVE  /\ \A l \in Loops : fd \notin table[l]
         /\ \A l \in Loops : \A i \in 1 .. Len(pending[l]) : pending[l][i] # fd
  BY DEF OneOwner

LEMMA ListenPreserves ==
  ASSUME OwnerInv, Arrive \/ Start \/ Poll \/ AcceptEnds \/ Update
  PROVE  OwnerInv'
  <1> USE DEF OwnerInv
  <1>1. UNCHANGED loopVars /\ next_' = next_ /\ settled' = settled
    BY DEF Arrive, Start, Poll, AcceptEnds, Update, mainVars
  <1>2. TypeOK'
    <2>1. /\ arrived' \in Nat /\ backlog' \in Seq(Nat) /\ failures' \in Nat
          /\ missed' \in Nat
      <3>1. /\ backlog \in Seq(Nat) /\ arrived + 1 \in Nat /\ failures \in Nat
            /\ arrived \in Nat /\ failures + 1 \in Nat /\ missed \in Nat
        BY DEF TypeOK
      <3>2. Append(backlog, arrived + 1) \in Seq(Nat)
        BY <3>1, AppendProperties
      <3> QED
        BY <3>1, <3>2
        DEF Arrive, Start, Poll, AcceptEnds, Update, mainVars
    <2>2. /\ events_' \in BOOLEAN /\ lastEvents_' \in BOOLEAN
          /\ ready' \in BOOLEAN /\ channel' \in BOOLEAN
          /\ interest' \in {"none", "off", "on"}
          /\ pc' \in {"start", "poll", "accept", "update"}
      BY DEF TypeOK, Arrive, Start, Poll, AcceptEnds, Update, mainVars
    <2> QED
      BY <1>1, <2>1, <2>2 DEF TypeOK, loopVars
  <1>3. OneOwner'
    BY <1>1, OwnersKept
  <1>4. HeardInv'
    <2>1. CASE Arrive
      BY <2>1 DEF HeardInv, Heard, Arrive, mainVars
    <2>2. CASE Start
      BY <2>2 DEF HeardInv, Heard, Start
    <2>3. CASE Poll
      BY <2>3 DEF HeardInv, Heard, Poll
    <2>4. CASE AcceptEnds
      BY <2>4 DEF HeardInv, Heard, AcceptEnds
    <2>5. CASE Update
      BY <2>5 DEF HeardInv, Heard, Update
    <2> QED
      BY <2>1, <2>2, <2>3, <2>4, <2>5
  <1>5. EdgeInv'
    <2> USE DEF EdgeInv, NobodyOverlooked, Heard
    <2>1. CASE Arrive
      BY <2>1 DEF HeardInv, Arrive, mainVars
    <2>2. CASE Start
      BY <2>2 DEF HeardInv, Start
    <2>3. CASE Poll
      BY <2>3 DEF Poll
    <2>4. CASE AcceptEnds
      BY <2>4 DEF AcceptEnds
    <2>5. CASE Update
      BY <2>5 DEF HeardInv, Update
    <2> QED
      BY <2>1, <2>2, <2>3, <2>4, <2>5
  <1> QED
    BY <1>2, <1>3, <1>4, <1>5

LEMMA NextInLoops ==
  ASSUME TypeOK
  PROVE  Next_ \in Loops
  BY SizesAssumption DEF TypeOK, Loops, Next_

LEMMA AcceptPreserves ==
  ASSUME OwnerInv, NEW fd \in Fds,
         Accept(fd) \/ Refuse(fd) \/ NonBlockFails(fd)
  PROVE  OwnerInv'
  <1> USE DEF OwnerInv
  <1>1. /\ pc = "accept" /\ backlog # <<>> /\ backlog' = Tail(backlog)
        /\ next_' = Next_ /\ stage[fd] = "free"
        /\ UNCHANGED <<arrived, events_, lastEvents_, interest, ready, channel,
                       missed, table>>
    BY DEF Accept, Refuse, NonBlockFails, AcceptFd, Free, loopVars, epollVars,
           kernelVars
  <1>2. backlog' \in Seq(Nat) /\ Head(backlog) \in Nat /\ next_' \in Loops
    BY <1>1, HeadTailProperties, NextInLoops DEF TypeOK
  <1>6. HeardInv'
    BY <1>1 DEF HeardInv, Heard, Accept, Refuse, NonBlockFails
  <1>3. CASE Accept(fd)
    <2>1. /\ stage' = [stage EXCEPT ![fd] = "queued"]
          /\ pending' = [pending EXCEPT ![next_] = Append(@, fd)]
          /\ settled' = Append(settled, Head(backlog))
          /\ UNCHANGED <<pc, failures>>
      BY <1>3 DEF Accept
    <2>2. /\ next_ \in Loops /\ pending \in [Loops -> Seq(Fds)]
          /\ pending[next_] \in Seq(Fds)
      BY DEF TypeOK
    <2>3. /\ Append(pending[next_], fd) \in Seq(Fds)
          /\ Len(Append(pending[next_], fd)) = Len(pending[next_]) + 1
          /\ Len(pending[next_]) \in Nat
          /\ \A i \in 1 .. Len(pending[next_]) :
                Append(pending[next_], fd)[i] = pending[next_][i]
          /\ Append(pending[next_], fd)[Len(pending[next_]) + 1] = fd
      BY <2>2, AppendProperties, LenProperties
    <2>4. settled' \in Seq(Nat)
      BY <2>1, <1>2, AppendProperties DEF TypeOK
    <2>5. /\ pending' \in [Loops -> Seq(Fds)]
          /\ \A k \in Loops : k # next_ => pending'[k] = pending[k]
          /\ pending'[next_] = Append(pending[next_], fd)
      BY <2>1, <2>2, <2>3
    <2>6. stage' \in [Fds -> Stages]
      BY <2>1 DEF TypeOK, Stages
    <2>7. TypeOK'
      BY <1>1, <1>2, <2>1, <2>4, <2>5, <2>6 DEF TypeOK
    <2>8. \A l \in Loops : \A f \in table'[l] :
             stage'[f] = "open" /\ \A k \in Loops : f \in table'[k] => k = l
      BY <1>1, <2>1, FreeIsUnknown DEF OneOwner, TypeOK
    <2>9. \A l \in Loops : \A i \in 1 .. Len(pending'[l]) :
             \/ l = next_ /\ i = Len(pending[l]) + 1 /\ pending'[l][i] = fd
             \/ /\ i \in 1 .. Len(pending[l])
                /\ pending'[l][i] = pending[l][i]
                /\ pending[l][i] \in Fds /\ pending[l][i] # fd
      <3> SUFFICES ASSUME NEW l \in Loops, NEW i \in 1 .. Len(pending'[l])
                   PROVE  \/ /\ l = next_ /\ i = Len(pending[l]) + 1
                             /\ pending'[l][i] = fd
                          \/ /\ i \in 1 .. Len(pending[l])
                             /\ pending'[l][i] = pending[l][i]
                             /\ pending[l][i] \in Fds /\ pending[l][i] # fd
        OBVIOUS
      <3>1. pending[l] \in Seq(Fds)
        BY <2>2
      <3>2. \A j \in 1 .. Len(pending[l]) :
               pending[l][j] \in Fds /\ pending[l][j] # fd
        BY <1>1, <3>1, FreeIsUnknown
      <3>3. CASE l # next_
        BY <3>2, <3>3, <2>5
      <3>4. CASE l = next_
        BY <3>2, <3>4, <2>3, <2>5
      <3> QED
        BY <3>3, <3>4
    <2>10. \A l \in Loops : \A i \in 1 .. Len(pending'[l]) :
              /\ stage'[pending'[l][i]] = "queued"
              /\ \A k \in Loops : \A j \in 1 .. Len(pending'[k]) :
                    pending'[k][j] = pending'[l][i] => k = l /\ j = i
      <3> SUFFICES ASSUME NEW l \in Loops, NEW i \in 1 .. Len(pending'[l])
                   PROVE  /\ stage'[pending'[l][i]] = "queued"
                          /\ \A k \in Loops : \A j \in 1 .. Len(pending'[k]) :
                                pending'[k][j] = pending'[l][i] => k = l /\ j = i
        OBVIOUS
      <3>1. stage'[fd] = "queued" /\ \A f \in Fds : f # fd => stage'[f] = stage[f]
        BY <2>1 DEF TypeOK
      <3>2. stage'[pending'[l][i]] = "queued"
        BY <2>9, <3>1 DEF OneOwner
      <3>3. ASSUME NEW k \in Loops, NEW j \in 1 .. Len(pending'[k]),
                   pending'[k][j] = pending'[l][i]
            PROVE  k = l /\ j = i
        <4>1. CASE pending'[l][i] = fd
          BY <2>9, <3>3, <4>1
        <4>2. CASE pending'[l][i] # fd
          <5>1. /\ i \in 1 .. Len(pending[l]) /\ j \in 1 .. Len(pending[k])
                /\ pending'[l][i] = pending[l][i] /\ pending'[k][j] = pending[k][j]
            BY <2>9, <3>3, <4>2
          <5> QED
            BY <3>3, <5>1 DEF OneOwner
        <4> QED
          BY <4>1, <4>2
      <3> QED
        BY <3>2, <3>3
    <2>11. EdgeInv'
      BY <1>1, <2>1 DEF EdgeInv, NobodyOverlooked
    <2> QED
      BY <1>6, <2>7, <2>8, <2>10, <2>11 DEF OneOwner
  <1>4. CASE Refuse(fd)
    <2>1. UNCHANGED <<loopVars, pc, failures>>
          /\ settled' = Append(settled, Head(backlog))
      BY <1>4 DEF Refuse
    <2>2. settled' \in Seq(Nat)
      BY <1>2, <2>1, AppendProperties DEF TypeOK
    <2>3. TypeOK' /\ EdgeInv'
      BY <1>1, <1>2, <2>1, <2>2
      DEF TypeOK, EdgeInv, NobodyOverlooked, loopVars
    <2> QED
      BY <1>6, <2>1, <2>3, OwnersKept
  <1>5. CASE NonBlockFails(fd)
    <2>1. /\ stage' = [stage EXCEPT ![fd] = "leaked"] /\ pc' = "update"
          /\ failures' = failures + 1 /\ UNCHANGED <<settled, pending>>
      BY <1>5 DEF NonBlockFails
    <2>2. stage' \in [Fds -> Stages] /\ failures' \in Nat /\ failures' # 0
      BY <2>1 DEF TypeOK, Stages
    <2>3. TypeOK'
      BY <1>1, <1>2, <2>1, <2>2 DEF TypeOK
    <2>4. \A f \in Fds : f # fd => stage'[f] = stage[f]
      BY <2>1 DEF TypeOK
    <2>5. \A l \in Loops : \A i \in 1 .. Len(pending[l]) :
             pending[l][i] \in Fds /\ pending[l][i] # fd
      BY <1>1, FreeIsUnknown DEF TypeOK
    <2>6. \A l \in Loops : \A f \in table[l] : f \in Fds /\ f # fd
      BY <1>1, FreeIsUnknown DEF TypeOK
    <2>7. OneOwner'
      BY <1>1, <2>1, <2>4, <2>5, <2>6 DEF OneOwner
    <2>8. EdgeInv'
      <3>1. ~events_
        BY <1>1 DEF HeardInv
      <3> QED
        BY <1>1, <2>1, <3>1 DEF EdgeInv, NobodyOverlooked
    <2> QED
      BY <1>6, <2>3, <2>7, <2>8
  <1> QED
    BY <1>3, <1>4, <1>5

LEMMA LoopPreserves ==
  ASSUME OwnerInv, NEW l \in Loops, NEW fd \in Fds,
         NewEvent(l) \/ Remove(l, fd) \/ CloseFd(fd)
  PROVE  OwnerInv'
  <1> USE DEF OwnerInv
  <1>1. UNCHANGED <<arrived, listenVars, mainVars>>
    BY DEF NewEvent, Remove, CloseFd
  <1>2. HeardInv' /\ EdgeInv'
    BY <1>1
    DEF HeardInv, EdgeInv, NobodyOverlooked, Heard, listenVars, mainVars
  <1>3. CASE NewEvent(l)
    <2> DEFINE f == Head(pending[l])
    <2>1. /\ pending[l] \in Seq(Fds) /\ pending[l] # <<>>
          /\ stage \in [Fds -> Stages] /\ pending \in [Loops -> Seq(Fds)]
          /\ table \in [Loops -> SUBSET Fds]
      BY <1>3 DEF NewEvent, TypeOK
    <2>2. /\ f \in Fds /\ f = pending[l][1] /\ Len(pending[l]) \in Nat
          /\ Len(pending[l]) > 0
          /\ Tail(pending[l]) \in Seq(Fds)
          /\ Len(Tail(pending[l])) = Len(pending[l]) - 1
          /\ \A i \in 1 .. Len(pending[l]) - 1 :
                Tail(pending[l])[i] = pending[l][i + 1]
      BY <2>1, HeadTailProperties, EmptySeq, LenProperties
    <2> HIDE DEF f
    <2>3. /\ pending' = [pending EXCEPT ![l] = Tail(@)]
          /\ table' = [table EXCEPT ![l] = @ \cup {f}]
          /\ stage' = [stage EXCEPT ![f] = "open"]
      BY <1>3 DEF NewEvent, f
    <2>4. /\ pending' \in [Loops -> Seq(Fds)] /\ table' \in [Loops -> SUBSET Fds]
          /\ pending'[l] = Tail(pending[l])
          /\ \A k \in Loops : k # l => pending'[k] = pending[k]
      BY <2>1, <2>2, <2>3
    <2>5. stage' \in [Fds -> Stages]
      BY <2>1, <2>2, <2>3 DEF Stages
    <2>6. TypeOK'
      BY <1>1, <2>4, <2>5 DEF TypeOK, listenVars, mainVars
    <2>7. stage[f] = "queued"
      BY <2>2 DEF OneOwner
    <2>8. \A k \in Loops : f \notin table[k]
      BY <2>7 DEF OneOwner
    <2>9. \A k \in Loops : \A g \in table'[k] :
             stage'[g] = "open" /\ \A m \in Loops : g \in table'[m] => m = k
      BY <2>1, <2>2, <2>3, <2>8 DEF OneOwner
    <2>10. \A k \in Loops : \A i \in 1 .. Len(pending'[k]) :
              \/ k # l /\ i \in 1 .. Len(pending[k]) /\ pending'[k][i] = pending[k][i]
              \/ /\ k = l /\ i \in Nat /\ i + 1 \in 1 .. Len(pending[k])
                 /\ pending'[k][i] = pending[k][i + 1]
      <3> SUFFICES ASSUME NEW k \in Loops, NEW i \in 1 .. Len(pending'[k])
                   PROVE  \/ /\ k # l /\ i \in 1 .. Len(pending[k])
                             /\ pending'[k][i] = pending[k][i]
                          \/ /\ k = l /\ i \in Nat /\ i + 1 \in 1 .. Len(pending[k])
                             /\ pending'[k][i] = pending[k][i + 1]
        OBVIOUS
      <3>1. CASE k # l
        BY <3>1, <2>4
      <3>2. CASE k = l
        BY <3>2, <2>2, <2>4
      <3> QED
        BY <3>1, <3>2
    <2>11. \A k \in Loops : \A i \in 1 .. Len(pending[k]) : pending[k][i] \in Fds
      BY <2>1
    <2>12. 1 \in 1 .. Len(pending[l])
      BY <2>2
    <2>13. \A k \in Loops : \A i \in 1 .. Len(pending[k]) :
              pending[k][i] = f => k = l /\ i = 1
      BY <2>2, <2>12 DEF OneOwner
    <2>14. \A g \in Fds : g # f => stage'[g] = stage[g]
      BY <2>1, <2>2, <2>3
    <2>15. \A k \in Loops : \A i \in 1 .. Len(pending'[k]) :
              /\ pending'[k][i] \in Fds /\ pending'[k][i] # f
              /\ stage'[pending'[k][i]] = "queued"
      <3> SUFFICES ASSUME NEW k \in Loops, NEW i \in 1 .. Len(pending'[k])
                   PROVE  /\ pending'[k][i] \in Fds /\ pending'[k][i] # f
                          /\ stage'[pending'[k][i]] = "queued"
        OBVIOUS
      <3>1. PICK j \in 1 .. Len(pending[k]) :
               pending'[k][i] = pending[k][j] /\ (k # l \/ j # 1)
        BY <2>10, <2>2
      <3>2. pending[k][j] \in Fds /\ stage[pending[k][j]] = "queued"
        BY <2>11 DEF OneOwner
      <3> QED
        BY <3>1, <3>2, <2>13, <2>14
    <2>16. \A k \in Loops : \A i \in 1 .. Len(pending'[k]) :
              \A m \in Loops : \A j \in 1 .. Len(pending'[m]) :
                 pending'[m][j] = pending'[k][i] => m = k /\ j = i
      <3> SUFFICES ASSUME NEW k \in Loops, NEW i \in 1 .. Len(pending'[k]),
                          NEW m \in Loops, NEW j \in 1 .. Len(pending'[m]),
                          pending'[m][j] = pending'[k][i]
                   PROVE  m = k /\ j = i
        OBVIOUS
      <3>0. i \in Int /\ j \in Int
        OBVIOUS
      <3>1. PICK a \in 1 .. Len(pending[k]) :
               /\ pending'[k][i] = pending[k][a]
               /\ a = IF k = l THEN i + 1 ELSE i
        BY <2>10
      <3>2. PICK b \in 1 .. Len(pending[m]) :
               /\ pending'[m][j] = pending[m][b]
               /\ b = IF m = l THEN j + 1 ELSE j
        BY <2>10
      <3>3. m = k /\ b = a
        BY <3>1, <3>2 DEF OneOwner
      <3> QED
        BY <3>0, <3>1, <3>2, <3>3
    <2>17. OneOwner'
      BY <2>9, <2>15, <2>16 DEF OneOwner
    <2> QED
      BY <1>2, <2>6, <2>17
  <1>4. CASE Remove(l, fd) \/ CloseFd(fd)
    <2>1. /\ stage' \in [Fds -> Stages] /\ pending' = pending
          /\ stage[fd] \in {"open", "closing"}
          /\ \A g \in Fds : g # fd => stage'[g] = stage[g]
      BY <1>4 DEF Remove, CloseFd, TypeOK, Stages
    <2>2. /\ table' \in [Loops -> SUBSET Fds]
          /\ \A k \in Loops : table'[k] \subseteq table[k]
          /\ \A k \in Loops : fd \notin table'[k]
      <3>1. CASE Remove(l, fd)
        <4>1. /\ fd \in table[l] /\ table \in [Loops -> SUBSET Fds]
              /\ table' = [table EXCEPT ![l] = @ \ {fd}]
          BY <3>1 DEF Remove, TypeOK
        <4>2. \A k \in Loops : fd \in table[k] => k = l
          BY <4>1 DEF OneOwner
        <4> QED
          BY <4>1, <4>2
      <3>2. CASE CloseFd(fd)
        BY <3>2 DEF CloseFd, TypeOK, OneOwner
      <3> QED
        BY <1>4, <3>1, <3>2
    <2>3. TypeOK'
      BY <1>1, <2>1, <2>2 DEF TypeOK, listenVars, mainVars
    <2>4. \A k \in Loops : \A i \in 1 .. Len(pending[k]) :
             pending[k][i] \in Fds /\ pending[k][i] # fd
      BY <2>1 DEF TypeOK, OneOwner
    <2>5. \A k \in Loops : \A g \in table'[k] : g \in Fds /\ g # fd
      BY <2>2
    <2>6. OneOwner'
      BY <2>1, <2>2, <2>4, <2>5 DEF OneOwner
    <2> QED
      BY <1>2, <2>3, <2>6
  <1> QED
    BY <1>3, <1>4

LEMMA StutterPreserves ==
  ASSUME OwnerInv, UNCHANGED vars
  PROVE  OwnerInv'
  BY DEF OwnerInv, TypeOK, OneOwner, HeardInv, EdgeInv, NobodyOverlooked, Heard,
         vars, listenVars, mainVars, loopVars

(* A descriptor that has leaked stays so, and nothing else leaves the      *)
(* channel without events.                                                 *)
LEMMA LeakPreserves ==
  ASSUME OwnerInv, LeakInv, [Next]_vars
  PROVE  LeakInv'
  <1>0. TypeOK /\ HeardInv
    BY DEF OwnerInv
  <1>1. ASSUME NEW f \in Fds, stage[f] = "leaked"
        PROVE  stage'[f] = "leaked"
    <2>1. CASE UNCHANGED stage
      BY <1>1, <2>1
    <2>2. ASSUME NEW fd \in Fds,
                 \/ Accept(fd) \/ NonBlockFails(fd) \/ CloseFd(fd)
                 \/ \E l \in Loops : Remove(l, fd)
          PROVE  stage'[f] = "leaked"
      BY <1>0, <1>1, <2>2
      DEF Accept, NonBlockFails, CloseFd, Remove, AcceptFd, Free, TypeOK
    <2>3. ASSUME NEW l \in Loops, NewEvent(l)
          PROVE  stage'[f] = "leaked"
      <3>1. pending[l] \in Seq(Fds) /\ pending[l] # <<>>
        BY <1>0, <2>3 DEF NewEvent, TypeOK
      <3>2. Len(pending[l]) \in Nat \ {0} /\ Head(pending[l]) = pending[l][1]
        BY <3>1, EmptySeq, LenProperties
      <3>3. stage[Head(pending[l])] = "queued"
        BY <3>2 DEF OwnerInv, OneOwner
      <3> QED
        BY <1>0, <1>1, <2>3, <3>3 DEF NewEvent, TypeOK
    <2> QED
      BY <2>1, <2>2, <2>3
      DEF Next, MainStep, Arrive, Start, Poll, AcceptEnds, Update, Refuse,
          loopVars, vars
  <1>2. failures' \in Nat /\ failures' >= failures
    BY <1>0
    DEF TypeOK, Next, MainStep, Arrive, Start, Poll, Accept, Refuse,
        NonBlockFails, AcceptEnds, Update, NewEvent, Remove, CloseFd, vars,
        listenVars, mainVars
  <1>3. Leaked => Leaked'
    BY <1>1 DEF Leaked
  <1>4. ASSUME \A fd \in Fds : ~NonBlockFails(fd)
        PROVE  (Leaked' => failures' > 0)
    <2>1. Leaked' => Leaked
      <3>1. ASSUME NEW f \in Fds, stage'[f] = "leaked" PROVE stage[f] = "leaked"
        BY <1>0, <1>4, <3>1
        DEF Next, MainStep, Arrive, Start, Poll, AcceptEnds, Update, Accept,
            Refuse, NewEvent, Remove, CloseFd, loopVars, vars, TypeOK
      <3> QED
        BY <3>1 DEF Leaked
    <2> QED
      BY <1>0, <1>2, <2>1 DEF LeakInv, TypeOK
  <1>5. CASE Arrive
    <2>1. UNCHANGED <<pc, events_, interest, channel, failures>>
          /\ \A fd \in Fds : ~NonBlockFails(fd)
      BY <1>0, <1>5 DEF Arrive, mainVars, NonBlockFails, TypeOK
    <2> QED
      BY <1>3, <1>4, <2>1 DEF LeakInv, KeepsListening, Heard
  <1>6. CASE Start \/ Poll \/ AcceptEnds \/ Update
    <2>1. UNCHANGED stage
      BY <1>6 DEF Start, Poll, AcceptEnds, Update, loopVars
    <2>2. Leaked' <=> Leaked
      BY <2>1 DEF Leaked
    <2>3. CASE Start
      BY <1>0, <1>2, <2>2, <2>3
      DEF LeakInv, KeepsListening, Heard, Start, TypeOK, HeardInv
    <2>4. CASE Poll
      BY <2>2, <2>4 DEF LeakInv, KeepsListening, Heard, Poll
    <2>5. CASE AcceptEnds
      BY <1>0, <1>2, <2>2, <2>5 DEF LeakInv, KeepsListening, AcceptEnds, TypeOK
    <2>6. CASE Update
      <3>1. CASE Leaked
        BY <1>0, <1>2, <2>2, <2>6, <3>1
        DEF LeakInv, KeepsListening, Update, TypeOK
      <3>2. CASE ~Leaked
        <4>1. events_ /\ lastEvents_ /\ Heard
          BY <1>0, <2>6, <3>2 DEF LeakInv, HeardInv, Update
        <4>2. pc' = "poll" /\ UNCHANGED <<interest, channel, events_>>
          BY <2>6, <4>1 DEF Update, TypeOK
        <4> QED
          BY <2>2, <3>2, <4>1, <4>2 DEF LeakInv, KeepsListening, Heard
      <3> QED
        BY <3>1, <3>2
    <2> QED
      BY <1>6, <2>3, <2>4, <2>5, <2>6
  <1>7. ASSUME NEW fd \in Fds, Accept(fd) \/ Refuse(fd) PROVE LeakInv'
    <2>1. pc' = "accept" /\ failures' = failures
      BY <1>7 DEF Accept, Refuse, AcceptFd
    <2>2. \A f \in Fds : ~NonBlockFails(f)
      BY <1>0, <2>1 DEF NonBlockFails
    <2> QED
      BY <1>4, <2>1, <2>2 DEF LeakInv, KeepsListening
  <1>8. ASSUME NEW fd \in Fds, NonBlockFails(fd) PROVE LeakInv'
    <2>1. pc' = "update" /\ stage'[fd] = "leaked" /\ failures' > 0
      BY <1>0, <1>8 DEF NonBlockFails, TypeOK
    <2> QED
      BY <2>1 DEF LeakInv, KeepsListening, Leaked
  <1>9. ASSUME UNCHANGED <<listenVars, mainVars>> PROVE LeakInv'
    <2>1. UNCHANGED <<pc, events_, interest, channel, failures>>
      BY <1>9 DEF listenVars, mainVars
    <2>2. \A fd \in Fds : ~NonBlockFails(fd)
      BY <1>0, <2>1 DEF NonBlockFails, TypeOK
    <2> QED
      BY <1>3, <1>4, <2>1, <2>2 DEF LeakInv, KeepsListening, Heard
  <1> QED
    BY <1>5, <1>6, <1>7, <1>8, <1>9
    DEF Next, MainStep, NewEvent, Remove, CloseFd, vars

LEMMA OwnerPreserves ==
  ASSUME OwnerInv, [Next]_vars
  PROVE  OwnerInv'
  <1>1. CASE Arrive
    BY <1>1, ListenPreserves
  <1>2. CASE MainStep
    BY <1>2, ListenPreserves, AcceptPreserves DEF MainStep
  <1>3. CASE \E l \in Loops : NewEvent(l)
    <2>1. PICK l \in Loops : NewEvent(l)
      BY <1>3
    <2>2. \E fd \in Fds : TRUE
      <3>1. pending[l] \in Seq(Fds) /\ pending[l] # <<>>
        BY <2>1 DEF OwnerInv, TypeOK, NewEvent
      <3> QED
        BY <3>1, HeadTailProperties
    <2> QED
      BY <2>1, <2>2, LoopPreserves
  <1>4. CASE \E l \in Loops : \E fd \in Fds : Remove(l, fd)
    BY <1>4, LoopPreserves
  <1>5. CASE \E fd \in Fds : CloseFd(fd)
    <2>1. 0 \in Loops
      BY SizesAssumption DEF Loops
    <2> QED
      BY <1>5, <2>1, LoopPreserves
  <1>6. CASE UNCHANGED vars
    BY <1>6, StutterPreserves
  <1> QED
    BY <1>1, <1>2, <1>3, <1>4, <1>5, <1>6 DEF Next

\* The types, the owners of the descriptors, the edge of the listening socket
\* and the events of its channel, together: the invariant behind the others.
THEOREM AcceptorInvariant == SafeSpec => []AcceptorInv
  <1>1. AcceptorInv /\ [Next]_vars => AcceptorInv'
    BY OwnerPreserves, LeakPreserves DEF AcceptorInv, OwnerInv
  <1> QED
    BY InitHolds, <1>1, PTL DEF SafeSpec

\* The variables keep their types.
THEOREM TypeCorrect == SafeSpec => []TypeOK
  <1>1. AcceptorInv => TypeOK
    BY DEF AcceptorInv, OwnerInv
  <1> QED
    BY AcceptorInvariant, <1>1, PTL

\* No descriptor is in the hands of two loops, or of a loop and of accept().
THEOREM DescriptorsHaveOneOwner == SafeSpec => []OneOwner
  <1>1. AcceptorInv => OneOwner
    BY DEF AcceptorInv, OwnerInv
  <1> QED
    BY AcceptorInvariant, <1>1, PTL

\* While it hears of clients, the main loop does not wait over one, but for
\* those that accept() failed for, and then until the next client.
THEOREM NoClientIsOverlooked == SafeSpec => []NobodyOverlooked
  <1>1. AcceptorInv => NobodyOverlooked
    BY DEF AcceptorInv, OwnerInv, EdgeInv
  <1> QED
    BY AcceptorInvariant, <1>1, PTL

\* The main loop is deaf to clients only if epoll_ctl refused the listening
\* socket at the start, or after a client that could not be made non-blocking.
THEOREM ServerKeepsListening == SafeSpec => []KeepsListening
  <1>1. AcceptorInv => KeepsListening
    BY DEF AcceptorInv, LeakInv
  <1> QED
    BY AcceptorInvariant, <1>1, PTL

-----------------------------------------------------------------------------
(* The refinement.                                                         *)

LEMMA InitRefines == Init => Queue!Init
  BY DEF Init, Queue!Init

(* A client that connects is a task submitted; one that is accepted or     *)
(* refused is the task at the head; a call that fails is a loss, of that   *)
(* client or of none; nothing else is visible.                             *)
LEMMA StepRefines ==
  ASSUME TypeOK, [Next]_vars
  PROVE  [Queue!Next]_(Queue!vars)
  <1>0. backlog \in Seq(Nat)
    BY DEF TypeOK
  <1>1. CASE Arrive
    <2>1. arrived + 1 \in 1 .. MaxClients
      BY <1>1, SizesAssumption DEF Arrive, TypeOK
    <2>2. /\ arrived + 1 \in arrived + 1 .. MaxClients
          /\ arrived' + 1 .. MaxClients =
                (arrived + 1 .. MaxClients) \ {arrived + 1}
      BY <1>1, SizesAssumption DEF Arrive, TypeOK
    <2>3. Queue!Submit(arrived + 1)
      BY <1>1, <2>2 DEF Arrive, mainVars, Queue!Submit
    <2> QED
      BY <2>1, <2>3 DEF Queue!Next
  <1>2. ASSUME NEW fd \in Fds, Accept(fd) \/ Refuse(fd) PROVE Queue!Execute
    BY <1>2 DEF Accept, Refuse, AcceptFd, Queue!Execute
  <1>3. ASSUME NEW fd \in Fds, NonBlockFails(fd) PROVE Queue!Lose
    <2>1. /\ backlog # <<>> /\ backlog' = Tail(backlog)
          /\ failures' = failures + 1 /\ UNCHANGED <<arrived, settled>>
      BY <1>3 DEF NonBlockFails, AcceptFd
    <2>2. 1 \in 0 .. Len(backlog) /\ SubSeq(backlog, 1 + 1, Len(backlog)) = Tail(backlog)
      BY <1>0, <2>1, SuffixOfQueue
    <2> QED
      BY <2>1, <2>2, Zenon DEF Queue!Lose
  <1>4. CASE (Start \/ AcceptEnds \/ Update) /\ failures' # failures
    <2>1. /\ backlog' = backlog
          /\ failures' = failures + 1 /\ UNCHANGED <<arrived, settled>>
      BY <1>4 DEF Start, AcceptEnds, Update
    <2>2. 0 \in 0 .. Len(backlog) /\ SubSeq(backlog, 0 + 1, Len(backlog)) = backlog
      BY <1>0, SuffixOfQueue, LenProperties
    <2>3. Queue!Lose
      BY <2>1, <2>2, Zenon DEF Queue!Lose
    <2> QED
      BY <2>3 DEF Queue!Next
  <1>5. CASE Poll \/ ((Start \/ AcceptEnds \/ Update) /\ failures' = failures)
    BY <1>5 DEF Start, Poll, AcceptEnds, Update, mainVars, Queue!vars
  <1>6. ASSUME NEW l \in Loops,
               NewEvent(l) \/ \E fd \in Fds : Remove(l, fd) \/ CloseFd(fd)
        PROVE  UNCHANGED Queue!vars
    BY <1>6 DEF NewEvent, Remove, CloseFd, listenVars, mainVars, Queue!vars
  <1>7. ASSUME NEW fd \in Fds, CloseFd(fd) PROVE UNCHANGED Queue!vars
    BY <1>7 DEF CloseFd, listenVars, mainVars, Queue!vars
  <1>8. CASE UNCHANGED vars
    BY <1>8 DEF vars, listenVars, mainVars, Queue!vars
  <1> QED
    BY <1>1, <1>2, <1>3, <1>4, <1>5, <1>6, <1>7, <1>8
    DEF Next, MainStep, Queue!Next

\* The clients are handed to the loops, or turned away for the number of their
\* descriptor, once each and in the order they came, and one is left out only
\* where a call failed: the safety half of ImplementsTaskQueue.
THEOREM AcceptorRefinesTaskQueue == SafeSpec => Queue!SafeSpec
  <1>1. TypeOK /\ [Next]_vars => [Queue!Next]_(Queue!vars)
    BY StepRefines
  <1> QED
    BY InitRefines, TypeCorrect, <1>1, PTL DEF SafeSpec, Queue!SafeSpec
=============================================================================
