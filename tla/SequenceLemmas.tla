---------------------------- MODULE SequenceLemmas ----------------------------
(***************************************************************************)
(* Facts about a queue in two parts, f \o p: what is being worked off and  *)
(* what has come since.  EventLoopProofs, AsyncLoggingProofs and           *)
(* AcceptorProofs map such a queue to the one of TaskQueue.                *)
(***************************************************************************)
EXTENDS Integers, Sequences, SequenceTheorems, TLAPS

(* What is added at the end of the second part is added to the queue.      *)
LEMMA AppendConcat ==
  ASSUME NEW S, NEW f \in Seq(S), NEW p \in Seq(S), NEW t \in S
  PROVE  f \o Append(p, t) = Append(f \o p, t)
  <1>1. <<t>> \in Seq(S) /\ f \o p \in Seq(S)
    BY ConcatProperties
  <1>2. Append(p, t) = p \o <<t>> /\ Append(f \o p, t) = (f \o p) \o <<t>>
    BY <1>1, AppendIsConcat
  <1> QED
    BY <1>1, <1>2, ConcatAssociative

(* What is taken from the first part is taken from the queue.              *)
LEMMA ConcatHeadTail ==
  ASSUME NEW S, NEW f \in Seq(S), NEW p \in Seq(S), f # <<>>
  PROVE  /\ f \o p # <<>>
         /\ Head(f \o p) = Head(f)
         /\ Tail(f \o p) = Tail(f) \o p
  <1>1. f \o p # <<>>
    BY ConcatEqualIffEmpty
  <1>2. f \o p \in Seq(S) /\ Len(f) \in Nat \ {0}
    BY ConcatProperties, EmptySeq
  <1>3. Head(f \o p) = Head(f)
    BY <1>1, <1>2, ConcatProperties, LenProperties
  <1>4. Tail(f) \in Seq(S) /\ Tail(f \o p) \in Seq(S)
    BY <1>1, <1>2, HeadTailProperties
  <1>5. Tail(f) \o p \in Seq(S)
    BY <1>4, ConcatProperties
  <1>6. Len(Tail(f \o p)) = Len(Tail(f) \o p)
    BY <1>1, <1>2, <1>4, ConcatProperties, HeadTailProperties, LenProperties
  <1>7. ASSUME NEW i \in 1 .. Len(Tail(f \o p))
        PROVE  Tail(f \o p)[i] = (Tail(f) \o p)[i]
    BY <1>1, <1>2, <1>4, ConcatProperties, HeadTailProperties, LenProperties
  <1>8. Tail(f \o p) = Tail(f) \o p
    BY <1>4, <1>5, <1>6, <1>7, SeqEqual
  <1> QED
    BY <1>1, <1>3, <1>8

(* What is left of the queue when the first part is given up.              *)
LEMMA ConcatSuffix ==
  ASSUME NEW S, NEW f \in Seq(S), NEW p \in Seq(S)
  PROVE  /\ Len(f) \in 0 .. Len(f \o p)
         /\ SubSeq(f \o p, Len(f) + 1, Len(f \o p)) = p
  <1> DEFINE s == SubSeq(f \o p, Len(f) + 1, Len(f \o p))
  <1>1. /\ f \o p \in Seq(S) /\ Len(f \o p) = Len(f) + Len(p)
        /\ Len(f) \in Nat /\ Len(p) \in Nat
        /\ \A i \in 1 .. Len(f \o p) :
              (f \o p)[i] = IF i <= Len(f) THEN f[i] ELSE p[i - Len(f)]
    BY ConcatProperties, LenProperties
  <1>2. \A i \in Len(f) + 1 .. Len(f \o p) : (f \o p)[i] \in S
    BY <1>1, ElementOfSeq
  <1>3. /\ s \in Seq(S) /\ Len(s) = Len(p)
        /\ \A i \in 1 .. Len(p) : s[i] = (f \o p)[Len(f) + i]
    BY <1>1, <1>2, SubSeqProperties
  <1>4. \A i \in 1 .. Len(p) : s[i] = p[i]
    BY <1>1, <1>3
  <1>5. s = p
    BY <1>3, <1>4, SeqEqual
  <1> QED
    BY <1>1, <1>5

(* Nothing given up, and the first task given up.                          *)
LEMMA SuffixOfQueue ==
  ASSUME NEW S, NEW q \in Seq(S)
  PROVE  /\ SubSeq(q, 1, Len(q)) = q
         /\ q # <<>> => /\ 1 \in 0 .. Len(q)
                        /\ SubSeq(q, 2, Len(q)) = Tail(q)
  <1>1. <<>> \in Seq(S) /\ Len(<<>>) = 0 /\ <<>> \o q = q
    BY ConcatEmptySeq, EmptySeq
  <1>2. SubSeq(q, 1, Len(q)) = q
    BY <1>1, ConcatSuffix
  <1>3. ASSUME q # <<>>
        PROVE  1 \in 0 .. Len(q) /\ SubSeq(q, 2, Len(q)) = Tail(q)
    BY <1>3, EmptySeq, LenProperties, TailIsSubSeq
  <1> QED
    BY <1>2, <1>3
=============================================================================
