--------------------------- MODULE HttpParserProofs ---------------------------
(***************************************************************************)
(* What HttpParser is proved to do, for every set of streams, of any       *)
(* number of requests, headers and characters, noise among them, and every *)
(* way to cut them.                                                        *)
(*                                                                         *)
(* AnyInv says what holds whatever tokens a client sends. For whole        *)
(* requests, IInv says where in the stream the parser can be. Wherever a   *)
(* read ended, hState_ and the place of the buffer determine what the next *)
(* token can be, and with it what the next action may do.                  *)
(***************************************************************************)
EXTENDS HttpParser, SequenceLemmas, FiniteSetTheorems, TLAPS

-----------------------------------------------------------------------------
(* Sequences.                                                              *)

(* The sequence of one element.                                            *)
LEMMA Single ==
  ASSUME NEW a, NEW s, s = [i \in 1 .. 1 |-> a]
  PROVE  s = <<a>>
  <1>1. s \in Seq({a}) /\ Len(s) = 1 /\ s[1] = a
    OBVIOUS
  <1>2. <<a>> \in Seq({a}) /\ Len(<<a>>) = 1 /\ <<a>>[1] = a
    OBVIOUS
  <1>3. \A i \in 1 .. Len(s) : s[i] = <<a>>[i]
    BY <1>1, <1>2
  <1> QED
    BY <1>1, <1>2, <1>3, SeqEqual

\* A sequence, of whatever its elements are.
IsSequence(s) == s \in Seq({s[i] : i \in DOMAIN s})

(* What Append makes of a sequence.                                        *)
LEMMA Growth ==
  ASSUME NEW s, IsSequence(s), NEW e
  PROVE  LET t == Append(s, e)
         IN  /\ IsSequence(t) /\ Len(s) \in Nat /\ Len(t) = Len(s) + 1
             /\ \A i \in 1 .. Len(s) : t[i] = s[i]
             /\ t[Len(s) + 1] = e
  <1> DEFINE t == Append(s, e)
             S == {s[i] : i \in DOMAIN s}
  <1>1. s \in Seq(S \cup {e}) /\ Len(s) \in Nat
    <2>1. s \in Seq(S)
      BY DEF IsSequence
    <2>2. Len(s) \in Nat /\ \A i \in 1 .. Len(s) : s[i] \in S
      BY <2>1, LenProperties, ElementOfSeq
    <2> HIDE DEF S
    <2> QED
      BY <2>1, <2>2
  <1> HIDE DEF S
  <1>2. /\ t \in Seq(S \cup {e}) /\ Len(t) = Len(s) + 1
        /\ \A i \in 1 .. Len(s) : t[i] = s[i]
        /\ t[Len(s) + 1] = e
    BY <1>1, AppendProperties
  <1> HIDE DEF t
  <1>3. DOMAIN t = 1 .. Len(t) /\ t = [i \in 1 .. Len(t) |-> t[i]]
    BY <1>2, LenProperties
  <1>4. t \in [1 .. Len(t) -> {t[i] : i \in DOMAIN t}] /\ Len(t) \in Nat
    BY <1>1, <1>2, <1>3
  <1>5. t \in Seq({t[i] : i \in DOMAIN t})
    BY <1>4, SeqDef
  <1> QED
    BY <1>1, <1>2, <1>5 DEF IsSequence, t

(* What is left of a buffer when its first k tokens are dropped.           *)
LEMMA Rest ==
  ASSUME NEW S, NEW q \in Seq(S), NEW k \in 1 .. Len(q) + 2
  PROVE  LET r == SubSeq(q, k, Len(q))
         IN  /\ r \in Seq(S)
             /\ Len(r) = IF k <= Len(q) THEN Len(q) + 1 - k ELSE 0
             /\ \A i \in 1 .. Len(r) : r[i] = q[k + i - 1]
  <1> DEFINE r == SubSeq(q, k, Len(q))
  <1>1. \A i \in 1 .. Len(q) : q[i] \in S
    BY ElementOfSeq
  <1>2. Len(q) \in Nat
    BY LenProperties
  <1>3. r \in Seq(S) /\ Len(r) = IF k <= Len(q) THEN Len(q) + 1 - k ELSE 0
    BY <1>1, <1>2, SubSeqProperties
  <1>4. \A i \in 1 .. Len(r) : r[i] = q[k + i - 1]
    BY <1>1, <1>2, <1>3, SubSeqProperties
  <1> QED
    BY <1>3, <1>4

\* The place of token c in s; 0 if it is not there.
Find(s, c) == SelectInSeq(s, LAMBDA d : d = c)

(* Where a token is for the first time.                                    *)
LEMMA FirstAt ==
  ASSUME NEW S, NEW s \in Seq(S), NEW c, NEW j \in 1 .. Len(s), s[j] = c,
         \A m \in 1 .. j - 1 : s[m] # c
  PROVE  Find(s, c) = j
  <1> DEFINE I == {m \in 1 .. Len(s) : s[m] = c}
  <1>1. Find(s, c) = IF I # {} THEN Min(I) ELSE 0
    BY DEF Find, SelectInSeq
  <1>2. j \in I /\ \A m \in I : j <= m
    BY LenProperties
  <1>3. Min(I) = j
    BY <1>2, LenProperties, SMT DEF Min
  <1> QED
    BY <1>1, <1>2, <1>3

(* Places in a sequence, some at least, have a first.                      *)
LEMMA Least ==
  ASSUME NEW N \in Nat, NEW I \in SUBSET (1 .. N), I # {}
  PROVE  Min(I) \in I
  <1> DEFINE B == {m \in 1 .. N : \A i \in I : m < i}
             k == Cardinality(B)
  <1>1. B \subseteq 1 .. N /\ IsFiniteSet(B) /\ k \in Nat /\ k <= N
    <2>1. IsFiniteSet(1 .. N) /\ Cardinality(1 .. N) = N
      BY FS_Interval
    <2>2. B \subseteq 1 .. N
      OBVIOUS
    <2>3. IsFiniteSet(B) /\ Cardinality(B) <= Cardinality(1 .. N)
      BY <2>1, <2>2, FS_Subset
    <2> QED
      BY <2>1, <2>2, <2>3, FS_CardinalityType
  <1>2. IsFiniteSet(1 .. k) /\ Cardinality(1 .. k) = k
    BY <1>1, FS_Interval
  <1>3. B \subseteq 1 .. k
    <2> SUFFICES ASSUME NEW m \in B
                 PROVE  m <= k
      BY <1>1
    <2>1. 1 .. m \subseteq B
      OBVIOUS
    <2>2. Cardinality(1 .. m) = m
      BY FS_Interval
    <2> QED
      BY <2>1, <2>2, <1>1, FS_Subset
  <1>4. B = 1 .. k
    BY <1>2, <1>3, FS_Subset
  <1>5. k + 1 \notin B /\ \A i \in I : k < i
    <2>1. k + 1 \notin 1 .. k /\ (k = 0 \/ k \in 1 .. k)
      BY <1>1
    <2> HIDE DEF k
    <2>2. k = 0 => \A i \in I : k < i
      OBVIOUS
    <2>3. k \in B => \A i \in I : k < i
      OBVIOUS
    <2> QED
      BY <2>1, <2>2, <2>3, <1>4
  <1>6. k + 1 \in I
    <2> HIDE DEF k
    <2>1. k + 1 \in 1 .. N
      <3>1. PICK i \in I : TRUE
        OBVIOUS
      <3> QED
        BY <3>1, <1>1, <1>5
    <2>2. \E i \in I : ~(k + 1 < i)
      BY <2>1, <1>5
    <2> QED
      BY <2>2, <1>5, <1>1
  <1>7. \A i \in I : k + 1 <= i
    BY <1>1, <1>5
  <1> HIDE DEF k
  <1> QED
    BY <1>6, <1>7 DEF Min

(* Where a token is, if it is anywhere.                                    *)
LEMMA FindPlace ==
  ASSUME NEW S, NEW s \in Seq(S), NEW c
  PROVE  Find(s, c) \in 0 .. Len(s)
  <1> DEFINE I == {m \in 1 .. Len(s) : s[m] = c}
  <1>1. Find(s, c) = IF I # {} THEN Min(I) ELSE 0
    BY DEF Find, SelectInSeq
  <1>2. Len(s) \in Nat /\ I \in SUBSET (1 .. Len(s))
    BY LenProperties
  <1>3. I # {} => Min(I) \in 1 .. Len(s)
    BY <1>2, Least
  <1> HIDE DEF I
  <1> QED
    BY <1>1, <1>2, <1>3

(* 0 stands for a token that is not there.                                 *)
LEMMA NotAt ==
  ASSUME NEW S, NEW s \in Seq(S), NEW c, \A m \in 1 .. Len(s) : s[m] # c
  PROVE  Find(s, c) = 0
  <1> DEFINE I == {m \in 1 .. Len(s) : s[m] = c}
  <1>1. Find(s, c) = IF I # {} THEN Min(I) ELSE 0
    BY DEF Find, SelectInSeq
  <1> QED
    BY <1>1

(* Where the parser is in the stream.                                      *)

T(x) == stream.text[x]
n == Len(answers)

\* The last token that the answered requests took, that of the current one,
\* and the last token before the buffer.
From == End(n)
Upto == End(n + 1)
Base == pos - Len(inBuffer_)

Hs == Len(Current.headers)

\* In the current request: the name of header h, the LF behind it (for h = 0:
\* behind the request line), and the end of all headers.
NameAt(h) == From + 6 * h - 1
LfAt(h) == From + 6 * h + 4
HeadEnd == From + 6 * Hs + 6

\* What holds of the buffer whatever the client sends.
Held ==
    /\ stream \in Streams \cup Noise /\ stream.text \in Seq(Tokens)
    /\ delivery \in Deliveries /\ pos \in 0 .. Len(stream.text)
    /\ inBuffer_ \in Seq(Tokens) /\ Len(inBuffer_) <= pos

BufferInv ==
    /\ stream \in Streams /\ delivery \in Deliveries
    /\ pos \in 0 .. Len(stream.text)
    /\ inBuffer_ \in Seq(Tokens) /\ Len(inBuffer_) <= pos
    /\ \A i \in 1 .. Len(inBuffer_) : inBuffer_[i] = T(Base + i)

ControlInv ==
    /\ state_ \in {"URI", "HEADERS", "BODY", "ANALYSIS"} /\ hState_ \in HStates
    /\ method_ \in Methods
    /\ pc \in {"idle", "again", "pass", "scan", "closed"}
    /\ error_ \in {"no", "400", "analysis", "abort"}
    /\ pc = "closed" <=> error_ # "no"
    /\ pc = "again" => state_ = "URI"
    /\ pc = "idle" => state_ # "ANALYSIS"
    /\ pc = "scan" => state_ = "HEADERS"
    /\ state_ = "URI" => hState_ = "START"

ScanInv ==
    /\ scan \in [i : Nat, key_start : Nat, key_end : Nat, value_start : Nat,
                 value_end : Nat, begin : Nat]
    /\ scan.i \in 1 .. Len(stream.text) + 1
    /\ scan.begin \in 1 .. scan.i
    /\ pc = "scan" => scan.i <= Len(inBuffer_) + 1

AnswersInv ==
    /\ IsSequence(answers)
    /\ n \in 0 .. Len(requests)
    /\ From <= pos
    /\ From > 0 => T(From) = "LF"
    /\ state_ = "URI" => headers_ = NoHeaders
    /\ state_ # "URI" => n < Len(requests) /\ method_ = Current.method

\* A key that is the name of no header: of another length than one token, or
\* read from in front of the buffer.
Foreign(k) == DOMAIN k # {1} \/ k[1] = "junk"

KeysInv ==
    \A k \in DOMAIN headers_ :
        /\ n < Len(requests)
        /\ \/ Foreign(k)
           \/ \E h \in 1 .. Hs : /\ k = <<Current.headers[h].name>>
                                 /\ headers_[k] = <<Current.headers[h].value>>

\* Places from which parseHeaders, when it looks for a name, finds the end of
\* a line or another request before it finds a colon.
Dead(x) ==
    \/ x \in From + 1 .. From + 3
    \/ x \in LfAt(Hs) .. LfAt(Hs) + 1
    \/ Hs = 0 /\ x \in HeadEnd + 1 .. Upto + 3

AtLine(h, y) == y \in {NameAt(h) - 1, NameAt(h)}

\* The key that ends in front of the colon of header h; it has no beginning if
\* the pass did not see it.
KeyOf(h, s) ==
    \/ s.key_start = 0
    \/ AtLine(h, Base + s.key_start) /\ Base + s.key_end = NameAt(h) + 1

\* parseHeaders is d tokens behind the name of header h, and knows its key; or
\* it has come back to the beginning of the line, and knows none.
Reached(h, d, s) ==
    \/ Base + s.i = NameAt(h) + d /\ KeyOf(h, s)
    \/ AtLine(h, Base + s.i) /\ s.key_start = 0

AtStart(s) ==
    /\ s.begin = 1 /\ Base \in From - 1 .. From + 3
    /\ \/ Base + s.i \in From .. From + 5
       \/ Hs = 0 /\ Base + s.i \in From + 6 .. From + 7

AtKey(s) ==
    \/ Dead(Base + s.i) /\ Dead(Base + s.begin)
    \/ \E h \in 1 .. Hs :
          /\ AtLine(h, Base + s.begin)
          /\ Base + s.i \in NameAt(h) - 1 .. NameAt(h) + 1
          /\ \/ s.key_start = 0
             \/ AtLine(h, Base + s.key_start) /\ s.key_start < s.i

AtColon(s, d) ==
    \E h \in 1 .. Hs : AtLine(h, Base + s.begin) /\ Reached(h, d, s)

AtValue(s) ==
    \E h \in 1 .. Hs :
        /\ AtLine(h, Base + s.begin)
        /\ \/ Base + s.i \in NameAt(h) - 1 .. NameAt(h) + 4 /\ s.key_start = 0
           \/ /\ Base + s.i = NameAt(h) + 4 /\ KeyOf(h, s)
              /\ Base + s.value_start = NameAt(h) + 3

AtCr(s) ==
    \E h \in 1 .. Hs :
        /\ AtLine(h, Base + s.begin)
        /\ \/ AtLine(h, Base + s.i) /\ s.key_start = 0
           \/ /\ Base + s.i = NameAt(h) + 5 /\ KeyOf(h, s)
              /\ \/ s.key_start = 0
                 \/ /\ Base + s.value_start = NameAt(h) + 3
                    /\ Base + s.value_end = NameAt(h) + 4

AtLf(s) ==
    \E h \in 0 .. Hs : /\ Base + s.begin = LfAt(h)
                       /\ Base + s.i \in LfAt(h) .. LfAt(h) + 1

AtEndCr(s) ==
    /\ Base + s.begin = LfAt(Hs)
    /\ Base + s.i \in {LfAt(Hs), LfAt(Hs) + 2}
    /\ pos > LfAt(Hs)
    /\ pc # "idle" /\ Base + s.i = LfAt(Hs) => pos >= HeadEnd

AtEndLf(s) ==
    /\ pc = "scan" /\ pos >= HeadEnd
    /\ Base + s.i \in {HeadEnd - 1, HeadEnd + 1}

\* Where parseHeaders can be in each of its states.
Placed(s) ==
    /\ hState_ = "START" => AtStart(s)
    /\ hState_ = "KEY" => AtKey(s)
    /\ hState_ = "COLON" => AtColon(s, 2)
    /\ hState_ = "SPACE_AFTER_COLON" => AtColon(s, 3)
    /\ hState_ = "VALUE" => AtValue(s)
    /\ hState_ = "CR" => AtCr(s)
    /\ hState_ = "LF" => AtLf(s)
    /\ hState_ = "END_CR" => AtEndCr(s)
    /\ hState_ = "END_LF" => AtEndLf(s)

UriInv ==
    pc \in {"idle", "again", "pass"} /\ state_ = "URI"
        => Base \in From - 1 .. From + 1

HeaderInv ==
    /\ pc \in {"idle", "pass"} /\ state_ = "HEADERS" => Placed(FirstScan)
    /\ pc = "scan" => Placed(scan)

BodyInv ==
    pc \in {"idle", "pass"} /\ state_ \in {"BODY", "ANALYSIS"}
        => pos >= HeadEnd /\ Base \in HeadEnd - 1 .. HeadEnd + 1

AbortInv ==
    error_ = "abort" =>
        /\ n < Len(requests)
        /\ \E h \in 1 .. Hs : /\ <<Current.headers[h].name>> = CL
                              /\ Current.headers[h].value \notin DOMAIN Numbers

IInv == /\ BufferInv /\ ControlInv /\ ScanInv /\ AnswersInv /\ KeysInv
        /\ UriInv /\ HeaderInv /\ BodyInv /\ AbortInv

-----------------------------------------------------------------------------
(* The text.                                                               *)

(* Tokens of the different kinds are different.                            *)
LEMMA Kinds ==
  /\ \A w \in Words : w \notin Methods /\ w \notin Marks /\ w # "junk"
  /\ \A m \in Methods : m \notin Marks
  BY WordsAssumption DEF Methods, Marks

(* A request stands behind the ones before it.                             *)
LEMMA RequestAt ==
  ASSUME NEW s, IsStream(s), NEW k \in 1 .. Len(s.requests)
  PROVE  LET r == s.requests[k]
             b == s.ends[k - 1]
         IN  /\ r \in Requests /\ Stands(r, s.text, b)
             /\ b \in Nat /\ s.ends[k] \in Nat
             /\ Len(r.headers) \in Nat /\ Len(r.body) \in Nat
             /\ s.ends[k] = b + 6 * Len(r.headers) + 6 + Len(r.body)
             /\ s.ends[k] <= Len(s.text) /\ Len(s.text) \in Nat
             /\ r.method # "POST" => Len(r.body) = 0
  <1> DEFINE r == s.requests[k]
             b == s.ends[k - 1]
  <1>1. Len(s.requests) \in Nat /\ r \in Requests
    BY ElementOfSeq, LenProperties DEF IsStream
  <1>2. Len(r.headers) \in Nat /\ Len(r.body) \in Nat
    BY <1>1, LenProperties DEF Requests
  <1>3. b \in Nat /\ s.ends[k] \in Nat /\ Len(s.text) \in Nat
    <2>1. s.ends \in [0 .. Len(s.requests) -> Nat] /\ s.text \in Seq(Tokens)
      BY Zenon DEF IsStream
    <2>2. k \in 0 .. Len(s.requests) /\ k - 1 \in 0 .. Len(s.requests)
      BY <1>1
    <2> QED
      BY <2>1, <2>2, LenProperties
  <1>4. s.ends[k] <= Len(s.text)
    <2>1. CASE k = Len(s.requests)
      BY <2>1, <1>3 DEF IsStream
    <2>2. CASE k # Len(s.requests)
      <3>1. k \in 0 .. Len(s.requests) /\ Len(s.requests) \in 0 .. Len(s.requests)
              /\ k < Len(s.requests)
        BY <2>2, <1>1
      <3>2. s.ends[k] < s.ends[Len(s.requests)]
        BY <3>1 DEF IsStream
      <3> QED
        BY <3>2, <1>3 DEF IsStream
    <2> QED
      BY <2>1, <2>2
  <1>5. /\ Stands(r, s.text, b)
        /\ s.ends[k] = b + 6 * Len(r.headers) + 6 + Len(r.body)
        /\ r.method # "POST" => r.body = <<>>
    BY DEF IsStream
  <1>6. Len(<<>>) = 0
    OBVIOUS
  <1>7. r.method # "POST" => Len(r.body) = 0
    BY <1>5, <1>6, Zenon
  <1> QED
    BY <1>1, <1>2, <1>3, <1>4, <1>5, <1>7

(* A stream has a number of requests.                                      *)
LEMMA RequestCount ==
  ASSUME NEW s, IsStream(s)
  PROVE  Len(s.requests) \in Nat
  <1>1. s.requests \in Seq(Requests)
    BY DEF IsStream
  <1> QED
    BY <1>1, LenProperties

(* The tokens of the current request.                                      *)
LEMMA Layout ==
  ASSUME stream \in Streams, n \in Nat, n < Len(requests)
  PROVE  /\ From \in Nat /\ Upto \in Nat /\ Hs \in Nat /\ Len(stream.text) \in Nat
         /\ HeadEnd <= Upto /\ Upto <= Len(stream.text)
         /\ Current.method # "POST" => Upto = HeadEnd
         /\ Current.method \in Methods
         /\ T(From + 1) = Current.method /\ T(From + 2) = "1.1"
         /\ T(From + 3) = "CR" /\ T(From + 4) = "LF"
         /\ \A h \in 1 .. Hs :
               /\ T(NameAt(h)) = Current.headers[h].name
               /\ Current.headers[h].name \in Words
               /\ T(NameAt(h) + 1) = ":" /\ T(NameAt(h) + 2) = " "
               /\ T(NameAt(h) + 3) = Current.headers[h].value
               /\ Current.headers[h].value \in Words
               /\ T(NameAt(h) + 4) = "CR" /\ T(NameAt(h) + 5) = "LF"
         /\ T(HeadEnd - 1) = "CR" /\ T(HeadEnd) = "LF"
         /\ \A x \in HeadEnd + 1 .. Upto : T(x) \in Words
  <1> DEFINE k == n + 1
             r == Current
             B == Len(r.body)
  <1>1. IsStream(stream) /\ Len(requests) \in Nat /\ requests = stream.requests
    BY StreamsAssumption, RequestCount DEF requests
  <1>2. k \in 1 .. Len(stream.requests) /\ k - 1 = n
    BY <1>1
  <1>3. stream.requests[k] = r /\ stream.ends[k] = Upto /\ stream.ends[k - 1] = From
    BY <1>2 DEF requests, Current, Upto, From, End, n
  <1>4. /\ r \in Requests /\ Stands(r, stream.text, From)
        /\ r.method # "POST" => B = 0
    BY <1>1, <1>2, <1>3, RequestAt, Zenon
  <1>5. /\ From \in Nat /\ Upto \in Nat
        /\ Hs \in Nat /\ B \in Nat
        /\ Upto = From + 6 * Hs + 6 + B
        /\ Upto <= Len(stream.text) /\ Len(stream.text) \in Nat
    BY <1>1, <1>2, <1>3, RequestAt, Zenon DEF Hs
  <1>6. r.method \in Methods
    BY <1>4 DEF Requests
  <1>7. \A h \in 1 .. Hs : /\ r.headers[h].name \in Words
                           /\ r.headers[h].value \in Words
    <2> TAKE h \in 1 .. Hs
    <2>1. r.headers[h] \in [name : Words, value : Words]
      BY <1>4, ElementOfSeq DEF Requests, Hs
    <2> QED
      BY <2>1
  <1>8. \A i \in 1 .. Len(r.body) : r.body[i] \in Words
    BY <1>4, <1>5, ElementOfSeq DEF Requests
  <1>9. /\ T(From + 1) = r.method /\ T(From + 2) = "1.1"
        /\ T(From + 3) = "CR" /\ T(From + 4) = "LF"
        /\ T(From + 6 * Hs + 5) = "CR" /\ T(From + 6 * Hs + 6) = "LF"
    BY <1>4 DEF Stands, T, Hs
  <1>10. \A h \in 1 .. Hs :
               /\ T(From + 6 * h - 1) = r.headers[h].name
               /\ T(From + 6 * h) = ":" /\ T(From + 6 * h + 1) = " "
               /\ T(From + 6 * h + 2) = r.headers[h].value
               /\ T(From + 6 * h + 3) = "CR" /\ T(From + 6 * h + 4) = "LF"
    BY <1>4 DEF Stands, T, Hs
  <1>11. \A i \in 1 .. Len(r.body) : T(From + 6 * Hs + 6 + i) = r.body[i]
    BY <1>4 DEF Stands, T, Hs
  <1>12. \A x \in HeadEnd + 1 .. Upto : T(x) \in Words
    <2> TAKE x \in HeadEnd + 1 .. Upto
    <2> DEFINE i == x - HeadEnd
    <2>1. i \in 1 .. B /\ From + 6 * Hs + 6 + i = x
      <3> HIDE DEF B
      <3> QED
        BY <1>5 DEF HeadEnd
    <2> QED
      BY <2>1, <1>8, <1>11
  <1>13. \A h \in 1 .. Hs :
            /\ NameAt(h) = From + 6 * h - 1 /\ NameAt(h) + 1 = From + 6 * h
            /\ NameAt(h) + 2 = From + 6 * h + 1 /\ NameAt(h) + 3 = From + 6 * h + 2
            /\ NameAt(h) + 4 = From + 6 * h + 3 /\ NameAt(h) + 5 = From + 6 * h + 4
    BY <1>5 DEF NameAt
  <1>14. HeadEnd - 1 = From + 6 * Hs + 5 /\ HeadEnd = From + 6 * Hs + 6
    BY <1>5 DEF HeadEnd
  <1>15. /\ HeadEnd <= Upto /\ Upto <= Len(stream.text)
         /\ r.method # "POST" => Upto = HeadEnd
    <2> HIDE DEF B
    <2> QED
      BY <1>4, <1>5 DEF HeadEnd
  <1> QED
    BY <1>5, <1>15, <1>6, <1>7, <1>9, <1>10, <1>12, <1>13, <1>14

(* The beginning of the request behind the current one.                    *)
LEMMA NextLine ==
  ASSUME stream \in Streams, n \in Nat, n < Len(requests),
         Upto < Len(stream.text)
  PROVE  /\ T(Upto + 1) \in Methods /\ T(Upto + 2) = "1.1"
         /\ T(Upto + 3) = "CR"
  <1> DEFINE k == n + 2
  <1>1. IsStream(stream) /\ n + 1 \in 1 .. Len(stream.requests)
          /\ Len(stream.requests) \in Nat
    BY StreamsAssumption, RequestCount DEF requests
  <1>2. n + 1 # Len(stream.requests)
    BY <1>1, RequestAt DEF IsStream, Upto, End
  <1>3. k \in 1 .. Len(stream.requests) /\ k - 1 = n + 1
    BY <1>1, <1>2
  <1>4. /\ stream.requests[k] \in Requests
        /\ Stands(stream.requests[k], stream.text, Upto)
    BY <1>1, <1>3, RequestAt, Zenon DEF Upto, End
  <1> QED
    BY <1>4 DEF Stands, T, Requests

(* Its places.                                                             *)
LEMMA Places ==
  ASSUME stream \in Streams, n \in Nat, n < Len(requests)
  PROVE  /\ From \in Nat /\ Upto \in Nat /\ Hs \in Nat /\ HeadEnd \in Nat
         /\ HeadEnd = From + 6 * Hs + 6 /\ LfAt(Hs) = HeadEnd - 2
         /\ HeadEnd <= Upto /\ Upto <= Len(stream.text)
         /\ Len(stream.text) \in Nat
         /\ Current.method # "POST" => Upto = HeadEnd
  <1>1. /\ From \in Nat /\ Upto \in Nat /\ Hs \in Nat
        /\ HeadEnd <= Upto /\ Upto <= Len(stream.text)
        /\ Len(stream.text) \in Nat
        /\ Current.method # "POST" => Upto = HeadEnd
    BY Layout, Zenon
  <1>2. HeadEnd = From + 6 * Hs + 6 /\ LfAt(Hs) = HeadEnd - 2 /\ HeadEnd \in Nat
    BY <1>1 DEF HeadEnd, LfAt
  <1> QED
    BY <1>1, <1>2, Zenon

(* Its request line.                                                       *)
LEMMA FirstLine ==
  ASSUME stream \in Streams, n \in Nat, n < Len(requests)
  PROVE  /\ T(From + 1) = Current.method /\ Current.method \in Methods
         /\ T(From + 2) = "1.1" /\ T(From + 3) = "CR" /\ T(From + 4) = "LF"
  BY Layout, Zenon

(* One of its headers, and the LF in front of it.                          *)
LEMMA HeaderLine ==
  ASSUME stream \in Streams, n \in Nat, n < Len(requests), NEW h \in 1 .. Hs
  PROVE  /\ h \in Nat /\ h <= Hs /\ NameAt(h) = From + 6 * h - 1 /\ NameAt(h) \in Nat
         /\ T(NameAt(h) - 1) = "LF"
         /\ T(NameAt(h)) = Current.headers[h].name
         /\ Current.headers[h].name \in Words
         /\ T(NameAt(h) + 1) = ":" /\ T(NameAt(h) + 2) = " "
         /\ T(NameAt(h) + 3) = Current.headers[h].value
         /\ Current.headers[h].value \in Words
         /\ T(NameAt(h) + 4) = "CR" /\ T(NameAt(h) + 5) = "LF"
  <1>1. From \in Nat /\ Hs \in Nat
    BY Places
  <1>2. h \in Nat /\ h <= Hs /\ NameAt(h) = From + 6 * h - 1 /\ NameAt(h) \in Nat
    BY <1>1 DEF NameAt
  <1>3. \A g \in 1 .. Hs : T(NameAt(g) + 5) = "LF"
    BY Layout, Zenon
  <1>4. CASE h = 1
    <2>1. NameAt(h) - 1 = From + 4
      BY <1>1, <1>2, <1>4
    <2>2. T(NameAt(h) - 1) = "LF"
      BY <2>1, FirstLine
    <2> QED
      BY <2>2, <1>2, Layout, Zenon
  <1>5. CASE h # 1
    <2>1. h - 1 \in 1 .. Hs /\ NameAt(h) - 1 = NameAt(h - 1) + 5
      BY <1>1, <1>2, <1>5 DEF NameAt
    <2>2. T(NameAt(h) - 1) = "LF"
      BY <2>1, <1>3
    <2> QED
      BY <2>2, <1>2, Layout, Zenon
  <1> QED
    BY <1>4, <1>5

(* The last line of its header section, the LF in front of it, and its body. *)
LEMMA LastLine ==
  ASSUME stream \in Streams, n \in Nat, n < Len(requests)
  PROVE  /\ T(HeadEnd - 2) = "LF" /\ T(HeadEnd - 1) = "CR" /\ T(HeadEnd) = "LF"
         /\ \A x \in HeadEnd + 1 .. Upto : T(x) \in Words
  <1>1. From \in Nat /\ Hs \in Nat /\ HeadEnd = From + 6 * Hs + 6
    BY Places
  <1>2. CASE Hs = 0
    <2>1. HeadEnd - 2 = From + 4
      BY <1>1, <1>2
    <2>2. T(HeadEnd - 2) = "LF"
      BY <2>1, FirstLine
    <2> QED
      BY <2>2, Layout, Zenon
  <1>3. CASE Hs # 0
    <2>1. Hs \in 1 .. Hs /\ HeadEnd - 2 = NameAt(Hs) + 5
      BY <1>1, <1>3 DEF NameAt
    <2>2. T(HeadEnd - 2) = "LF"
      BY <2>1, HeaderLine
    <2> QED
      BY <2>2, Layout, Zenon
  <1> QED
    BY <1>2, <1>3

(* Where the answered requests end.                                        *)
LEMMA Ends ==
  ASSUME stream \in Streams, n \in 0 .. Len(requests)
  PROVE  /\ From \in Nat /\ From <= Len(stream.text) /\ Len(stream.text) \in Nat
         /\ n = 0 => From = 0
         /\ n = Len(requests) => From = Len(stream.text)
  <1>1. IsStream(stream) /\ Len(requests) \in Nat /\ requests = stream.requests
    BY StreamsAssumption, RequestCount DEF requests
  <1>2. From = stream.ends[n]
    BY DEF From, End
  <1>3. /\ stream.text \in Seq(Tokens)
        /\ stream.ends \in [0 .. Len(requests) -> Nat]
        /\ stream.ends[0] = 0 /\ stream.ends[Len(requests)] = Len(stream.text)
        /\ \A j, k \in 0 .. Len(requests) : j < k => stream.ends[j] < stream.ends[k]
    BY <1>1, Zenon DEF IsStream
  <1>4. Len(stream.text) \in Nat
    BY <1>3, LenProperties
  <1>5. From \in Nat /\ n \in 0 .. Len(requests) /\ n \in Nat
    BY <1>1, <1>2, <1>3
  <1>6. n = Len(requests) \/ (n < Len(requests) /\ Len(requests) \in 0 .. Len(requests))
    BY <1>1
  <1>7. From = Len(stream.text) \/ From < Len(stream.text)
    BY <1>2, <1>3, <1>6
  <1> QED
    BY <1>2, <1>3, <1>4, <1>5, <1>7

-----------------------------------------------------------------------------
(* parseHeaders, one token at a time.                                      *)

Context == BufferInv /\ ControlInv /\ ScanInv /\ AnswersInv

(* The token that parseHeaders looks at.                                   *)
LEMMA Looking ==
  ASSUME Context, pc = "scan"
  PROVE  /\ n \in Nat /\ n < Len(requests) /\ stream \in Streams
         /\ Base \in Nat /\ pos \in Nat /\ pos <= Len(stream.text)
         /\ Len(stream.text) \in Nat
         /\ scan.i \in Nat \ {0} /\ scan.begin \in Nat \ {0} /\ scan.begin <= scan.i
         /\ scan.key_start \in Nat /\ scan.key_end \in Nat
         /\ scan.value_start \in Nat /\ scan.value_end \in Nat
         /\ scan.i <= Len(inBuffer_)
              => Base + scan.i <= pos /\ Char = T(Base + scan.i)
  <1>1. n \in Nat /\ n < Len(requests) /\ stream \in Streams
    BY StreamsAssumption, RequestCount DEF Context, AnswersInv, ControlInv, BufferInv, requests
  <1>2. Len(stream.text) \in Nat
    BY <1>1, Layout
  <1>3. Len(inBuffer_) \in Nat
    BY LenProperties DEF Context, BufferInv
  <1>4. /\ scan.i \in Nat \ {0} /\ scan.begin \in Nat \ {0} /\ scan.begin <= scan.i
        /\ scan.key_start \in Nat /\ scan.key_end \in Nat
        /\ scan.value_start \in Nat /\ scan.value_end \in Nat
    BY <1>2 DEF Context, ScanInv
  <1>5. Base \in Nat /\ pos \in Nat /\ pos <= Len(stream.text)
    BY <1>2, <1>3 DEF Context, BufferInv, Base
  <1>6. scan.i <= Len(inBuffer_) => Base + scan.i <= pos
    BY <1>3, <1>4, <1>5 DEF Base
  <1>7. scan.i <= Len(inBuffer_) => Char = T(Base + scan.i)
    BY <1>3, <1>4 DEF Context, BufferInv, Char
  <1> QED
    BY <1>1, <1>2, <1>4, <1>5, <1>6, <1>7

(* What a step of parseHeaders does not change.                            *)
LEMMA Frame ==
  ASSUME UNCHANGED <<stream, pos, inBuffer_, answers>>
  PROVE  /\ n' = n /\ From' = From /\ Upto' = Upto /\ Base' = Base
         /\ Current' = Current /\ Hs' = Hs /\ HeadEnd' = HeadEnd
         /\ requests' = requests
         /\ \A x : T(x)' = T(x)
  BY DEF n, From, Upto, Base, Current, Hs, HeadEnd, requests, T, End

\* What no step of parseHeaders changes.
Still == UNCHANGED <<textVars, inBuffer_, state_, method_, answers>>

(* From "START": over the end of the request line, or to a key.            *)
LEMMA StartStep ==
  ASSUME Context, pc = "scan", AtStart(scan), HStart, Still,
         NEW x, x = Base + scan.i
  PROVE  pc' = "scan" => Placed(scan)'
  <1>1. /\ n \in Nat /\ n < Len(requests) /\ stream \in Streams
        /\ Base \in Nat /\ scan.i \in Nat \ {0} /\ x \in Nat
        /\ x <= Len(stream.text) /\ Len(stream.text) \in Nat
        /\ Char = T(x)
    BY Looking DEF HStart, In
  <1>2. /\ n' = n /\ From' = From /\ Upto' = Upto /\ Base' = Base
        /\ Hs' = Hs /\ HeadEnd' = HeadEnd
    BY Frame DEF Still, textVars
  <1>3. /\ From \in Nat /\ Upto \in Nat /\ Hs \in Nat
        /\ HeadEnd = From + 6 * Hs + 6 /\ HeadEnd <= Upto
    BY <1>1, Layout DEF HeadEnd
  <1>4. CASE Char \in {"CR", "LF"}
    <2>1. hState_' = "START" /\ scan' = [scan EXCEPT !.i = @ + 1]
      BY <1>4 DEF HStart, Go
    <2>2. scan'.i = scan.i + 1 /\ scan'.begin = 1
      BY <2>1, <1>1 DEF Context, ScanInv, AtStart
    <2>3. x \in From .. From + 5 => x # From + 1 /\ x # From + 2
      BY <1>1, <1>4, Layout, Kinds DEF Marks
    <2>4. Base \in From - 1 .. From + 3
      BY DEF AtStart
    <2>5. \/ x + 1 \in From .. From + 5
          \/ Hs = 0 /\ x + 1 \in From + 6 .. From + 7
      <3>1. CASE x \in From .. From + 4
        BY <3>1, <1>3
      <3>2. CASE x = From + 5
        <4>1. Hs = 0
          <5> SUFFICES ASSUME Hs # 0
                       PROVE  FALSE
            OBVIOUS
          <5>1. 1 \in 1 .. Hs /\ NameAt(1) = From + 5
            BY <1>3 DEF NameAt
          <5>2. T(From + 5) \in Words
            BY <5>1, <1>1, Layout
          <5> QED
            BY <5>2, <3>2, <1>1, <1>4, Kinds DEF Marks
        <4> QED
          BY <4>1, <3>2, <1>3
      <3>3. CASE Hs = 0 /\ x = From + 6
        BY <3>3, <1>3
      <3>4. CASE Hs = 0 /\ x = From + 7
        <4>1. x = HeadEnd + 1
          BY <3>4, <1>3
        <4>2. T(x) \in Words \cup Methods
          <5>1. CASE x <= Upto
            <6>1. x \in HeadEnd + 1 .. Upto
              BY <5>1, <4>1, <1>3
            <6> QED
              BY <6>1, <1>1, Layout
          <5>2. CASE x > Upto
            <6>1. x = Upto + 1 /\ Upto < Len(stream.text)
              BY <5>2, <4>1, <1>1, <1>3
            <6> QED
              BY <6>1, <1>1, NextLine
          <5> QED
            BY <5>1, <5>2, <4>1, <1>3
        <4> QED
          BY <4>2, <1>1, <1>4, Kinds DEF Marks
      <3>5. \/ x \in From .. From + 5
            \/ Hs = 0 /\ x \in From + 6 .. From + 7
        BY DEF AtStart
      <3>6. x \in From .. From + 5 => x \in From .. From + 4 \/ x = From + 5
        BY <1>1, <1>3
      <3>7. x \in From + 6 .. From + 7 => x = From + 6 \/ x = From + 7
        BY <1>1, <1>3
      <3> QED
        BY <3>1, <3>2, <3>3, <3>4, <3>5, <3>6, <3>7
    <2>6. AtStart(scan)'
      BY <2>2, <2>4, <2>5, <1>1, <1>2, <1>3, SMTT(60) DEF AtStart
    <2> QED
      BY <2>1, <2>6 DEF Placed
  <1>5. CASE Char \notin {"CR", "LF"}
    <2>1. /\ hState_' = "KEY"
          /\ scan' = [[scan EXCEPT !.key_start = scan.i, !.begin = scan.i]
                         EXCEPT !.i = @ + 1]
      BY <1>5 DEF HStart, Go
    <2>2. /\ scan'.i = scan.i + 1 /\ scan'.begin = scan.i
          /\ scan'.key_start = scan.i
      BY <2>1, <1>1 DEF Context, ScanInv
    <2>3. /\ x # From + 3 /\ x # From + 4
          /\ From > 0 => x # From
      <3>1. From > 0 => T(From) = "LF"
        BY DEF Context, AnswersInv
      <3> QED
        BY <3>1, <1>1, <1>5, Layout
    <2>4. From = 0 => x # From
      BY <1>1, <1>3
    <2>5. Hs = 0 => x # From + 5 /\ x # From + 6
      <3>1. Hs = 0 => From + 5 = HeadEnd - 1 /\ From + 6 = HeadEnd
        BY <1>3
      <3> QED
        BY <3>1, <1>1, <1>5, Layout
    <2>6. \/ x = From + 1 \/ x = From + 2
          \/ Hs # 0 /\ x = From + 5
          \/ Hs = 0 /\ x = From + 7
      <3>1. \/ x \in From .. From + 5
            \/ Hs = 0 /\ x \in From + 6 .. From + 7
        BY DEF AtStart
      <3>2. x \in From .. From + 5 =>
              \/ x = From \/ x = From + 1 \/ x = From + 2
              \/ x = From + 3 \/ x = From + 4 \/ x = From + 5
        BY <1>1, <1>3
      <3>3. x \in From + 6 .. From + 7 => x = From + 6 \/ x = From + 7
        BY <1>1, <1>3
      <3>4. x # From
        BY <2>3, <2>4, <1>3
      <3> QED
        BY <3>1, <3>2, <3>3, <3>4, <2>3, <2>5
    <2>7. AtKey(scan)'
      <3>1. CASE Hs # 0 /\ x = From + 5
        <4>1. 1 \in 1 .. Hs /\ NameAt(1)' = From + 5
          BY <3>1, <1>2, <1>3 DEF NameAt
        <4> QED
          BY <4>1, <3>1, <2>2, <1>1, <1>2, <1>3 DEF AtKey, AtLine
      <3>2. CASE x = From + 1 \/ x = From + 2 \/ (Hs = 0 /\ x = From + 7)
        <4>1. Base' + scan'.i = x + 1 /\ Base' + scan'.begin = x
          BY <2>2, <1>1, <1>2
        <4>2. Dead(x)' /\ Dead(x + 1)'
          <5>1. CASE x = From + 1 \/ x = From + 2
            <6>1. {x, x + 1} \subseteq From + 1 .. From + 3
              BY <5>1, <1>3
            <6> QED
              BY <6>1, <1>2 DEF Dead
          <5>2. CASE Hs = 0 /\ x = From + 7
            <6>1. {x, x + 1} \subseteq HeadEnd + 1 .. Upto + 3
              BY <5>2, <1>3
            <6> QED
              BY <6>1, <5>2, <1>2 DEF Dead
          <5> QED
            BY <3>2, <5>1, <5>2
        <4> QED
          BY <4>1, <4>2 DEF AtKey
      <3> QED
        BY <2>6, <3>1, <3>2
    <2> QED
      BY <2>1, <2>7 DEF Placed
  <1> QED
    BY <1>4, <1>5

(* From a dead place there is no colon before the end of the line.         *)
LEMMA DeadEnd ==
  ASSUME stream \in Streams, n \in Nat, n < Len(requests),
         NEW x \in Nat, x <= Len(stream.text), Dead(x)
  PROVE  /\ T(x) # ":"
         /\ T(x) \notin {"CR", "LF"} => Dead(x + 1)
  <1>1. /\ From \in Nat /\ Upto \in Nat /\ Hs \in Nat /\ HeadEnd \in Nat
        /\ HeadEnd <= Upto /\ LfAt(Hs) = HeadEnd - 2
    BY Places
  <1>2. CASE x \in From + 1 .. From + 3
    <2>1. x = From + 1 \/ x = From + 2 \/ x = From + 3
      BY <1>2, <1>1
    <2>2. T(x) # ":"
      BY <2>1, FirstLine, Kinds DEF Marks
    <2>3. x = From + 3 => T(x) = "CR"
      BY FirstLine
    <2>4. x # From + 3 => x + 1 \in From + 1 .. From + 3
      BY <2>1, <1>1
    <2> QED
      BY <2>2, <2>3, <2>4 DEF Dead
  <1>3. CASE x \in LfAt(Hs) .. LfAt(Hs) + 1
    <2>1. x = HeadEnd - 2 \/ x = HeadEnd - 1
      BY <1>3, <1>1
    <2> QED
      BY <2>1, LastLine
  <1>4. CASE Hs = 0 /\ x \in HeadEnd + 1 .. Upto + 3
    <2>1. CASE x \in HeadEnd + 1 .. Upto
      <3>1. T(x) \in Words
        BY <2>1, LastLine
      <3>2. x + 1 \in HeadEnd + 1 .. Upto + 3
        BY <2>1, <1>1
      <3> QED
        BY <3>1, <3>2, <1>4, Kinds DEF Marks, Dead
    <2>2. CASE x \in Upto + 1 .. Upto + 3
      <3>1. x = Upto + 1 \/ x = Upto + 2 \/ x = Upto + 3
        BY <2>2, <1>1
      <3>2. Upto < Len(stream.text)
        BY <2>2, <1>1
      <3>3. T(x) # ":"
        BY <3>1, <3>2, NextLine, Kinds DEF Marks
      <3>4. T(x) \notin {"CR", "LF"} => x + 1 \in HeadEnd + 1 .. Upto + 3
        BY <3>1, <3>2, <1>1, NextLine
      <3> QED
        BY <3>3, <3>4, <1>4 DEF Dead
    <2> QED
      BY <2>1, <2>2, <1>4, <1>1
  <1> QED
    BY <1>2, <1>3, <1>4 DEF Dead

(* From "KEY": to the colon behind a name, or on where no colon comes.     *)
LEMMA KeyStep ==
  ASSUME Context, pc = "scan", AtKey(scan), HKey, Still,
         NEW x, x = Base + scan.i
  PROVE  pc' = "scan" => Placed(scan)'
  <1>1. /\ n \in Nat /\ n < Len(requests) /\ stream \in Streams
        /\ Base \in Nat /\ scan.i \in Nat \ {0} /\ x \in Nat
        /\ scan.key_start \in Nat /\ scan.begin \in Nat
        /\ x <= Len(stream.text) /\ Char = T(x)
    BY Looking DEF HKey, In
  <1>2. /\ Base' = Base /\ Hs' = Hs
        /\ \A y : Dead(y)' = Dead(y)
        /\ \A h, y : AtLine(h, y)' = AtLine(h, y)
        /\ \A h : NameAt(h)' = NameAt(h)
    BY Frame, Zenon DEF Still, textVars, Dead, AtLine, NameAt, LfAt
  <1>3. CASE Char = ":" /\ scan.i > scan.key_start
    <2>1. /\ hState_' = "COLON"
          /\ scan' = [[scan EXCEPT !.key_end = scan.i] EXCEPT !.i = @ + 1]
      BY <1>3 DEF HKey, Go
    <2>2. /\ scan'.i = scan.i + 1 /\ scan'.begin = scan.begin
          /\ scan'.key_start = scan.key_start /\ scan'.key_end = scan.i
      BY <2>1, <1>1 DEF Context, ScanInv
    <2>3. ~Dead(x)
      BY <1>1, <1>3, DeadEnd
    <2>4. PICK h \in 1 .. Hs :
             /\ AtLine(h, Base + scan.begin)
             /\ x \in NameAt(h) - 1 .. NameAt(h) + 1
             /\ \/ scan.key_start = 0
                \/ AtLine(h, Base + scan.key_start) /\ scan.key_start < scan.i
      BY <2>3 DEF AtKey
    <2>5. /\ T(NameAt(h) - 1) = "LF" /\ T(NameAt(h)) \in Words
          /\ NameAt(h) \in Nat
      BY <1>1, HeaderLine
    <2>6. x = NameAt(h) + 1
      <3>1. x # NameAt(h) - 1 /\ x # NameAt(h)
        BY <2>5, <1>1, <1>3, Kinds DEF Marks
      <3>2. x \in NameAt(h) - 1 .. NameAt(h) + 1
        BY <2>4
      <3> QED
        BY <3>1, <3>2, <2>5
    <2>7. Reached(h, 2, scan)'
      <3>1. Base' + scan'.i = NameAt(h)' + 2
        BY <2>2, <2>6, <1>1, <1>2, <2>5
      <3>2. KeyOf(h, scan)'
        BY <2>2, <2>4, <2>6, <1>1, <1>2 DEF KeyOf
      <3> QED
        BY <3>1, <3>2 DEF Reached
    <2>8. AtColon(scan, 2)'
      BY <2>2, <2>4, <2>7, <1>2 DEF AtColon
    <2> QED
      BY <2>1, <2>8 DEF Placed
  <1>4. CASE Char \in {":", "CR", "LF"} /\ ~(Char = ":" /\ scan.i > scan.key_start)
    BY <1>4 DEF HKey, HeaderError, Fail
  <1>5. CASE Char \notin {":", "CR", "LF"}
    <2>1. hState_' = "KEY" /\ scan' = [scan EXCEPT !.i = @ + 1]
      BY <1>5 DEF HKey, Go
    <2>2. /\ scan'.i = scan.i + 1 /\ scan'.begin = scan.begin
          /\ scan'.key_start = scan.key_start
      BY <2>1, <1>1 DEF Context, ScanInv
    <2>3. CASE Dead(x) /\ Dead(Base + scan.begin)
      <3>1. Dead(x + 1)
        BY <2>3, <1>1, <1>5, DeadEnd
      <3>2. Base' + scan'.i = x + 1 /\ Base' + scan'.begin = Base + scan.begin
        BY <2>2, <1>1, <1>2
      <3> QED
        BY <3>1, <3>2, <2>1, <2>3, <1>2 DEF AtKey, Placed
    <2>4. ASSUME NEW h \in 1 .. Hs,
                 AtLine(h, Base + scan.begin),
                 x \in NameAt(h) - 1 .. NameAt(h) + 1,
                 \/ scan.key_start = 0
                 \/ AtLine(h, Base + scan.key_start) /\ scan.key_start < scan.i
          PROVE  AtKey(scan)'
      <3>1. /\ T(NameAt(h) - 1) = "LF" /\ T(NameAt(h) + 1) = ":"
            /\ NameAt(h) \in Nat
        BY <1>1, HeaderLine
      <3>2. x = NameAt(h)
        <4>1. x # NameAt(h) - 1 /\ x # NameAt(h) + 1
          BY <3>1, <1>1, <1>5
        <4>2. x \in NameAt(h) - 1 .. NameAt(h) + 1
          BY <2>4
        <4> QED
          BY <4>1, <4>2, <3>1
      <3>3. /\ Base' + scan'.i \in NameAt(h)' - 1 .. NameAt(h)' + 1
            /\ scan'.key_start < scan'.i \/ scan'.key_start = 0
        <4>1. NameAt(h)' = NameAt(h) /\ Base' + scan'.i = NameAt(h) + 1
          BY <3>1, <3>2, <2>2, <1>1, <1>2
        <4>2. Base' + scan'.i \in NameAt(h)' - 1 .. NameAt(h)' + 1
          BY <4>1, <3>1
        <4>3. scan'.key_start < scan'.i \/ scan'.key_start = 0
          BY <2>2, <2>4, <1>1
        <4> QED
          BY <4>2, <4>3
      <3> QED
        BY <3>3, <2>2, <2>4, <1>2 DEF AtKey
    <2> QED
      BY <2>1, <2>3, <2>4 DEF AtKey, Placed
  <1> QED
    BY <1>3, <1>4, <1>5

(* A header whose first d tokens parseHeaders has passed, and one more.    *)
LEMMA OneMore ==
  ASSUME Context, pc = "scan", Still, scan.i <= Len(inBuffer_),
         NEW h \in 1 .. Hs, NEW d \in Nat, Reached(h, d, scan),
         scan'.i = scan.i + 1, scan'.key_start = scan.key_start,
         scan'.key_end = scan.key_end,
         ~(AtLine(h, Base + scan.i) /\ scan.key_start = 0)
  PROVE  /\ T(Base + scan.i) = T(NameAt(h) + d)
         /\ Base + scan.i = NameAt(h) + d
         /\ Base' + scan'.i = NameAt(h)' + d + 1
         /\ KeyOf(h, scan)'
  <1>1. n \in Nat /\ n < Len(requests) /\ stream \in Streams /\ scan.i \in Nat
          /\ Base \in Nat
    BY Looking
  <1>2. /\ Base' = Base /\ NameAt(h)' = NameAt(h)
        /\ \A y : AtLine(h, y)' = AtLine(h, y)
    BY Frame, Zenon DEF Still, textVars, AtLine, NameAt
  <1>3. Base + scan.i = NameAt(h) + d /\ KeyOf(h, scan)
    BY DEF Reached
  <1>4. Base' + scan'.i = NameAt(h)' + d + 1
    <2>1. NameAt(h) \in Nat
      BY <1>1, HeaderLine
    <2> QED
      BY <2>1, <1>1, <1>2, <1>3
  <1>5. KeyOf(h, scan)'
    BY <1>2, <1>3 DEF KeyOf
  <1> QED
    BY <1>3, <1>4, <1>5

(* From "COLON": only the space behind the colon is accepted.              *)
LEMMA ColonStep ==
  ASSUME Context, pc = "scan", AtColon(scan, 2), HColon, Still
  PROVE  pc' = "scan" => Placed(scan)'
  <1>1. /\ n \in Nat /\ n < Len(requests) /\ stream \in Streams
        /\ Char = T(Base + scan.i) /\ scan.i <= Len(inBuffer_)
    BY Looking DEF HColon, In
  <1>2. /\ Base' = Base /\ Hs' = Hs
        /\ \A h, y : AtLine(h, y)' = AtLine(h, y)
    BY Frame, Zenon DEF Still, textVars, AtLine, NameAt
  <1>3. CASE Char = " "
    <2>1. /\ hState_' = "SPACE_AFTER_COLON"
          /\ scan' = [scan EXCEPT !.i = @ + 1]
      BY <1>3 DEF HColon, Go
    <2>2. /\ scan'.i = scan.i + 1 /\ scan'.begin = scan.begin
          /\ scan'.key_start = scan.key_start /\ scan'.key_end = scan.key_end
      BY <2>1 DEF Context, ScanInv
    <2>3. PICK h \in 1 .. Hs :
             AtLine(h, Base + scan.begin) /\ Reached(h, 2, scan)
      BY DEF AtColon
    <2>4. T(NameAt(h) - 1) = "LF" /\ T(NameAt(h)) \in Words
      BY <1>1, HeaderLine
    <2>5. ~AtLine(h, Base + scan.i)
      BY <2>4, <1>1, <1>3, Kinds DEF AtLine, Marks
    <2>6. Base' + scan'.i = NameAt(h)' + 2 + 1 /\ KeyOf(h, scan)'
      BY <2>2, <2>3, <2>5, <1>1, OneMore
    <2>7. NameAt(h)' = NameAt(h) /\ NameAt(h) \in Nat
      BY <1>1, HeaderLine, Frame, Zenon DEF Still, textVars, NameAt
    <2>8. Base' + scan'.i = NameAt(h)' + 3
      BY <2>6, <2>7
    <2>9. AtColon(scan, 3)'
      BY <2>2, <2>3, <2>6, <2>8, <1>2, Zenon DEF AtColon, Reached
    <2> QED
      BY <2>1, <2>9 DEF Placed
  <1> QED
    BY <1>3 DEF HColon, HeaderError, Fail

(* From "SPACE_AFTER_COLON": the value begins.                             *)
LEMMA SpaceStep ==
  ASSUME Context, pc = "scan", AtColon(scan, 3), HSpace, Still
  PROVE  pc' = "scan" => Placed(scan)'
  <1>1. /\ n \in Nat /\ n < Len(requests) /\ stream \in Streams
        /\ Base \in Nat /\ scan.i \in Nat \ {0} /\ scan.i <= Len(inBuffer_)
    BY Looking DEF HSpace, In
  <1>2. /\ Base' = Base /\ Hs' = Hs
        /\ \A h : NameAt(h)' = NameAt(h)
        /\ \A h, y : AtLine(h, y)' = AtLine(h, y)
    BY Frame, Zenon DEF Still, textVars, AtLine, NameAt
  <1>3. /\ hState_' = "VALUE"
        /\ scan' = [[scan EXCEPT !.value_start = scan.i] EXCEPT !.i = @ + 1]
    BY DEF HSpace, Go
  <1>4. /\ scan'.i = scan.i + 1 /\ scan'.begin = scan.begin
        /\ scan'.key_start = scan.key_start /\ scan'.key_end = scan.key_end
        /\ scan'.value_start = scan.i
    BY <1>3 DEF Context, ScanInv
  <1>5. PICK h \in 1 .. Hs : AtLine(h, Base + scan.begin) /\ Reached(h, 3, scan)
    BY DEF AtColon
  <1>6. NameAt(h) \in Nat /\ NameAt(h)' = NameAt(h)
    BY <1>1, <1>2, HeaderLine
  <1>7. CASE AtLine(h, Base + scan.i) /\ scan.key_start = 0
    <2>1. Base' + scan'.i \in NameAt(h)' - 1 .. NameAt(h)' + 4
      <3>1. Base' + scan'.i = NameAt(h) \/ Base' + scan'.i = NameAt(h) + 1
        BY <1>1, <1>2, <1>4, <1>6, <1>7 DEF AtLine
      <3> QED
        BY <3>1, <1>6
    <2>2. AtValue(scan)'
      BY <2>1, <1>2, <1>4, <1>5, <1>7, Zenon DEF AtValue
    <2> QED
      BY <2>2, <1>3 DEF Placed
  <1>8. CASE ~(AtLine(h, Base + scan.i) /\ scan.key_start = 0)
    <2>1. /\ Base + scan.i = NameAt(h) + 3
          /\ Base' + scan'.i = NameAt(h)' + 3 + 1 /\ KeyOf(h, scan)'
      BY <1>1, <1>4, <1>5, <1>8, OneMore
    <2>2. /\ Base' + scan'.i = NameAt(h)' + 4
          /\ Base' + scan'.value_start = NameAt(h)' + 3
      BY <2>1, <1>2, <1>4, <1>6
    <2>3. AtValue(scan)'
      BY <2>1, <2>2, <1>2, <1>4, <1>5, Zenon DEF AtValue
    <2> QED
      BY <2>3, <1>3 DEF Placed
  <1> QED
    BY <1>7, <1>8

(* From "VALUE": up to the CR behind the value.                            *)
LEMMA ValueStep ==
  ASSUME Context, pc = "scan", AtValue(scan), HValue, Still,
         NEW x, x = Base + scan.i
  PROVE  pc' = "scan" => Placed(scan)'
  <1>1. /\ n \in Nat /\ n < Len(requests) /\ stream \in Streams
        /\ Base \in Nat /\ scan.i \in Nat \ {0} /\ scan.i <= Len(inBuffer_)
        /\ x \in Nat /\ Char = T(x)
    BY Looking DEF HValue, In
  <1>2. /\ Base' = Base /\ Hs' = Hs
        /\ \A h : NameAt(h)' = NameAt(h)
        /\ \A h, y : AtLine(h, y)' = AtLine(h, y)
    BY Frame, Zenon DEF Still, textVars, AtLine, NameAt
  <1>3. PICK h \in 1 .. Hs :
           /\ AtLine(h, Base + scan.begin)
           /\ \/ x \in NameAt(h) - 1 .. NameAt(h) + 4 /\ scan.key_start = 0
              \/ /\ x = NameAt(h) + 4 /\ KeyOf(h, scan)
                 /\ Base + scan.value_start = NameAt(h) + 3
    BY DEF AtValue
  <1>4. NameAt(h) \in Nat /\ NameAt(h)' = NameAt(h)
    BY <1>1, <1>2, HeaderLine
  <1>5. /\ T(NameAt(h) - 1) = "LF" /\ T(NameAt(h)) \in Words
        /\ T(NameAt(h) + 1) = ":" /\ T(NameAt(h) + 2) = " "
        /\ T(NameAt(h) + 3) \in Words /\ T(NameAt(h) + 4) = "CR"
    BY <1>1, <1>2, HeaderLine
  <1>6. CASE Char # "CR"
    <2>1. hState_' = "VALUE" /\ scan' = [scan EXCEPT !.i = @ + 1]
      BY <1>6 DEF HValue, Go
    <2>2. /\ scan'.i = scan.i + 1 /\ scan'.begin = scan.begin
          /\ scan'.key_start = scan.key_start
      BY <2>1 DEF Context, ScanInv
    <2>3. x # NameAt(h) + 4
      BY <1>1, <1>5, <1>6
    <2>4. x \in NameAt(h) - 1 .. NameAt(h) + 4 /\ scan.key_start = 0
      BY <2>3, <1>3
    <2>5. Base' + scan'.i \in NameAt(h)' - 1 .. NameAt(h)' + 4
      <3>1. Base' + scan'.i = x + 1
        BY <2>2, <1>1, <1>2
      <3> QED
        <4>1. x \in NameAt(h) - 1 .. NameAt(h) + 3
          BY <2>3, <2>4, <1>4
        <4> QED
          BY <3>1, <4>1, <1>4
    <2>6. AtValue(scan)'
      BY <2>2, <2>4, <2>5, <1>2, <1>3, Zenon DEF AtValue
    <2> QED
      BY <2>1, <2>6 DEF Placed
  <1>7. CASE Char = "CR" /\ scan.i > scan.value_start
    <2>1. /\ hState_' = "CR"
          /\ scan' = [[scan EXCEPT !.value_end = scan.i] EXCEPT !.i = @ + 1]
      BY <1>7 DEF HValue, Go
    <2>2. /\ scan'.i = scan.i + 1 /\ scan'.begin = scan.begin
          /\ scan'.key_start = scan.key_start /\ scan'.key_end = scan.key_end
          /\ scan'.value_start = scan.value_start /\ scan'.value_end = scan.i
      BY <2>1 DEF Context, ScanInv
    <2>3. x = NameAt(h) + 4
      <3>1. /\ x # NameAt(h) - 1 /\ x # NameAt(h) /\ x # NameAt(h) + 1
            /\ x # NameAt(h) + 2 /\ x # NameAt(h) + 3
        BY <1>1, <1>5, <1>7, Kinds DEF Marks
      <3>2. x \in NameAt(h) - 1 .. NameAt(h) + 4
        <4>1. CASE x = NameAt(h) + 4
          BY <4>1, <1>4
        <4>2. CASE x # NameAt(h) + 4
          BY <4>2, <1>3, Zenon
        <4> QED
          BY <4>1, <4>2
      <3> QED
        BY <3>1, <3>2, <1>4
    <2>4. /\ Base' + scan'.i = NameAt(h)' + 5
          /\ Base' + scan'.value_end = NameAt(h)' + 4
      <3>1. Base' = Base /\ Base \in Nat /\ scan.i \in Nat
        BY <1>1, <1>2
      <3> QED
        BY <3>1, <2>2, <2>3, <1>4
    <2>5. /\ KeyOf(h, scan)'
          /\ \/ scan'.key_start = 0
             \/ Base' + scan'.value_start = NameAt(h)' + 3
      BY <2>2, <1>2, <1>3, <1>5, Zenon DEF KeyOf
    <2>6. AtCr(scan)'
      BY <2>2, <2>4, <2>5, <1>2, <1>3, Zenon DEF AtCr
    <2> QED
      BY <2>1, <2>6 DEF Placed
  <1>8. CASE Char = "CR" /\ ~(scan.i > scan.value_start)
    BY <1>8 DEF HValue, HeaderError, Fail
  <1> QED
    BY <1>6, <1>7, <1>8

(* From "CR": only the LF of the header is accepted.                       *)
LEMMA CrStep ==
  ASSUME Context, pc = "scan", AtCr(scan), HCr, Still,
         NEW x, x = Base + scan.i
  PROVE  pc' = "scan" => Placed(scan)'
  <1>1. /\ n \in Nat /\ n < Len(requests) /\ stream \in Streams
        /\ Base \in Nat /\ scan.i \in Nat \ {0} /\ scan.i <= Len(inBuffer_)
        /\ x \in Nat /\ Char = T(x)
    BY Looking DEF HCr, In
  <1>2. /\ Base' = Base /\ Hs' = Hs /\ \A h : LfAt(h)' = LfAt(h)
    BY Frame, Zenon DEF Still, textVars, LfAt
  <1>3. PICK h \in 1 .. Hs : AtLine(h, x) \/ x = NameAt(h) + 5
    BY DEF AtCr
  <1>4. /\ From \in Nat /\ Hs \in Nat /\ h \in Nat /\ h <= Hs
        /\ h - 1 \in 0 .. Hs /\ h \in 0 .. Hs
        /\ LfAt(h) \in Nat /\ LfAt(h - 1) \in Nat
        /\ NameAt(h) - 1 = LfAt(h - 1) /\ NameAt(h) + 5 = LfAt(h)
    <2>1. From \in Nat /\ Hs \in Nat
      BY <1>1, Places
    <2>2. h \in Nat /\ h <= Hs
      BY <1>1, HeaderLine
    <2>3. h - 1 \in 0 .. Hs /\ h \in 0 .. Hs
      BY <2>1, <2>2
    <2>4. /\ NameAt(h) - 1 = LfAt(h - 1) /\ NameAt(h) + 5 = LfAt(h)
          /\ LfAt(h) \in Nat /\ LfAt(h - 1) \in Nat
      BY <2>1, <2>2 DEF NameAt, LfAt
    <2> QED
      BY <2>1, <2>2, <2>3, <2>4
  <1>5. CASE Char = "LF"
    <2>1. /\ hState_' = "LF"
          /\ scan' = [scan EXCEPT !.i = @ + 1, !.begin = scan.i]
      BY <1>5 DEF HCr
    <2>2. scan'.i = scan.i + 1 /\ scan'.begin = scan.i
      BY <2>1 DEF Context, ScanInv
    <2>3. x # NameAt(h)
      <3>1. T(NameAt(h)) \in Words
        BY <1>1, HeaderLine
      <3> QED
        BY <3>1, <1>1, <1>5, Kinds DEF Marks
    <2>4. PICK g \in 0 .. Hs : x = LfAt(g) /\ LfAt(g) \in Nat
      BY <2>3, <1>3, <1>4 DEF AtLine
    <2>5. /\ Base' + scan'.begin = LfAt(g)'
          /\ Base' + scan'.i \in LfAt(g)' .. LfAt(g)' + 1
      <3>1. Base' = Base /\ Base \in Nat /\ scan.i \in Nat /\ LfAt(g)' = LfAt(g)
        BY <1>1, <1>2
      <3> QED
        BY <3>1, <2>2, <2>4
    <2>6. AtLf(scan)'
      BY <2>5, <1>2 DEF AtLf
    <2> QED
      BY <2>1, <2>6 DEF Placed
  <1> QED
    BY <1>5 DEF HCr, HeaderError, Fail

(* From "LF": to the next header, or to the CR of the empty line.          *)
LEMMA LfStep ==
  ASSUME Context, pc = "scan", AtLf(scan), HLf, Still,
         NEW x, x = Base + scan.i
  PROVE  pc' = "scan" => Placed(scan)'
  <1>1. /\ n \in Nat /\ n < Len(requests) /\ stream \in Streams
        /\ Base \in Nat /\ scan.i \in Nat \ {0} /\ scan.i <= Len(inBuffer_)
        /\ x \in Nat /\ x <= pos /\ pos \in Nat /\ Char = T(x)
        /\ scan.begin \in Nat
    BY Looking DEF HLf, In
  <1>2. /\ Base' = Base /\ Hs' = Hs /\ HeadEnd' = HeadEnd
        /\ \A h : NameAt(h)' = NameAt(h) /\ LfAt(h)' = LfAt(h)
        /\ \A y : Dead(y)' = Dead(y)
    BY Frame, Zenon DEF Still, textVars, LfAt, NameAt, Dead
  <1>3. PICK h \in 0 .. Hs : /\ Base + scan.begin = LfAt(h)
                             /\ x \in LfAt(h) .. LfAt(h) + 1
    BY DEF AtLf
  <1>4. /\ From \in Nat /\ Hs \in Nat /\ h \in Nat /\ HeadEnd \in Nat
        /\ LfAt(Hs) = HeadEnd - 2
    BY <1>1, Places
  <1>5. LfAt(h) \in Nat
    BY <1>4 DEF LfAt
  <1>6. x = LfAt(h) \/ x = LfAt(h) + 1
    BY <1>3, <1>5
  <1>7. /\ scan'.i = scan.i + 1 /\ scan'.begin = scan.begin
        /\ Base' + scan'.i = x + 1 /\ Base' + scan'.begin = LfAt(h)
    <2>1. scan'.i = scan.i + 1 /\ scan'.begin = scan.begin
      BY DEF HLf, Go, Context, ScanInv
    <2> QED
      BY <2>1, <1>1, <1>2, <1>3
  <1>8. CASE Char = "CR"
    <2>1. hState_' = "END_CR" /\ pc' = pc
      BY <1>8 DEF HLf, Go
    <2>2. h = Hs /\ x = LfAt(Hs) + 1
      <3>1. h # Hs => T(LfAt(h)) = "LF" /\ T(LfAt(h) + 1) \in Words
        <4> HAVE h # Hs
        <4>1. h + 1 \in 1 .. Hs
          BY <1>3, <1>4
        <4>2. NameAt(h + 1) = LfAt(h) + 1 /\ NameAt(h + 1) - 1 = LfAt(h)
          BY <1>4 DEF NameAt, LfAt
        <4> QED
          BY <4>1, <4>2, <1>1, HeaderLine
      <3>2. T(LfAt(Hs)) = "LF"
        BY <1>1, <1>4, LastLine
      <3>3. h = Hs
        BY <3>1, <1>1, <1>6, <1>8, Kinds DEF Marks
      <3> QED
        BY <3>2, <3>3, <1>1, <1>6, <1>8
    <2>3. /\ Base' + scan'.begin = LfAt(Hs)'
          /\ Base' + scan'.i = LfAt(Hs)' + 2
          /\ Base' + scan'.i # LfAt(Hs)'
          /\ pos' > LfAt(Hs)'
      <3>1. LfAt(Hs)' = LfAt(Hs) /\ LfAt(Hs) \in Nat /\ pos' = pos
        BY <2>2, <1>2, <1>5 DEF Still, textVars
      <3>2. x = LfAt(Hs) + 1 /\ x <= pos /\ pos \in Nat
        BY <2>2, <1>1
      <3>3. Base' + scan'.i = x + 1 /\ Base' + scan'.begin = LfAt(Hs)
        BY <2>2, <1>7
      <3> QED
        BY <3>1, <3>2, <3>3
    <2>4. AtEndCr(scan)'
      BY <2>3 DEF AtEndCr
    <2> QED
      BY <2>1, <2>4 DEF Placed
  <1>9. CASE Char # "CR"
    <2>1. /\ hState_' = "KEY"
          /\ scan' = [[scan EXCEPT !.key_start = scan.i] EXCEPT !.i = @ + 1]
      BY <1>9 DEF HLf, Go
    <2>2. scan'.key_start = scan.i
      BY <2>1 DEF Context, ScanInv
    <2>3. CASE h # Hs
      <3>1. h + 1 \in 1 .. Hs
        BY <2>3, <1>3, <1>4
      <3>2. NameAt(h + 1) = LfAt(h) + 1
        BY <1>4 DEF NameAt, LfAt
      <3>3. NameAt(h + 1)' = LfAt(h) + 1
        BY <3>2, <1>2
      <3>4. AtLine(h + 1, Base + scan.begin)'
        BY <3>3, <1>5, <1>7 DEF AtLine
      <3>5. Base' + scan'.i \in NameAt(h + 1)' - 1 .. NameAt(h + 1)' + 1
        BY <3>3, <1>5, <1>6, <1>7
      <3>6. scan'.key_start < scan'.i /\ Base' + scan'.key_start = x
        BY <2>2, <1>1, <1>2, <1>7
      <3>7. AtLine(h + 1, Base + scan.key_start)'
        BY <3>3, <3>6, <1>5, <1>6 DEF AtLine
      <3>8. AtKey(scan)'
        BY <3>1, <3>4, <3>5, <3>6, <3>7, <1>2, Zenon DEF AtKey
      <3> QED
        BY <2>1, <3>8 DEF Placed
    <2>4. CASE h = Hs
      <3>1. x # LfAt(Hs) + 1
        <4>1. T(LfAt(Hs) + 1) = "CR"
          BY <1>1, <1>4, LastLine
        <4> QED
          BY <4>1, <1>1, <1>9
      <3>2. Dead(x + 1) /\ Dead(LfAt(h))
        BY <3>1, <2>4, <1>5, <1>6 DEF Dead
      <3>3. AtKey(scan)'
        BY <3>2, <1>2, <1>7 DEF AtKey
      <3> QED
        BY <2>1, <3>3 DEF Placed
    <2> QED
      BY <2>3, <2>4
  <1> QED
    BY <1>8, <1>9

(* From "END_CR": only the LF of the empty line is accepted.               *)
LEMMA EndCrStep ==
  ASSUME Context, pc = "scan", AtEndCr(scan), HEndCr, Still
  PROVE  pc' = "scan" => Placed(scan)'
  <1>1. /\ n \in Nat /\ n < Len(requests) /\ stream \in Streams
        /\ Base \in Nat /\ scan.i \in Nat \ {0} /\ scan.i <= Len(inBuffer_)
        /\ Base + scan.i <= pos /\ pos \in Nat
    BY Looking DEF HEndCr, In
  <1>2. Base' = Base /\ Hs' = Hs /\ HeadEnd' = HeadEnd /\ pos' = pos
    BY Frame DEF Still, textVars
  <1>3. HeadEnd \in Nat /\ LfAt(Hs) = HeadEnd - 2
    BY <1>1, Places
  <1>4. CASE Char = "LF"
    <2>1. hState_' = "END_LF" /\ scan' = [scan EXCEPT !.i = @ + 1] /\ pc' = pc
      BY <1>4 DEF HEndCr, Go
    <2>2. scan'.i = scan.i + 1
      BY <2>1 DEF Context, ScanInv
    <2>3. Base' + scan'.i \in {HeadEnd' - 1, HeadEnd' + 1} /\ pos' >= HeadEnd'
      <3>1. CASE Base + scan.i = LfAt(Hs)
        <4>1. pos >= HeadEnd
          BY <3>1 DEF AtEndCr
        <4> QED
          BY <4>1, <3>1, <2>2, <1>1, <1>2, <1>3
      <3>2. CASE Base + scan.i = LfAt(Hs) + 2
        BY <3>2, <2>2, <1>1, <1>2, <1>3
      <3> QED
        BY <3>1, <3>2 DEF AtEndCr
    <2>4. AtEndLf(scan)'
      BY <2>1, <2>3 DEF AtEndLf
    <2> QED
      BY <2>1, <2>4 DEF Placed
  <1> QED
    BY <1>4 DEF HEndCr, HeaderError, Fail

(* Each state of parseHeaders leads to the places of the next.             *)
LEMMA HeaderStepPlaced ==
  ASSUME Context, HeaderInv, HeaderStep
  PROVE  pc' = "scan" => Placed(scan)'
  <1>1. Still
    BY DEF HeaderStep, Still
  <1>2. CASE HStart
    BY <1>1, <1>2, StartStep DEF HStart, In, HeaderInv, Placed
  <1>3. CASE HKey
    BY <1>1, <1>3, KeyStep DEF HKey, In, HeaderInv, Placed
  <1>4. CASE HColon
    BY <1>1, <1>4, ColonStep DEF HColon, In, HeaderInv, Placed
  <1>5. CASE HSpace
    BY <1>1, <1>5, SpaceStep DEF HSpace, In, HeaderInv, Placed
  <1>6. CASE HValue
    BY <1>1, <1>6, ValueStep DEF HValue, In, HeaderInv, Placed
  <1>7. CASE HCr
    BY <1>1, <1>7, CrStep DEF HCr, In, HeaderInv, Placed
  <1>8. CASE HLf
    BY <1>1, <1>8, LfStep DEF HLf, In, HeaderInv, Placed
  <1>9. CASE HEndCr
    BY <1>1, <1>9, EndCrStep DEF HEndCr, In, HeaderInv, Placed
  <1> QED
    BY <1>2, <1>3, <1>4, <1>5, <1>6, <1>7, <1>8, <1>9 DEF HeaderStep

(* The indices of parseHeaders stay within the buffer.                     *)
LEMMA HeaderStepScan ==
  ASSUME Held, ScanInv, HeaderStep
  PROVE  ScanInv'
  <1>1. Still
    BY DEF HeaderStep, Still
  <1>2. pc = "scan" /\ scan.i <= Len(inBuffer_)
    BY DEF HeaderStep, HStart, HKey, HColon, HSpace, HValue, HCr, HLf, HEndCr, In
  <1>3. Len(inBuffer_) \in Nat /\ Len(inBuffer_) <= pos
    BY LenProperties DEF Held
  <1>4. Len(stream.text) \in Nat /\ pos <= Len(stream.text) /\ pos \in Nat
          /\ scan.i \in Nat \ {0} /\ scan.begin \in Nat \ {0} /\ scan.begin <= scan.i
    <2>1. Len(stream.text) \in Nat
      BY LenProperties DEF Held
    <2> QED
      BY <2>1 DEF Held, ScanInv
  <1>5. /\ scan.i + 1 \in 1 .. Len(stream.text) + 1
        /\ scan.i + 1 <= Len(inBuffer_) + 1
        /\ scan.begin \in 1 .. scan.i + 1 /\ scan.i \in 1 .. scan.i + 1
    BY <1>2, <1>3, <1>4
  <1>6. stream' = stream /\ inBuffer_' = inBuffer_
    BY <1>1 DEF Still, textVars
  <1> DEFINE R == [i : Nat, key_start : Nat, key_end : Nat, value_start : Nat,
                   value_end : Nat, begin : Nat]
             Here(s) == s \in R /\ s.i = scan.i /\ s.begin \in {scan.begin, scan.i}
  <1>7. scan \in R
    BY DEF ScanInv
  <1>8. CASE HeaderError
    BY <1>6, <1>8 DEF ScanInv, HeaderError, Fail
  <1>9. ASSUME scan' \in R, scan'.i = scan.i + 1, scan'.begin \in {scan.begin, scan.i}
        PROVE  ScanInv'
    BY <1>5, <1>6, <1>9 DEF ScanInv
  <1>10. ASSUME NEW h, NEW s, Here(s), Go(h, s)
         PROVE  ScanInv'
    <2>1. s \in R /\ s.i = scan.i /\ scan' = [s EXCEPT !.i = @ + 1]
      BY <1>10 DEF Go
    <2>2. scan' \in R /\ scan'.i = scan.i + 1 /\ scan'.begin = s.begin
      BY <2>1, <1>4
    <2> QED
      BY <2>2, <1>9, <1>10
  <1>11. /\ Here(scan)
         /\ Here([scan EXCEPT !.key_start = scan.i])
         /\ Here([scan EXCEPT !.key_end = scan.i])
         /\ Here([scan EXCEPT !.value_start = scan.i])
         /\ Here([scan EXCEPT !.value_end = scan.i])
         /\ Here([scan EXCEPT !.key_start = scan.i, !.begin = scan.i])
    BY <1>4, <1>7
  <1> HIDE DEF Here
  <1>12. CASE HStart
    BY <1>10, <1>11, <1>12, Zenon DEF HStart
  <1>13. CASE HKey
    BY <1>8, <1>10, <1>11, <1>13, Zenon DEF HKey
  <1>14. CASE HColon
    BY <1>8, <1>10, <1>11, <1>14, Zenon DEF HColon
  <1>15. CASE HSpace
    BY <1>10, <1>11, <1>15, Zenon DEF HSpace
  <1>16. CASE HValue
    BY <1>8, <1>10, <1>11, <1>16, Zenon DEF HValue
  <1>17. CASE HCr
    <2>1. CASE Char = "LF"
      <3>1. scan' = [scan EXCEPT !.i = @ + 1, !.begin = scan.i]
        BY <2>1, <1>17 DEF HCr
      <3>2. scan.i + 1 \in Nat /\ scan.i \in Nat
        BY <1>4
      <3>3. scan' \in R
        BY <3>1, <3>2, <1>7
      <3>4. scan'.i = scan.i + 1 /\ scan'.begin = scan.i
        BY <3>1, <1>7
      <3> QED
        BY <3>3, <3>4, <1>9
    <2> QED
      BY <2>1, <1>8, <1>17 DEF HCr
  <1>18. CASE HLf
    BY <1>10, <1>11, <1>18, Zenon DEF HLf
  <1>19. CASE HEndCr
    BY <1>8, <1>10, <1>11, <1>19, Zenon DEF HEndCr
  <1> QED
    BY <1>12, <1>13, <1>14, <1>15, <1>16, <1>17, <1>18, <1>19 DEF HeaderStep

(* A key without a beginning is the name of no header.                     *)
LEMMA Beginless ==
  ASSUME NEW e \in Nat
  PROVE  Foreign(Slice(0, e))
  <1>1. DOMAIN Slice(0, e) = 1 .. e - 0
    BY DEF Slice
  <1>2. CASE e = 1
    <2>1. Slice(0, e)[1] = "junk"
      BY <1>2 DEF Slice
    <2> QED
      BY <2>1 DEF Foreign
  <1>3. CASE e # 1
    <2>1. 1 .. e - 0 # {1}
      <3>1. CASE e = 0
        BY <3>1
      <3>2. CASE e > 1
        <4>1. 2 \in 1 .. e - 0
          BY <3>2
        <4> QED
          BY <4>1
      <3> QED
        BY <3>1, <3>2, <1>3
    <2> QED
      BY <2>1, <1>1, Zenon DEF Foreign
  <1> QED
    BY <1>2, <1>3

(* One token of the buffer.                                                *)
LEMMA OneToken ==
  ASSUME NEW k \in Nat \ {0}
  PROVE  Slice(k, k + 1) = <<inBuffer_[k]>>
  <1>1. /\ k + 1 - k = 1
        /\ \A i \in 1 .. 1 : k + i # 1 /\ k + i - 1 = k
    OBVIOUS
  <1>2. Slice(k, k + 1) = [i \in 1 .. 1 |-> inBuffer_[k]]
    BY <1>1 DEF Slice
  <1> QED
    BY <1>2, Single

(* What H_CR stores: a header of the request under its name, or something  *)
(* that is under no header's name.                                         *)
LEMMA Stores ==
  ASSUME Context, pc = "scan", AtCr(scan), scan.i <= Len(inBuffer_)
  PROVE  LET k == Slice(scan.key_start, scan.key_end)
             v == Slice(scan.value_start, scan.value_end)
         IN  \/ Foreign(k)
             \/ \E h \in 1 .. Hs : /\ k = <<Current.headers[h].name>>
                                   /\ v = <<Current.headers[h].value>>
  <1> DEFINE ci == scan.i
             ks == scan.key_start
             ke == scan.key_end
             vs == scan.value_start
             ve == scan.value_end
  <1>1. /\ n \in Nat /\ n < Len(requests) /\ stream \in Streams
        /\ Base \in Nat /\ ci \in Nat /\ ks \in Nat /\ ke \in Nat
        /\ vs \in Nat /\ ve \in Nat
    BY Looking
  <1>2. CASE ks = 0
    BY <1>1, <1>2, Beginless, Zenon
  <1>3. CASE ks # 0
    <2>1. PICK h \in 1 .. Hs :
             /\ Base + ci = NameAt(h) + 5 /\ AtLine(h, Base + ks)
             /\ Base + ke = NameAt(h) + 1
             /\ Base + vs = NameAt(h) + 3 /\ Base + ve = NameAt(h) + 4
      BY <1>3 DEF AtCr, KeyOf
    <2>2. NameAt(h) \in Nat
      BY <1>1, HeaderLine
    <2>3. CASE Base + ks = NameAt(h) - 1
      <3>1. ke - ks = 2
        <4> HIDE DEF ks, ke
        <4> QED
          BY <2>1, <2>2, <2>3, <1>1
      <3>2. 2 \in DOMAIN Slice(ks, ke)
        BY <3>1 DEF Slice
      <3> QED
        BY <3>2 DEF Foreign
    <2>4. CASE Base + ks = NameAt(h)
      <3>1. ke = ks + 1 /\ vs = ks + 3 /\ ve = vs + 1 /\ ci = ks + 5
        <4> HIDE DEF ci, ks, ke, vs, ve
        <4>1. ke = ks + 1 /\ vs = ks + 3
          BY <2>1, <2>2, <2>4, <1>1
        <4>2. ve = vs + 1
          BY <2>1, <2>2, <1>1
        <4>3. ci = ks + 5
          BY <2>1, <2>2, <2>4, <1>1
        <4> QED
          BY <4>1, <4>2, <4>3
      <3>2. ks \in 1 .. Len(inBuffer_) /\ vs \in 1 .. Len(inBuffer_)
        <4>1. Len(inBuffer_) \in Nat
          BY LenProperties DEF Context, BufferInv
        <4> QED
          BY <4>1, <3>1, <1>1, <1>3
      <3>3. inBuffer_[ks] = T(NameAt(h)) /\ inBuffer_[vs] = T(NameAt(h) + 3)
        BY <3>2, <2>1, <2>4 DEF Context, BufferInv
      <3>4. /\ inBuffer_[ks] = Current.headers[h].name
            /\ inBuffer_[vs] = Current.headers[h].value
        BY <3>3, <1>1, HeaderLine
      <3>5. ks \in Nat \ {0} /\ vs \in Nat \ {0}
        BY <3>1, <1>1, <1>3
      <3>6. /\ Slice(ks, ke) = <<Current.headers[h].name>>
            /\ Slice(vs, ve) = <<Current.headers[h].value>>
        BY <3>1, <3>4, <3>5, OneToken, Zenon
      <3> QED
        BY <3>6, Zenon
    <2> QED
      BY <2>1, <2>3, <2>4 DEF AtLine
  <1> QED
    BY <1>2, <1>3

(* A step of parseHeaders stores no value under another header's name.     *)
LEMMA HeaderStepKeys ==
  ASSUME Context, HeaderInv, KeysInv, HeaderStep
  PROVE  KeysInv'
  <1>1. Still
    BY DEF HeaderStep, Still
  <1>2. n' = n /\ requests' = requests /\ Current' = Current /\ Hs' = Hs
    BY <1>1, Frame DEF Still, textVars
  <1>3. CASE headers_' = headers_
    BY <1>2, <1>3 DEF KeysInv, Foreign
  <1>4. CASE HCr /\ Char = "LF"
    <2> DEFINE k == Slice(scan.key_start, scan.key_end)
               v == Slice(scan.value_start, scan.value_end)
    <2>1. headers_' = Put(headers_, k, v)
      BY <1>4 DEF HCr
    <2>2. pc = "scan" /\ AtCr(scan) /\ scan.i <= Len(inBuffer_)
      BY <1>4 DEF HCr, In, HeaderInv, Placed
    <2>3. n \in Nat /\ n < Len(requests)
      BY <2>2, Looking
    <2>4. \/ Foreign(k)
          \/ \E h \in 1 .. Hs : /\ k = <<Current.headers[h].name>>
                                /\ v = <<Current.headers[h].value>>
      BY <2>2, Stores
    <2> HIDE DEF k, v
    <2>5. /\ DOMAIN headers_' = DOMAIN headers_ \cup {k}
          /\ headers_'[k] = v
          /\ \A y \in DOMAIN headers_ : y # k => headers_'[y] = headers_[y]
      BY <2>1, Zenon DEF Put
    <2> SUFFICES ASSUME NEW y \in DOMAIN headers_'
                 PROVE  /\ n < Len(requests)
                        /\ \/ Foreign(y)
                           \/ \E h \in 1 .. Hs :
                                 /\ y = <<Current.headers[h].name>>
                                 /\ headers_'[y] = <<Current.headers[h].value>>
      BY <1>2, Zenon DEF KeysInv, Foreign
    <2>6. CASE y = k
      BY <2>3, <2>4, <2>5, <2>6, Zenon
    <2>7. CASE y # k
      BY <2>3, <2>5, <2>7, Zenon DEF KeysInv
    <2> QED
      BY <2>6, <2>7
  <1> QED
    BY <1>3, <1>4 DEF HeaderStep, HStart, HKey, HColon, HSpace, HValue, HCr, HLf,
                      HEndCr, HeaderError, Go

-----------------------------------------------------------------------------
(* The buffer.                                                             *)

(* What does not change as long as no request is answered.                 *)
LEMMA SameRequest ==
  ASSUME UNCHANGED <<stream, answers>>
  PROVE  /\ n' = n /\ From' = From /\ Upto' = Upto
         /\ Current' = Current /\ Hs' = Hs /\ HeadEnd' = HeadEnd
         /\ requests' = requests
         /\ \A x : T(x)' = T(x)
         /\ \A h : NameAt(h)' = NameAt(h) /\ LfAt(h)' = LfAt(h)
         /\ \A x : Dead(x)' = Dead(x)
         /\ \A h, x : AtLine(h, x)' = AtLine(h, x)
  <1>1. /\ n' = n /\ From' = From /\ Upto' = Upto
        /\ Current' = Current /\ Hs' = Hs /\ HeadEnd' = HeadEnd
        /\ requests' = requests
        /\ \A x : T(x)' = T(x)
    BY DEF n, From, Upto, Current, Hs, HeadEnd, requests, T, End
  <1>2. \A h : NameAt(h)' = NameAt(h) /\ LfAt(h)' = LfAt(h)
    BY <1>1, Zenon DEF NameAt, LfAt
  <1> QED
    BY <1>1, <1>2, Zenon DEF Dead, AtLine

(* A buffer that holds the text of requests holds tokens.                  *)
LEMMA HeldBuffer ==
  ASSUME BufferInv
  PROVE  Held
  BY StreamsAssumption DEF BufferInv, Held, IsStream

(* The sizes of the buffer and of the text.                                *)
LEMMA Sizes ==
  ASSUME BufferInv
  PROVE  /\ Len(inBuffer_) \in Nat /\ Len(stream.text) \in Nat
         /\ pos \in Nat /\ pos <= Len(stream.text)
         /\ Base \in Nat /\ Base + Len(inBuffer_) = pos
         /\ stream.text \in Seq(Tokens)
  <1>1. stream.text \in Seq(Tokens)
    BY StreamsAssumption DEF BufferInv, IsStream
  <1>2. Len(inBuffer_) \in Nat /\ Len(stream.text) \in Nat
    BY <1>1, LenProperties DEF BufferInv
  <1> QED
    BY <1>1, <1>2 DEF BufferInv, Base

(* The first tokens of the buffer are dropped.                             *)
LEMMA Dropped ==
  ASSUME BufferInv, UNCHANGED <<stream, delivery, pos>>,
         NEW k \in 1 .. Len(inBuffer_) + 2,
         inBuffer_' = SubSeq(inBuffer_, k, Len(inBuffer_))
  PROVE  /\ BufferInv'
         /\ Base' = IF k <= Len(inBuffer_) THEN Base + k - 1 ELSE pos
         /\ k > Len(inBuffer_) => inBuffer_' = <<>>
  <1>1. /\ Len(inBuffer_) \in Nat /\ pos \in Nat /\ Base \in Nat
        /\ Base + Len(inBuffer_) = pos
    BY Sizes
  <1>2. /\ inBuffer_' \in Seq(Tokens)
        /\ Len(inBuffer_') = IF k <= Len(inBuffer_) THEN Len(inBuffer_) + 1 - k ELSE 0
        /\ \A i \in 1 .. Len(inBuffer_') : inBuffer_'[i] = inBuffer_[k + i - 1]
    BY Rest DEF BufferInv
  <1>3. Base' = IF k <= Len(inBuffer_) THEN Base + k - 1 ELSE pos
    BY <1>1, <1>2 DEF Base
  <1>4. Len(inBuffer_') <= pos'
    BY <1>1, <1>2
  <1>5. ASSUME NEW i \in 1 .. Len(inBuffer_')
        PROVE  inBuffer_'[i] = T(Base' + i)
    <2>1. Len(inBuffer_') = Len(inBuffer_) + 1 - k /\ k <= Len(inBuffer_)
      BY <1>1, <1>2
    <2>2. k + i - 1 \in 1 .. Len(inBuffer_) /\ Base + (k + i - 1) = Base' + i
      BY <2>1, <1>1, <1>3
    <2> QED
      BY <2>2, <1>2 DEF BufferInv
  <1>6. BufferInv'
    BY <1>2, <1>4, <1>5 DEF BufferInv, T
  <1>7. k > Len(inBuffer_) => inBuffer_' = <<>>
    BY <1>1, <1>2, EmptySeq
  <1> QED
    BY <1>3, <1>6, <1>7

(* The buffer grows by what is read.                                       *)
LEMMA Grown ==
  ASSUME BufferInv, Read
  PROVE  /\ BufferInv' /\ Base' = Base
         /\ pos' \in Nat /\ pos' >= pos /\ pos' <= Len(stream.text)
         /\ pc = "idle" => pos' > pos
  <1>1. /\ Len(inBuffer_) \in Nat /\ pos \in Nat /\ Base \in Nat
        /\ Base + Len(inBuffer_) = pos /\ Len(stream.text) \in Nat
        /\ stream.text \in Seq(Tokens)
    BY Sizes
  <1>2. PICK p \in pos .. Len(stream.text) :
           /\ IF p = pos THEN pc = "again" ELSE ReadMayEnd(p)
           /\ pos' = p
           /\ inBuffer_' = inBuffer_ \o SubSeq(stream.text, pos + 1, p)
    BY Zenon DEF Read
  <1> DEFINE more == SubSeq(stream.text, pos + 1, p)
  <1>3. /\ more \in Seq(Tokens) /\ Len(more) = p - pos
        /\ \A i \in 1 .. p - pos : more[i] = stream.text[pos + i]
    <2>1. \A i \in pos + 1 .. p : stream.text[i] \in Tokens
      BY <1>1, <1>2, ElementOfSeq
    <2>2. pos + 1 \in Int /\ p \in Int
      BY <1>1
    <2>3. /\ more \in Seq(Tokens)
          /\ Len(more) = IF pos + 1 <= p THEN p - (pos + 1) + 1 ELSE 0
          /\ \A i \in 1 .. p - (pos + 1) + 1 : more[i] = stream.text[(pos + 1) + i - 1]
      BY <2>1, <2>2, SubSeqProperties
    <2>4. p - (pos + 1) + 1 = p - pos /\ \A i \in Nat : (pos + 1) + i - 1 = pos + i
      BY <1>1
    <2>5. Len(more) = p - pos
      BY <2>3, <1>1
    <2>6. \A i \in 1 .. p - pos : more[i] = stream.text[pos + i]
      BY <2>3, <2>4, <1>1
    <2> QED
      BY <2>3, <2>5, <2>6
  <1> HIDE DEF more
  <1>4. /\ inBuffer_' \in Seq(Tokens)
        /\ Len(inBuffer_') = Len(inBuffer_) + (p - pos)
        /\ \A i \in 1 .. Len(inBuffer_) + (p - pos) :
              inBuffer_'[i] = IF i <= Len(inBuffer_) THEN inBuffer_[i]
                              ELSE more[i - Len(inBuffer_)]
    <2>1. inBuffer_' = inBuffer_ \o more /\ inBuffer_ \in Seq(Tokens)
      BY <1>2 DEF more, BufferInv
    <2>2. /\ inBuffer_ \o more \in Seq(Tokens)
          /\ Len(inBuffer_ \o more) = Len(inBuffer_) + Len(more)
          /\ \A i \in 1 .. Len(inBuffer_) + Len(more) :
                (inBuffer_ \o more)[i] = IF i <= Len(inBuffer_) THEN inBuffer_[i]
                                         ELSE more[i - Len(inBuffer_)]
      BY <2>1, <1>3, ConcatProperties
    <2> QED
      BY <2>1, <2>2, <1>3, Zenon
  <1>5. Base' = Base
    BY <1>1, <1>2, <1>4 DEF Base
  <1>6. ASSUME NEW i \in 1 .. Len(inBuffer_')
        PROVE  inBuffer_'[i] = T(Base' + i)
    <2>1. CASE i <= Len(inBuffer_)
      <3>1. i \in 1 .. Len(inBuffer_)
        BY <2>1, <1>1
      <3>2. inBuffer_'[i] = inBuffer_[i]
        BY <2>1, <1>4
      <3> QED
        BY <3>1, <3>2, <1>5 DEF BufferInv
    <2>2. CASE i > Len(inBuffer_)
      <3>1. i \in Nat /\ i <= Len(inBuffer_) + (p - pos)
        BY <1>1, <1>4
      <3>2. /\ i - Len(inBuffer_) \in 1 .. p - pos
            /\ pos + (i - Len(inBuffer_)) = Base' + i
        BY <3>1, <2>2, <1>1, <1>5
      <3>3. inBuffer_'[i] = more[i - Len(inBuffer_)]
        BY <2>2, <1>1, <1>4
      <3> QED
        BY <3>2, <3>3, <1>3 DEF T
    <2> QED
      BY <2>1, <2>2, <1>1
  <1>7. stream' = stream /\ delivery' = delivery
    BY DEF Read
  <1>8. /\ pos' \in 0 .. Len(stream.text) /\ Len(inBuffer_') <= pos'
        /\ pos' \in Nat /\ pos' >= pos /\ pos' <= Len(stream.text)
        /\ pc = "idle" => pos' > pos
    BY <1>1, <1>2, <1>4
  <1>9. BufferInv'
    BY <1>4, <1>6, <1>7, <1>8 DEF BufferInv, T
  <1> QED
    BY <1>5, <1>8, <1>9

-----------------------------------------------------------------------------
(* The request line.                                                       *)

\* The tokens in front of the first CR, and where the buffer begins behind it.
LineSize == IF pos >= From + 3 THEN From + 2 - Base ELSE pos - Base
LineRest == IF pos >= From + 3 THEN From + 3 ELSE Base

\* parseURI at work.
AtUri ==
    /\ BufferInv /\ AnswersInv /\ UriInv
    /\ pc = "pass" /\ state_ = "URI"

(* Where parseURI finds the buffer.                                        *)
LEMMA UriPlace ==
  ASSUME AtUri
  PROVE  /\ stream \in Streams /\ n \in Nat /\ n <= Len(requests)
         /\ From \in Nat /\ Base \in Nat /\ pos \in Nat
         /\ Len(inBuffer_) \in Nat /\ Base + Len(inBuffer_) = pos
         /\ Base = From - 1 \/ Base = From \/ Base = From + 1
         /\ From > 0 => T(From) = "LF"
         /\ n = Len(requests) => pos <= From
         /\ LineSize \in Nat /\ LineSize <= Len(inBuffer_)
         /\ \A i \in 1 .. Len(inBuffer_) : inBuffer_[i] = T(Base + i)
  <1>1. /\ Len(inBuffer_) \in Nat /\ pos \in Nat /\ pos <= Len(stream.text)
        /\ Base \in Nat /\ Base + Len(inBuffer_) = pos
    BY Sizes DEF AtUri
  <1>2. stream \in Streams /\ n \in 0 .. Len(requests)
    BY DEF AtUri, BufferInv, AnswersInv
  <1>3. Len(requests) \in Nat /\ n \in Nat /\ n <= Len(requests)
    BY <1>2, StreamsAssumption, RequestCount DEF AtUri, BufferInv, AnswersInv, requests
  <1>4. n = Len(requests) => From = Len(stream.text)
    BY <1>2, Ends DEF AtUri, BufferInv, AnswersInv
  <1>5. stream \in Streams /\ n \in 0 .. Len(requests) /\ From \in Nat
          /\ From <= pos
    BY Ends DEF AtUri, BufferInv, AnswersInv
  <1>6. Base \in From - 1 .. From + 1
    BY DEF AtUri, UriInv
  <1>7. Base = From - 1 \/ Base = From \/ Base = From + 1
    BY <1>5, <1>6
  <1>8. n = Len(requests) => pos <= From
    BY <1>1, <1>4
  <1>9. LineSize \in Nat /\ LineSize <= Len(inBuffer_)
    BY <1>1, <1>5, <1>7 DEF LineSize
  <1>10. /\ From > 0 => T(From) = "LF"
         /\ \A i \in 1 .. Len(inBuffer_) : inBuffer_[i] = T(Base + i)
    BY DEF AtUri, BufferInv, AnswersInv
  <1> QED
    BY <1>1, <1>3, <1>5, <1>7, <1>8, <1>9, <1>10

(* What the tokens of the line can be.                                     *)
LEMMA LineTokens ==
  ASSUME AtUri, n < Len(requests), NEW i \in 1 .. LineSize
  PROVE  /\ i \in Nat
         /\ \/ Base + i = From /\ inBuffer_[i] = "LF"
            \/ Base + i = From + 1 /\ inBuffer_[i] = Current.method
            \/ Base + i = From + 2 /\ inBuffer_[i] = "1.1"
  <1>1. /\ stream \in Streams /\ n \in Nat
        /\ From \in Nat /\ Base \in Nat /\ pos \in Nat
        /\ Len(inBuffer_) \in Nat /\ Base + Len(inBuffer_) = pos
        /\ Base = From - 1 \/ Base = From \/ Base = From + 1
        /\ LineSize \in Nat /\ LineSize <= Len(inBuffer_)
    BY UriPlace
  <1>2. i \in Nat \ {0} /\ i <= LineSize /\ i \in 1 .. Len(inBuffer_)
    BY <1>1
  <1>3. Base + i = From \/ Base + i = From + 1 \/ Base + i = From + 2
    BY <1>1, <1>2 DEF LineSize
  <1>4. Base + i = From => From > 0
    BY <1>1, <1>2
  <1>5. /\ inBuffer_[i] = T(Base + i)
        /\ From > 0 => T(From) = "LF"
    BY <1>2, UriPlace
  <1> QED
    BY <1>1, <1>2, <1>3, <1>4, <1>5, UriPlace, FirstLine

(* The line ends at the first CR, if that has been read.                   *)
LEMMA LineEnds ==
  ASSUME AtUri, n < Len(requests)
  PROVE  /\ Find(inBuffer_, "CR") = IF pos >= From + 3 THEN From + 3 - Base ELSE 0
         /\ Line.text \in Seq(Tokens) /\ Len(Line.text) = LineSize
         /\ \A i \in 1 .. LineSize : Line.text[i] = inBuffer_[i]
  <1>1. /\ stream \in Streams /\ n \in Nat
        /\ From \in Nat /\ Base \in Nat /\ pos \in Nat
        /\ Len(inBuffer_) \in Nat /\ Base + Len(inBuffer_) = pos
        /\ Base = From - 1 \/ Base = From \/ Base = From + 1
        /\ LineSize \in Nat /\ LineSize <= Len(inBuffer_)
    BY UriPlace
  <1>2. inBuffer_ \in Seq(Tokens)
    BY DEF AtUri, BufferInv
  <1>3. \A i \in 1 .. LineSize : inBuffer_[i] # "CR"
    <2>1. Current.method # "CR"
      BY <1>1, FirstLine DEF Methods
    <2> QED
      BY <2>1, LineTokens
  <1>4. CASE pos >= From + 3
    <2> DEFINE e == From + 3 - Base
    <2>1. /\ e \in 1 .. Len(inBuffer_) /\ e - 1 = LineSize /\ Base + e = From + 3
          /\ e # 0
      BY <1>1, <1>4 DEF LineSize
    <2>2. inBuffer_[e] = "CR"
      BY <2>1, <1>1, UriPlace, FirstLine
    <2> HIDE DEF e
    <2>3. Find(inBuffer_, "CR") = e
      BY <2>1, <2>2, <1>2, <1>3, FirstAt
    <2>4. Line.text = SubSeq(inBuffer_, 1, e - 1)
      BY <2>1, <2>3, Zenon DEF Line, Find
    <2>5. Line.text = SubSeq(inBuffer_, 1, LineSize)
      BY <2>1, <2>4
    <2>6. /\ SubSeq(inBuffer_, 1, LineSize) \in Seq(Tokens)
          /\ Len(SubSeq(inBuffer_, 1, LineSize)) = LineSize
          /\ \A i \in 1 .. LineSize : SubSeq(inBuffer_, 1, LineSize)[i] = inBuffer_[i]
      <3>1. \A i \in 1 .. LineSize : inBuffer_[i] \in Tokens
        BY <1>1, <1>2, ElementOfSeq
      <3> QED
        BY <3>1, <1>1
    <2> QED
      BY <2>3, <2>5, <2>6, <1>4 DEF e
  <1>5. CASE ~(pos >= From + 3)
    <2>1. LineSize = Len(inBuffer_)
      BY <1>1, <1>5 DEF LineSize
    <2>2. Find(inBuffer_, "CR") = 0
      BY <2>1, <1>2, <1>3, NotAt
    <2>3. Line.text = inBuffer_
      BY <2>2, Zenon DEF Line, Find
    <2> QED
      BY <2>1, <2>2, <2>3, <1>2, <1>5
  <1> QED
    BY <1>4, <1>5

(* Of the methods, only that of the current request can be in the line.    *)
LEMMA OtherMethods ==
  ASSUME AtUri, n < Len(requests), NEW m \in Methods, m # Current.method
  PROVE  At(m) = 0
  <1>1. /\ Line.text \in Seq(Tokens) /\ Len(Line.text) = LineSize
        /\ \A i \in 1 .. LineSize : Line.text[i] = inBuffer_[i]
    BY LineEnds
  <1>2. At(m) = Find(Line.text, m)
    BY DEF At, Find
  <1>3. \A i \in 1 .. Len(Line.text) : Line.text[i] # m
    BY <1>1, LineTokens DEF Methods
  <1> QED
    BY <1>1, <1>2, <1>3, NotAt

(* The method of the current request is found where it stands.             *)
LEMMA OwnMethod ==
  ASSUME AtUri, n < Len(requests), From + 1 - Base \in 1 .. LineSize
  PROVE  Method = Current.method /\ At(Method) = From + 1 - Base
  <1>1. /\ From \in Nat /\ Base \in Nat
        /\ LineSize \in Nat /\ Current.method \in Methods
    BY UriPlace, FirstLine
  <1>2. /\ Line.text \in Seq(Tokens) /\ Len(Line.text) = LineSize
        /\ \A i \in 1 .. LineSize : Line.text[i] = inBuffer_[i]
    BY LineEnds
  <1> DEFINE j == From + 1 - Base
  <1>3. Line.text[j] = Current.method
    <2>1. Base + j = From + 1
      BY <1>1
    <2> QED
      BY <2>1, <1>1, <1>2, LineTokens
  <1>4. \A i \in 1 .. j - 1 : Line.text[i] # Current.method
    <2> TAKE i \in 1 .. j - 1
    <2>1. i \in 1 .. LineSize /\ Base + i # From + 1
      BY <1>1
    <2>2. inBuffer_[i] = "LF" \/ inBuffer_[i] = "1.1"
      BY <2>1, LineTokens
    <2> QED
      BY <2>1, <2>2, <1>1, <1>2 DEF Methods
  <1>5. At(Current.method) = j /\ j > 0
    <2>1. j \in 1 .. Len(Line.text) /\ j > 0
      BY <1>2
    <2>2. At(Current.method) = Find(Line.text, Current.method)
      BY DEF At, Find
    <2> HIDE DEF j
    <2> QED
      BY <2>1, <2>2, <1>2, <1>3, <1>4, FirstAt
  <1>6. \A m \in Methods : m # Current.method => At(m) = 0
    BY OtherMethods
  <1>7. Method = Current.method
    BY <1>1, <1>5, <1>6 DEF Method, Methods
  <1> QED
    BY <1>5, <1>7

(* A method that is found is that of the current request.                  *)
LEMMA LineMethod ==
  ASSUME AtUri, n < Len(requests), At(Method) > 0, At(Method) \in Nat
  PROVE  Method = Current.method
  <1>1. \A m \in Methods : m # Current.method => At(m) = 0
    BY OtherMethods
  <1>2. Method \in Methods
    BY DEF Method, Methods
  <1> QED
    BY <1>1, <1>2

(* With no request left there are not even two tokens.                     *)
LEMMA LineEmpty ==
  ASSUME AtUri, n = Len(requests)
  PROVE  Len(Line.text) \in Nat /\ Len(Line.text) <= 1
  <1>1. Len(inBuffer_) \in Nat /\ Len(inBuffer_) <= 1
    BY UriPlace
  <1>2. inBuffer_ \in Seq(Tokens)
    BY DEF AtUri, BufferInv
  <1> DEFINE e == Find(inBuffer_, "CR")
  <1>3. CASE Len(inBuffer_) = 0
    <2>1. \A m \in 1 .. Len(inBuffer_) : inBuffer_[m] # "CR"
      BY <1>3
    <2>2. e = 0
      BY <2>1, <1>2, NotAt
    <2>3. Line.text = inBuffer_
      BY <2>2, Zenon DEF Line, Find
    <2> QED
      BY <2>3, <1>3
  <1>4. CASE Len(inBuffer_) = 1 /\ inBuffer_[1] = "CR"
    <2>1. e = 1
      BY <1>2, <1>4, FirstAt
    <2>2. Line.text = SubSeq(inBuffer_, 1, 0)
      <3>1. Line.text = SubSeq(inBuffer_, 1, e - 1)
        BY <2>1 DEF Line, Find
      <3> QED
        BY <3>1, <2>1
    <2>3. Len(SubSeq(inBuffer_, 1, 0)) = 0
      BY <1>2
    <2> QED
      BY <2>2, <2>3
  <1>5. CASE Len(inBuffer_) = 1 /\ inBuffer_[1] # "CR"
    <2>1. e = 0
      BY <1>2, <1>5, NotAt
    <2>2. Line.text = inBuffer_
      BY <2>1, Zenon DEF Line, Find
    <2> QED
      BY <2>2, <1>5
  <1> QED
    BY <1>1, <1>3, <1>4, <1>5

-----------------------------------------------------------------------------
(* The steps keep the invariant.                                           *)

(* The wait for the body goes on, ends, or fails.                          *)
LEMMA BodyOutcome ==
  ASSUME RecvBody
  PROVE  /\ UNCHANGED <<textVars, inBuffer_, hState_, method_, headers_, scan, answers>>
         /\ pc = "pass" /\ state_ = "BODY"
         /\ \/ pc' = "closed" /\ error_' \in {"400", "abort"} /\ state_' = state_
            \/ pc' = "idle" /\ error_' = error_ /\ state_' = state_
            \/ pc' = "pass" /\ error_' = error_ /\ state_' = "ANALYSIS"
  BY DEF RecvBody, Await, Fail

(* Every step keeps the control state consistent.                          *)
LEMMA ControlStep ==
  ASSUME ControlInv, Next
  PROVE  ControlInv'
  <1>1. CASE Read
    BY <1>1 DEF ControlInv, Read, parseVars
  <1>2. CASE ParseURI
    <2>1. Method \in Methods
      BY DEF Method, Methods
    <2> QED
      BY <1>2, <2>1 DEF ControlInv, ParseURI, Fail, textVars
  <1>3. CASE EnterHeaders
    BY <1>3 DEF ControlInv, EnterHeaders, textVars
  <1>4. CASE HeaderStep
    <2>1. /\ pc = "scan" /\ UNCHANGED <<state_, method_>>
          /\ \/ pc' = "closed" /\ error_' = "400" /\ hState_' = hState_
             \/ pc' = pc /\ error_' = error_ /\ hState_' \in HStates
      BY <1>4 DEF HeaderStep, HStart, HKey, HColon, HSpace, HValue, HCr, HLf, HEndCr,
                  In, Go, HeaderError, Fail, HStates
    <2> QED
      BY <2>1 DEF ControlInv
  <1>5. CASE HeadersEnd
    BY <1>5 DEF ControlInv, HeadersEnd, textVars
  <1>6. CASE HeadersAgain
    BY <1>6 DEF ControlInv, HeadersAgain, textVars, parseVars
  <1>7. CASE RecvBody
    BY <1>7, BodyOutcome DEF ControlInv
  <1>8. CASE Analysis
    BY <1>8 DEF ControlInv, Analysis, Reset, Fail, textVars, HStates
  <1> QED
    BY <1>1, <1>2, <1>3, <1>4, <1>5, <1>6, <1>7, <1>8 DEF Next, HandleRead

(* Nothing is done to the locals or to the buffer.                         *)
LEMMA ScanKept ==
  ASSUME ScanInv, UNCHANGED <<stream, scan>>, pc' # "scan"
  PROVE  ScanInv'
  BY DEF ScanInv

(* The buffer and the place of it, if none of it is taken.                 *)
LEMMA BufferKept ==
  ASSUME BufferInv, UNCHANGED <<stream, delivery, pos, inBuffer_>>
  PROVE  BufferInv' /\ Base' = Base
  BY DEF BufferInv, T, Base

(* The stored headers, if the step stores none.                            *)
LEMMA KeysKept ==
  ASSUME KeysInv, UNCHANGED <<stream, answers, headers_>>
  PROVE  KeysInv'
  BY SameRequest DEF KeysInv, Foreign

(* No exception, if the step throws none.                                  *)
LEMMA AbortKept ==
  ASSUME AbortInv, UNCHANGED <<stream, answers>>, error_' \in {error_, "400", "analysis"}
  PROVE  AbortInv'
  BY SameRequest DEF AbortInv

(* The answers, if the step gives none.                                    *)
LEMMA AnswersKept ==
  ASSUME AnswersInv, UNCHANGED <<stream, answers, headers_, method_, state_>>,
         BufferInv, pos' \in Nat, pos' >= pos
  PROVE  AnswersInv'
  <1>1. /\ n' = n /\ From' = From /\ Current' = Current /\ requests' = requests
        /\ T(From)' = T(From)
    BY SameRequest, Zenon DEF T
  <1>2. From \in Nat /\ pos \in Nat
    BY Ends, Sizes DEF AnswersInv, BufferInv
  <1>3. From' <= pos'
    BY <1>1, <1>2 DEF AnswersInv
  <1> QED
    BY <1>1, <1>3, Zenon DEF AnswersInv

(* A pass of parseHeaders may begin where one may begin later.             *)
LEMMA ReadStep ==
  ASSUME IInv, Read
  PROVE  IInv'
  <1>1. ControlInv'
    BY ControlStep DEF IInv, Next
  <1>2. /\ BufferInv' /\ Base' = Base
        /\ pos' \in Nat /\ pos' >= pos /\ pos' <= Len(stream.text)
        /\ pc = "idle" => pos' > pos
    BY Grown DEF IInv
  <1>3. /\ UNCHANGED <<stream, delivery, state_, hState_, method_, headers_, scan,
                       error_, answers>>
        /\ pc \in {"idle", "again"} /\ pc' = "pass"
    BY DEF Read, parseVars
  <1>4. ScanInv'
    BY <1>3, ScanKept DEF IInv
  <1>5. KeysInv' /\ AbortInv'
    BY <1>3, KeysKept, AbortKept DEF IInv
  <1>6. AnswersInv'
    BY <1>2, <1>3, AnswersKept DEF IInv
  <1>7. /\ From' = From /\ Upto' = Upto /\ Hs' = Hs /\ HeadEnd' = HeadEnd
        /\ \A h : NameAt(h)' = NameAt(h) /\ LfAt(h)' = LfAt(h)
        /\ \A x : Dead(x)' = Dead(x)
        /\ \A h, x : AtLine(h, x)' = AtLine(h, x)
    BY <1>3, SameRequest
  <1>8. UriInv'
    BY <1>2, <1>3, <1>7 DEF IInv, UriInv
  <1>9. BodyInv'
    <2>1. CASE state_ \in {"BODY", "ANALYSIS"}
      <3>1. pc = "idle"
        BY <2>1, <1>3 DEF IInv, ControlInv
      <3>2. pos >= HeadEnd /\ Base \in HeadEnd - 1 .. HeadEnd + 1
        BY <2>1, <3>1 DEF IInv, BodyInv
      <3>3. pos \in Nat /\ HeadEnd \in Nat
        <4>1. n \in Nat /\ n < Len(requests) /\ stream \in Streams
          BY <2>1, StreamsAssumption, RequestCount
             DEF IInv, AnswersInv, BufferInv, requests
        <4> QED
          BY <4>1, Places, Sizes DEF IInv
      <3>4. pos' >= HeadEnd'
        BY <3>2, <3>3, <1>2, <1>7
      <3> QED
        BY <3>2, <3>4, <1>2, <1>7 DEF BodyInv
    <2> QED
      BY <2>1, <1>3 DEF BodyInv
  <1>10. HeaderInv'
    <2>1. CASE state_ = "HEADERS"
      <3>1. pc = "idle" /\ Placed(FirstScan)
        BY <2>1, <1>3 DEF IInv, ControlInv, HeaderInv
      <3>2. AtStart(FirstScan) => AtStart(FirstScan)'
        BY <1>2, <1>7, Zenon DEF AtStart
      <3>3. AtKey(FirstScan) => AtKey(FirstScan)'
        BY <1>2, <1>7, Zenon DEF AtKey
      <3>4. \A d : AtColon(FirstScan, d) => AtColon(FirstScan, d)'
        BY <1>2, <1>7, Zenon DEF AtColon, Reached, KeyOf
      <3>5. AtValue(FirstScan) => AtValue(FirstScan)'
        BY <1>2, <1>7, Zenon DEF AtValue, KeyOf
      <3>6. AtCr(FirstScan) => AtCr(FirstScan)'
        BY <1>2, <1>7, Zenon DEF AtCr, KeyOf
      <3>7. AtLf(FirstScan) => AtLf(FirstScan)'
        BY <1>2, <1>7, Zenon DEF AtLf
      <3>8. AtEndCr(FirstScan) => AtEndCr(FirstScan)'
        <4> HAVE AtEndCr(FirstScan)
        <4>1. n \in Nat /\ n < Len(requests) /\ stream \in Streams
          BY <2>1, StreamsAssumption, RequestCount
             DEF IInv, AnswersInv, BufferInv, requests
        <4>2. HeadEnd \in Nat /\ LfAt(Hs) = HeadEnd - 2 /\ pos \in Nat
          BY <4>1, Places, Sizes DEF IInv
        <4>3. pos > LfAt(Hs) /\ pos' > pos
          BY <3>1, <1>2 DEF AtEndCr
        <4>4. pos' >= HeadEnd' /\ pos' > LfAt(Hs)'
          BY <4>2, <4>3, <1>2, <1>7
        <4> QED
          BY <4>4, <1>2, <1>7 DEF AtEndCr
      <3>9. ~AtEndLf(FirstScan)
        BY <3>1 DEF AtEndLf
      <3>10. Placed(FirstScan)'
        BY <3>1, <3>2, <3>3, <3>4, <3>5, <3>6, <3>7, <3>8, <3>9, <1>3 DEF Placed
      <3> QED
        BY <3>10, <1>3 DEF HeaderInv
    <2> QED
      BY <2>1, <1>3 DEF HeaderInv
  <1> QED
    BY <1>1, <1>2, <1>4, <1>5, <1>6, <1>8, <1>9, <1>10 DEF IInv

(* parseURI takes the method of the current request, or fails.             *)
LEMMA UriTaken ==
  ASSUME AtUri, ParseURI, pc' = "pass"
  PROVE  /\ n < Len(requests) /\ method_' = Current.method /\ state_' = "HEADERS"
         /\ BufferInv' /\ Base' = LineRest
  <1>1. /\ At(Method) \in 1 .. Len(Line.text) - 1
        /\ inBuffer_' = Line.rest /\ method_' = Method /\ state_' = "HEADERS"
        /\ UNCHANGED <<stream, delivery, pos>>
    BY DEF ParseURI, Fail, textVars, AtUri
  <1>2. n < Len(requests)
    <2>1. n # Len(requests)
      <3> SUFFICES ASSUME n = Len(requests)
                   PROVE  FALSE
        OBVIOUS
      <3>1. Len(Line.text) \in Nat /\ Len(Line.text) <= 1
        BY LineEmpty
      <3>2. 1 .. Len(Line.text) - 1 = {}
        BY <3>1
      <3> QED
        BY <3>2, <1>1
    <2>2. n \in Nat /\ n <= Len(requests) /\ Len(requests) \in Nat
      BY UriPlace, StreamsAssumption, RequestCount DEF requests
    <2> QED
      BY <2>1, <2>2
  <1>3. /\ From \in Nat /\ Base \in Nat /\ pos \in Nat
        /\ Len(inBuffer_) \in Nat /\ Base + Len(inBuffer_) = pos
        /\ Base = From - 1 \/ Base = From \/ Base = From + 1
        /\ LineSize \in Nat /\ LineSize <= Len(inBuffer_)
    BY UriPlace
  <1>4. Find(inBuffer_, "CR") = IF pos >= From + 3 THEN From + 3 - Base ELSE 0
    BY <1>2, LineEnds
  <1>5. At(Method) \in Nat /\ At(Method) > 0
    <2>1. Len(Line.text) \in Nat
      BY <1>2, <1>3, LineEnds
    <2> QED
      BY <2>1, <1>1
  <1>6. method_' = Current.method
    BY <1>1, <1>2, <1>5, LineMethod
  <1>7. BufferInv' /\ Base' = LineRest
    <2>1. CASE pos >= From + 3
      <3> DEFINE e == From + 3 - Base
      <3>1. e \in 1 .. Len(inBuffer_) /\ e # 0
        BY <2>1, <1>3
      <3>2. e + 1 \in 1 .. Len(inBuffer_) + 2
        BY <3>1, <1>3
      <3>3. Find(inBuffer_, "CR") = e
        BY <2>1, <1>4
      <3> HIDE DEF e
      <3>4. inBuffer_' = SubSeq(inBuffer_, e + 1, Len(inBuffer_))
        BY <3>1, <3>3, <1>1, Zenon DEF Line, Find
      <3>5. /\ BufferInv'
            /\ Base' = IF e + 1 <= Len(inBuffer_) THEN Base + (e + 1) - 1 ELSE pos
        BY <3>2, <3>4, <1>1, Dropped DEF AtUri
      <3>6. (IF e + 1 <= Len(inBuffer_) THEN Base + (e + 1) - 1 ELSE pos) = From + 3
        BY <3>1, <1>3 DEF e
      <3> QED
        BY <3>5, <3>6, <2>1 DEF LineRest
    <2>2. CASE ~(pos >= From + 3)
      <3>1. Find(inBuffer_, "CR") = 0
        BY <2>2, <1>4
      <3>2. inBuffer_' = inBuffer_
        BY <3>1, <1>1, Zenon DEF Line, Find
      <3> QED
        BY <3>2, <2>2, <1>1, BufferKept DEF AtUri, LineRest
    <2> QED
      BY <2>1, <2>2
  <1> QED
    BY <1>1, <1>2, <1>6, <1>7

(* parseURI fails, or leaves the buffer where parseHeaders may begin.      *)
LEMMA UriStep ==
  ASSUME IInv, ParseURI
  PROVE  IInv'
  <1>1. ControlInv'
    BY ControlStep DEF IInv, Next, HandleRead
  <1>2. AtUri
    BY DEF IInv, ParseURI, AtUri
  <1>3. /\ UNCHANGED <<stream, delivery, pos, hState_, headers_, scan, answers>>
        /\ pc = "pass" /\ state_ = "URI" /\ pc' \in {"pass", "closed"}
        /\ error_' \in {error_, "400"}
    BY DEF ParseURI, textVars, Fail
  <1>4. ScanInv' /\ KeysInv' /\ AbortInv'
    BY <1>3, ScanKept, KeysKept, AbortKept DEF IInv
  <1>5. /\ n' = n /\ From' = From /\ Hs' = Hs /\ Current' = Current
        /\ requests' = requests /\ \A x : T(x)' = T(x)
    BY <1>3, SameRequest
  <1>6. hState_ = "START" /\ headers_ = NoHeaders
    BY <1>3 DEF IInv, ControlInv, AnswersInv
  <1>7. CASE pc' = "pass"
    <2>1. /\ n < Len(requests) /\ method_' = Current.method /\ state_' = "HEADERS"
          /\ BufferInv' /\ Base' = LineRest
      BY <1>2, <1>7, UriTaken
    <2>2. AnswersInv'
      <3>1. From > 0 => T(From)' = "LF"
        BY <1>5 DEF IInv, AnswersInv
      <3> QED
        BY <3>1, <2>1, <1>3, <1>5 DEF IInv, AnswersInv, T
    <2>3. LineRest \in From - 1 .. From + 3 /\ From \in Nat /\ LineRest \in Nat
      <3>1. /\ From \in Nat /\ Base \in Nat
            /\ Base = From - 1 \/ Base = From \/ Base = From + 1
        BY <1>2, UriPlace
      <3> QED
        BY <3>1 DEF LineRest
    <2>4. AtStart(FirstScan)'
      <3>1. FirstScan.begin = 1 /\ FirstScan.i = 1
        BY DEF FirstScan
      <3>2. LineRest + 1 \in From .. From + 5
        BY <2>3
      <3>3. /\ Base' \in From' - 1 .. From' + 3
            /\ Base' + FirstScan.i \in From' .. From' + 5
        BY <2>1, <2>3, <3>1, <3>2, <1>5
      <3> QED
        BY <3>1, <3>3 DEF AtStart
    <2>5. HeaderInv'
      BY <2>4, <1>3, <1>6, <1>7 DEF HeaderInv, Placed
    <2>6. UriInv' /\ BodyInv'
      BY <2>1 DEF UriInv, BodyInv
    <2> QED
      BY <2>1, <2>2, <2>5, <2>6, <1>1, <1>4 DEF IInv
  <1>8. CASE pc' = "closed"
    <2>1. inBuffer_' = <<>> /\ method_' = method_ /\ state_' = state_
      BY <1>3, <1>8 DEF ParseURI
    <2>2. BufferInv'
      <3>1. Len(inBuffer_) + 1 \in 1 .. Len(inBuffer_) + 2 /\ inBuffer_ \in Seq(Tokens)
              /\ pos \in 0 .. Len(stream.text)
        BY Sizes DEF IInv, BufferInv
      <3>2. Len(<<>>) = 0 /\ <<>> \in Seq(Tokens)
        OBVIOUS
      <3>3. Len(inBuffer_') = 0 /\ inBuffer_' \in Seq(Tokens)
        BY <2>1, <3>2, Zenon
      <3>4. Len(inBuffer_') <= pos' /\ 1 .. Len(inBuffer_') = {}
        BY <3>3, <1>3, Sizes DEF IInv
      <3> QED
        BY <3>3, <3>4, <1>3 DEF IInv, BufferInv
    <2>3. AnswersInv'
      BY <2>1, <1>3, Sizes, AnswersKept DEF IInv
    <2>4. UriInv' /\ BodyInv' /\ HeaderInv'
      BY <1>8 DEF UriInv, BodyInv, HeaderInv
    <2> QED
      BY <2>2, <2>3, <2>4, <1>1, <1>4 DEF IInv
  <1> QED
    BY <1>3, <1>7, <1>8

(* A new pass of parseHeaders begins where the buffer does.                *)
LEMMA EnterStep ==
  ASSUME IInv, EnterHeaders
  PROVE  IInv'
  <1>1. ControlInv'
    BY ControlStep DEF IInv, Next, HandleRead
  <1>2. /\ UNCHANGED <<stream, delivery, pos, inBuffer_, state_, hState_, method_,
                       headers_, error_, answers>>
        /\ pc = "pass" /\ state_ = "HEADERS" /\ pc' = "scan" /\ scan' = FirstScan
    BY DEF EnterHeaders, textVars
  <1>3. BufferInv' /\ Base' = Base
    BY <1>2, BufferKept DEF IInv
  <1>4. KeysInv' /\ AbortInv'
    BY <1>2, KeysKept, AbortKept DEF IInv
  <1>5. AnswersInv'
    BY <1>2, Sizes, AnswersKept DEF IInv
  <1>6. UriInv' /\ BodyInv'
    BY <1>2 DEF UriInv, BodyInv
  <1>7. ScanInv'
    <2>1. Len(stream.text) \in Nat /\ Len(inBuffer_) \in Nat
      BY Sizes DEF IInv
    <2>2. /\ FirstScan \in [i : Nat, key_start : Nat, key_end : Nat, value_start : Nat,
                            value_end : Nat, begin : Nat]
          /\ FirstScan.i = 1 /\ FirstScan.begin = 1
      BY DEF FirstScan
    <2>3. 1 \in 1 .. Len(stream.text) + 1 /\ 1 <= Len(inBuffer_) + 1 /\ 1 \in 1 .. 1
      BY <2>1
    <2> QED
      BY <2>2, <2>3, <1>2 DEF ScanInv
  <1>8. HeaderInv'
    <2>1. Placed(FirstScan)
      BY <1>2 DEF IInv, HeaderInv
    <2>2. /\ From' = From /\ Upto' = Upto /\ Hs' = Hs /\ HeadEnd' = HeadEnd
          /\ \A h : NameAt(h)' = NameAt(h) /\ LfAt(h)' = LfAt(h)
          /\ \A x : Dead(x)' = Dead(x)
          /\ \A h, x : AtLine(h, x)' = AtLine(h, x)
      BY <1>2, SameRequest
    <2>3. AtStart(FirstScan) => AtStart(scan)'
      BY <2>2, <1>2, <1>3, Zenon DEF AtStart
    <2>4. AtKey(FirstScan) => AtKey(scan)'
      BY <2>2, <1>2, <1>3, Zenon DEF AtKey
    <2>5. \A d : AtColon(FirstScan, d) => AtColon(scan, d)'
      BY <2>2, <1>2, <1>3, Zenon DEF AtColon, Reached, KeyOf
    <2>6. AtValue(FirstScan) => AtValue(scan)'
      BY <2>2, <1>2, <1>3, Zenon DEF AtValue, KeyOf
    <2>7. AtCr(FirstScan) => AtCr(scan)'
      BY <2>2, <1>2, <1>3, Zenon DEF AtCr, KeyOf
    <2>8. AtLf(FirstScan) => AtLf(scan)'
      BY <2>2, <1>2, <1>3, Zenon DEF AtLf
    <2>9. AtEndCr(FirstScan) => AtEndCr(scan)'
      BY <2>2, <1>2, <1>3 DEF AtEndCr
    <2>10. ~AtEndLf(FirstScan)
      BY <1>2 DEF AtEndLf
    <2>11. Placed(scan)'
      BY <2>1, <2>3, <2>4, <2>5, <2>6, <2>7, <2>8, <2>9, <2>10, <1>2 DEF Placed
    <2> QED
      BY <2>11, <1>2 DEF HeaderInv
  <1> QED
    BY <1>1, <1>3, <1>4, <1>5, <1>6, <1>7, <1>8 DEF IInv

(* A step of parseHeaders.                                                 *)
LEMMA HeaderStepInv ==
  ASSUME IInv, HeaderStep
  PROVE  IInv'
  <1>1. ControlInv'
    BY ControlStep DEF IInv, Next, HandleRead
  <1>2. /\ Context /\ HeaderInv /\ KeysInv
    BY DEF IInv, Context
  <1>3. /\ UNCHANGED <<stream, delivery, pos, inBuffer_, state_, method_, answers>>
        /\ pc = "scan" /\ pc' \in {"scan", "closed"} /\ error_' \in {error_, "400"}
    BY DEF HeaderStep, HStart, HKey, HColon, HSpace, HValue, HCr, HLf, HEndCr,
           In, Go, HeaderError, Fail, textVars
  <1>4. state_ = "HEADERS"
    BY <1>3 DEF IInv, ControlInv
  <1>5. BufferInv'
    BY <1>3, BufferKept DEF IInv
  <1>6. ScanInv' /\ KeysInv'
    BY <1>2, HeldBuffer, HeaderStepScan, HeaderStepKeys DEF Context
  <1>7. AbortInv'
    BY <1>3, AbortKept DEF IInv
  <1>8. AnswersInv'
    <2>1. /\ n' = n /\ From' = From /\ Current' = Current /\ requests' = requests
          /\ \A x : T(x)' = T(x)
      BY <1>3, SameRequest
    <2> QED
      BY <2>1, <1>3, <1>4 DEF IInv, AnswersInv, T
  <1>9. HeaderInv'
    BY <1>2, <1>3, HeaderStepPlaced DEF HeaderInv
  <1>10. UriInv' /\ BodyInv'
    BY <1>3, <1>4 DEF UriInv, BodyInv
  <1> QED
    BY <1>1, <1>5, <1>6, <1>7, <1>8, <1>9, <1>10 DEF IInv

(* When the buffer is at its end, the next pass begins where this one had  *)
(* a line begin.                                                           *)
LEMMA AgainStep ==
  ASSUME IInv, HeadersAgain
  PROVE  IInv'
  <1>1. ControlInv'
    BY ControlStep DEF IInv, Next, HandleRead
  <1>2. /\ UNCHANGED <<stream, delivery, pos, state_, hState_, method_, headers_, scan,
                       error_, answers>>
        /\ pc = "scan" /\ hState_ # "END_LF" /\ scan.i > Len(inBuffer_)
        /\ inBuffer_' = SubSeq(inBuffer_, scan.begin, Len(inBuffer_))
        /\ pc' = "idle"
    BY DEF HeadersAgain, textVars, parseVars
  <1>3. /\ Len(inBuffer_) \in Nat /\ Base \in Nat /\ Base + Len(inBuffer_) = pos
        /\ pos \in Nat
    BY Sizes DEF IInv
  <1>4. /\ n \in Nat /\ n < Len(requests) /\ stream \in Streams
        /\ scan.i \in Nat \ {0} /\ scan.begin \in Nat \ {0} /\ scan.begin <= scan.i
        /\ scan.i <= Len(inBuffer_) + 1
    BY <1>2, Looking DEF IInv, Context, ScanInv
  <1>5. scan.begin \in 1 .. Len(inBuffer_) + 2
    BY <1>3, <1>4
  <1>6. /\ BufferInv'
        /\ Base' = IF scan.begin <= Len(inBuffer_) THEN Base + scan.begin - 1 ELSE pos
    BY <1>2, <1>5, Dropped DEF IInv
  <1>7. Base' + 1 = Base + scan.begin /\ Base' \in Nat
    <2> DEFINE b == scan.begin
    <2>1. b \in Nat \ {0} /\ b <= Len(inBuffer_) + 1
      BY <1>3, <1>4
    <2>2. Base' = IF b <= Len(inBuffer_) THEN Base + b - 1 ELSE pos
      BY <1>6
    <2> HIDE DEF b
    <2>3. Base' + 1 = Base + b /\ Base' \in Nat
      BY <2>1, <2>2, <1>3
    <2> QED
      BY <2>3 DEF b
  <1>8. ScanInv' /\ KeysInv' /\ AbortInv'
    BY <1>2, ScanKept, KeysKept, AbortKept DEF IInv
  <1>9. AnswersInv'
    BY <1>2, <1>3, AnswersKept DEF IInv
  <1>10. state_ = "HEADERS"
    BY <1>2 DEF IInv, ControlInv
  <1>11. UriInv' /\ BodyInv'
    BY <1>2, <1>10 DEF UriInv, BodyInv
  <1>12. /\ From' = From /\ Upto' = Upto /\ Hs' = Hs /\ HeadEnd' = HeadEnd
         /\ \A h : NameAt(h)' = NameAt(h) /\ LfAt(h)' = LfAt(h)
         /\ \A x : Dead(x)' = Dead(x)
         /\ \A h, x : AtLine(h, x)' = AtLine(h, x)
    BY <1>2, SameRequest
  <1>13. FirstScan.i = 1 /\ FirstScan.begin = 1 /\ FirstScan.key_start = 0
    BY DEF FirstScan
  <1>14. /\ Base' + FirstScan.i = Base + scan.begin
         /\ Base' + FirstScan.begin = Base + scan.begin
    BY <1>7, <1>13
  <1>15. \A h \in 1 .. Hs : NameAt(h) \in Nat
    BY <1>4, HeaderLine
  <1>16. AtStart(scan) => AtStart(FirstScan)'
    <2> HAVE AtStart(scan)
    <2>1. From \in Nat /\ scan.begin = 1
      BY <1>4, Places DEF AtStart
    <2>2. Base' = Base /\ From \in Nat
      <3>1. Base' + 1 = Base + 1 /\ Base' \in Nat /\ Base \in Nat
        BY <2>1, <1>3, <1>7, Zenon
      <3>2. \A a, b \in Nat : a + 1 = b + 1 => a = b
        OBVIOUS
      <3> QED
        BY <3>1, <3>2, <2>1, Zenon
    <2>3. Base' \in From' - 1 .. From' + 3
      BY <2>2, <1>12 DEF AtStart
    <2>4. Base' + FirstScan.i \in From' .. From' + 5
      BY <2>2, <2>3, <1>12, <1>13
    <2> QED
      BY <2>3, <2>4, <1>13 DEF AtStart
  <1>17. AtKey(scan) => AtKey(FirstScan)'
    <2>1. CASE Dead(Base + scan.begin)
      BY <2>1, <1>12, <1>14, Zenon DEF AtKey
    <2>2. ASSUME NEW h \in 1 .. Hs, AtLine(h, Base + scan.begin)
          PROVE  AtKey(FirstScan)'
      <3>1. Base + scan.begin \in NameAt(h) - 1 .. NameAt(h) + 1
        BY <2>2, <1>15 DEF AtLine
      <3> QED
        BY <3>1, <2>2, <1>12, <1>13, <1>14, Zenon DEF AtKey
    <2> QED
      BY <2>1, <2>2 DEF AtKey
  <1>18. \A d : AtColon(scan, d) => AtColon(FirstScan, d)'
    BY <1>12, <1>13, <1>14, Zenon DEF AtColon, Reached
  <1>19. AtValue(scan) => AtValue(FirstScan)'
    <2>1. ASSUME NEW h \in 1 .. Hs, AtLine(h, Base + scan.begin)
          PROVE  AtValue(FirstScan)'
      <3>1. Base + scan.begin \in NameAt(h) - 1 .. NameAt(h) + 4
        BY <2>1, <1>15 DEF AtLine
      <3> QED
        BY <3>1, <2>1, <1>12, <1>13, <1>14, Zenon DEF AtValue
    <2> QED
      BY <2>1, Zenon DEF AtValue
  <1>20. AtCr(scan) => AtCr(FirstScan)'
    BY <1>12, <1>13, <1>14, Zenon DEF AtCr
  <1>21. AtLf(scan) => AtLf(FirstScan)'
    <2>1. ASSUME NEW h \in 0 .. Hs, Base + scan.begin = LfAt(h)
          PROVE  AtLf(FirstScan)'
      <3>1. LfAt(h) \in LfAt(h) .. LfAt(h) + 1
        BY <2>1, <1>3, <1>4
      <3> QED
        BY <3>1, <2>1, <1>12, <1>14, Zenon DEF AtLf
    <2> QED
      BY <2>1, Zenon DEF AtLf
  <1>22. AtEndCr(scan) => AtEndCr(FirstScan)'
    BY <1>2, <1>12, <1>14 DEF AtEndCr
  <1>23. HeaderInv'
    <2>1. Placed(scan)
      BY <1>2 DEF IInv, HeaderInv
    <2>2. Placed(FirstScan)'
      BY <2>1, <1>2, <1>16, <1>17, <1>18, <1>19, <1>20, <1>21, <1>22 DEF Placed
    <2> QED
      BY <2>2, <1>2 DEF HeaderInv
  <1> QED
    BY <1>1, <1>6, <1>8, <1>9, <1>11, <1>23 DEF IInv

(* Behind the headers.                                                     *)
LEMMA EndStep ==
  ASSUME IInv, HeadersEnd
  PROVE  IInv'
  <1>1. ControlInv'
    BY ControlStep DEF IInv, Next, HandleRead
  <1>2. /\ UNCHANGED <<stream, delivery, pos, hState_, method_, headers_, scan,
                       error_, answers>>
        /\ pc = "scan" /\ hState_ = "END_LF" /\ pc' = "pass"
        /\ inBuffer_' = SubSeq(inBuffer_, scan.i + 1, Len(inBuffer_))
        /\ state_' \in {"BODY", "ANALYSIS"}
    BY DEF HeadersEnd, textVars
  <1>3. /\ Len(inBuffer_) \in Nat /\ Base \in Nat /\ Base + Len(inBuffer_) = pos
        /\ pos \in Nat
    BY Sizes DEF IInv
  <1>4. /\ n \in Nat /\ n < Len(requests) /\ stream \in Streams
        /\ scan.i \in Nat \ {0} /\ scan.i <= Len(inBuffer_) + 1
    BY <1>2, Looking DEF IInv, Context, ScanInv
  <1>5. scan.i + 1 \in 1 .. Len(inBuffer_) + 2
    BY <1>3, <1>4
  <1>6. /\ BufferInv'
        /\ Base' = IF scan.i + 1 <= Len(inBuffer_) THEN Base + (scan.i + 1) - 1 ELSE pos
    BY <1>2, <1>5, Dropped DEF IInv
  <1>7. ScanInv' /\ KeysInv' /\ AbortInv'
    BY <1>2, ScanKept, KeysKept, AbortKept DEF IInv
  <1>8. /\ n' = n /\ From' = From /\ HeadEnd' = HeadEnd /\ Current' = Current
        /\ requests' = requests /\ \A x : T(x)' = T(x)
    BY <1>2, SameRequest
  <1>9. AnswersInv'
    <2>1. state_ = "HEADERS"
      BY <1>2 DEF IInv, ControlInv
    <2> QED
      BY <2>1, <1>2, <1>8 DEF IInv, AnswersInv, T
  <1>10. pos >= HeadEnd /\ Base + scan.i \in {HeadEnd - 1, HeadEnd + 1}
    BY <1>2 DEF IInv, HeaderInv, Placed, AtEndLf
  <1>11. HeadEnd \in Nat
    BY <1>4, Places
  <1>12. Base' \in HeadEnd - 1 .. HeadEnd + 1
    <2> DEFINE i == scan.i
    <2>1. /\ i \in Nat /\ i <= Len(inBuffer_) + 1
          /\ Base + i = HeadEnd - 1 \/ Base + i = HeadEnd + 1
      BY <1>4, <1>10
    <2>2. Base' = IF i + 1 <= Len(inBuffer_) THEN Base + (i + 1) - 1 ELSE pos
      BY <1>6
    <2>3. pos >= HeadEnd
      BY <1>10
    <2> HIDE DEF i
    <2>4. CASE i + 1 <= Len(inBuffer_)
      BY <2>1, <2>2, <2>4, <1>3, <1>11
    <2>5. CASE ~(i + 1 <= Len(inBuffer_))
      <3>1. Base' = pos /\ pos <= Base + i
        BY <2>1, <2>2, <2>5, <1>3
      <3> QED
        BY <3>1, <2>1, <2>3, <1>3, <1>11
    <2> QED
      BY <2>4, <2>5
  <1>13. UriInv' /\ BodyInv' /\ HeaderInv'
    BY <1>2, <1>8, <1>10, <1>12 DEF UriInv, BodyInv, HeaderInv
  <1> QED
    BY <1>1, <1>6, <1>7, <1>9, <1>13 DEF IInv

(* The wait for the body; stoi throws only if the client sent no number.   *)
LEMMA BodyStep ==
  ASSUME IInv, RecvBody
  PROVE  IInv'
  <1>1. ControlInv'
    BY ControlStep DEF IInv, Next, HandleRead
  <1>2. /\ UNCHANGED <<stream, delivery, pos, inBuffer_, hState_, method_, headers_, scan,
                       answers>>
        /\ pc = "pass" /\ state_ = "BODY" /\ state_' \in {"BODY", "ANALYSIS"}
        /\ pc' \in {"pass", "idle", "closed"} /\ error_' \in {error_, "400", "abort"}
    BY BodyOutcome DEF textVars
  <1>3. BufferInv' /\ Base' = Base
    BY <1>2, BufferKept DEF IInv
  <1>4. ScanInv' /\ KeysInv'
    BY <1>2, ScanKept, KeysKept DEF IInv
  <1>5. /\ n' = n /\ From' = From /\ HeadEnd' = HeadEnd /\ Current' = Current
        /\ Hs' = Hs /\ requests' = requests /\ \A x : T(x)' = T(x)
    BY <1>2, SameRequest
  <1>6. AnswersInv'
    BY <1>2, <1>5 DEF IInv, AnswersInv, T
  <1>7. UriInv' /\ BodyInv' /\ HeaderInv'
    BY <1>2, <1>3, <1>5 DEF IInv, UriInv, BodyInv, HeaderInv
  <1>8. AbortInv'
    <2>1. CASE error_' = "abort" /\ error_ # "abort"
      <3>1. CL \in DOMAIN headers_ /\ NoNumber \in Stoi(headers_[CL])
        BY <2>1, <1>2 DEF RecvBody, Await, Fail
      <3>2. ~Foreign(CL)
        <4>1. DOMAIN CL = {1} /\ CL[1] = "Content-length"
          BY DEF CL
        <4> QED
          BY <4>1 DEF Foreign
      <3>3. /\ n < Len(requests)
            /\ \E h \in 1 .. Hs : /\ CL = <<Current.headers[h].name>>
                                  /\ headers_[CL] = <<Current.headers[h].value>>
        BY <3>1, <3>2 DEF IInv, KeysInv
      <3>4. PICK h \in 1 .. Hs : /\ CL = <<Current.headers[h].name>>
                                 /\ headers_[CL] = <<Current.headers[h].value>>
        BY <3>3
      <3>5. /\ headers_[CL][1] = Current.headers[h].value
            /\ Len(headers_[CL]) = 1
        BY <3>4
      <3>6. Current.headers[h].value \notin DOMAIN Numbers
        <4>1. \A w \in DOMAIN Numbers : Numbers[w] \in {0, 1, 2}
          BY DEF Numbers
        <4>2. NoNumber \notin {0, 1, 2}
          BY DEF NoNumber
        <4> QED
          BY <3>1, <3>5, <4>1, <4>2, Zenon DEF Stoi
      <3> QED
        BY <3>3, <3>4, <3>6, <1>5, Zenon DEF AbortInv
    <2>2. CASE ~(error_' = "abort" /\ error_ # "abort")
      BY <2>2, <1>5 DEF IInv, AbortInv
    <2> QED
      BY <2>1, <2>2
  <1> QED
    BY <1>1, <1>3, <1>4, <1>6, <1>7, <1>8 DEF IInv

(* The request is answered, and the parser is at the next one.             *)
LEMMA AnalysisStep ==
  ASSUME IInv, Analysis
  PROVE  IInv'
  <1>1. ControlInv'
    BY ControlStep DEF IInv, Next, HandleRead
  <1>2. /\ UNCHANGED <<stream, delivery, pos, inBuffer_, method_, scan>>
        /\ pc = "pass" /\ state_ = "ANALYSIS"
    BY DEF Analysis, textVars
  <1>3. BufferInv' /\ Base' = Base
    BY <1>2, BufferKept DEF IInv
  <1>4. /\ pc' # "scan" /\ pc' # "pass"
    BY DEF Analysis, Fail
  <1>5. ScanInv'
    BY <1>2, <1>4, ScanKept DEF IInv
  <1>6. CASE method_ = "POST"
    <2>1. /\ UNCHANGED <<state_, hState_, headers_, answers>>
          /\ pc' = "closed" /\ error_' = "analysis"
      BY <1>6 DEF Analysis, Fail
    <2>2. KeysInv' /\ AbortInv'
      BY <2>1, <1>2, KeysKept, AbortKept DEF IInv
    <2>3. AnswersInv'
      BY <2>1, <1>2, Sizes, AnswersKept DEF IInv
    <2>4. UriInv' /\ BodyInv' /\ HeaderInv'
      BY <2>1 DEF UriInv, BodyInv, HeaderInv
    <2> QED
      BY <2>2, <2>3, <2>4, <1>1, <1>3, <1>5 DEF IInv
  <1>7. CASE method_ # "POST"
    <2>1. /\ answers' = Append(answers, [method |-> method_, headers |-> headers_])
          /\ state_' = "URI" /\ headers_' = NoHeaders /\ error_' = error_
          /\ pc' \in {"idle", "again"}
      BY <1>7 DEF Analysis, Reset
    <2>2. /\ n \in Nat /\ n < Len(requests) /\ stream \in Streams
          /\ method_ = Current.method /\ Len(requests) \in Nat
      BY <1>2, StreamsAssumption, RequestCount DEF IInv, AnswersInv, BufferInv, requests
    <2>3. n' = n + 1 /\ IsSequence(answers')
      BY <2>1, Growth DEF n, IInv, AnswersInv
    <2>4. requests' = requests /\ From' = Upto /\ \A x : T(x)' = T(x)
      BY <2>3, <1>2 DEF requests, From, Upto, End, T
    <2>5. /\ Upto = HeadEnd /\ HeadEnd \in Nat /\ Upto \in Nat
      BY <2>2, <1>7, Places
    <2>6. T(Upto) = "LF"
      BY <2>2, <2>5, LastLine
    <2>7. pos >= HeadEnd /\ Base \in HeadEnd - 1 .. HeadEnd + 1
      BY <1>2 DEF IInv, BodyInv
    <2>8. AnswersInv'
      <3>1. n' \in 0 .. Len(requests')
        BY <2>2, <2>3, <2>4
      <3>2. From' <= pos' /\ T(From') = "LF"
        BY <2>4, <2>5, <2>6, <2>7, <1>2
      <3> QED
        BY <3>1, <3>2, <2>1, <2>3, <1>2 DEF AnswersInv, T
    <2>9. KeysInv'
      BY <2>1 DEF KeysInv, NoHeaders
    <2>10. AbortInv'
      <3>1. error_ = "no"
        BY <1>2 DEF IInv, ControlInv
      <3> QED
        BY <3>1, <2>1 DEF AbortInv
    <2>11. UriInv' /\ BodyInv' /\ HeaderInv'
      BY <2>1, <2>4, <2>5, <2>7, <1>3 DEF UriInv, BodyInv, HeaderInv
    <2> QED
      BY <2>8, <2>9, <2>10, <2>11, <1>1, <1>3, <1>5 DEF IInv
  <1> QED
    BY <1>6, <1>7

(* The parser begins in front of the first request.                        *)
LEMMA InitInv ==
  ASSUME Init, WellFormed
  PROVE  IInv
  <1>1. /\ stream \in Streams /\ delivery \in Deliveries /\ pos = 0
        /\ inBuffer_ = <<>> /\ state_ = "URI" /\ hState_ = "START"
        /\ method_ = "GET" /\ headers_ = NoHeaders /\ scan = FirstScan
        /\ pc = "idle" /\ error_ = "no" /\ answers = <<>>
    BY DEF Init, WellFormed
  <1>2. Len(<<>>) = 0 /\ <<>> \in Seq(Tokens) /\ IsSequence(<<>>)
    BY DEF IsSequence
  <1>3. /\ Len(inBuffer_) = 0 /\ inBuffer_ \in Seq(Tokens)
        /\ Len(answers) = 0 /\ IsSequence(answers)
    BY <1>1, <1>2, Zenon
  <1>4. Len(requests) \in Nat
    BY <1>1, StreamsAssumption, RequestCount DEF requests
  <1>5. n = 0 /\ n \in 0 .. Len(requests)
    BY <1>3, <1>4 DEF n
  <1>6. From = 0 /\ Len(stream.text) \in Nat
    BY <1>1, <1>5, Ends
  <1>7. BufferInv
    BY <1>1, <1>3, <1>6 DEF BufferInv
  <1>8. ControlInv
    BY <1>1 DEF ControlInv, HStates, Methods
  <1>9. ScanInv
    <2>1. /\ FirstScan \in [i : Nat, key_start : Nat, key_end : Nat, value_start : Nat,
                            value_end : Nat, begin : Nat]
          /\ FirstScan.i = 1 /\ FirstScan.begin = 1
      BY DEF FirstScan
    <2> QED
      BY <2>1, <1>1, <1>6 DEF ScanInv
  <1>10. AnswersInv
    BY <1>1, <1>3, <1>5, <1>6 DEF AnswersInv
  <1>11. KeysInv
    BY <1>1 DEF KeysInv, NoHeaders
  <1>12. UriInv
    <2>1. Base = 0
      <3>1. pos = 0 /\ Len(inBuffer_) = 0
        BY <1>1, <1>3
      <3> QED
        BY <3>1 DEF Base
    <2>2. 0 \in 0 - 1 .. 0 + 1
      OBVIOUS
    <2> QED
      BY <2>1, <2>2, <1>6 DEF UriInv
  <1>13. HeaderInv /\ BodyInv /\ AbortInv
    BY <1>1 DEF HeaderInv, BodyInv, AbortInv
  <1> QED
    BY <1>7, <1>8, <1>9, <1>10, <1>11, <1>12, <1>13 DEF IInv

(* Every step keeps the parser where the invariant says.                   *)
LEMMA NextInv ==
  ASSUME IInv, [Next]_vars
  PROVE  IInv'
  <1>1. CASE Read
    BY <1>1, ReadStep
  <1>2. CASE ParseURI
    BY <1>2, UriStep
  <1>3. CASE EnterHeaders
    BY <1>3, EnterStep
  <1>4. CASE HeaderStep
    BY <1>4, HeaderStepInv
  <1>5. CASE HeadersEnd
    BY <1>5, EndStep
  <1>6. CASE HeadersAgain
    BY <1>6, AgainStep
  <1>7. CASE RecvBody
    BY <1>7, BodyStep
  <1>8. CASE Analysis
    BY <1>8, AnalysisStep
  <1>9. CASE UNCHANGED vars
    <2>1. /\ UNCHANGED <<stream, delivery, pos, inBuffer_, state_, hState_, method_,
                         headers_, scan, pc, error_, answers>>
      BY <1>9 DEF vars, textVars, parseVars
    <2>2. BufferInv' /\ Base' = Base
      BY <2>1, BufferKept DEF IInv
    <2>3. /\ From' = From /\ Upto' = Upto /\ Hs' = Hs /\ HeadEnd' = HeadEnd
          /\ \A h : NameAt(h)' = NameAt(h) /\ LfAt(h)' = LfAt(h)
          /\ \A x : Dead(x)' = Dead(x)
          /\ \A h, x : AtLine(h, x)' = AtLine(h, x)
      BY <2>1, SameRequest
    <2>4. ControlInv' /\ ScanInv'
      BY <2>1 DEF IInv, ControlInv, ScanInv
    <2>5. KeysInv' /\ AbortInv' /\ AnswersInv'
      BY <2>1, Sizes, KeysKept, AbortKept, AnswersKept DEF IInv
    <2>6. UriInv' /\ BodyInv'
      BY <2>1, <2>2, <2>3 DEF IInv, UriInv, BodyInv
    <2>7. AtStart(scan)' = AtStart(scan) /\ AtStart(FirstScan)' = AtStart(FirstScan)
      BY <2>1, <2>2, <2>3, Zenon DEF AtStart
    <2>8. AtKey(scan)' = AtKey(scan) /\ AtKey(FirstScan)' = AtKey(FirstScan)
      BY <2>1, <2>2, <2>3, Zenon DEF AtKey
    <2>9. \A d : AtColon(scan, d)' = AtColon(scan, d)
                   /\ AtColon(FirstScan, d)' = AtColon(FirstScan, d)
      BY <2>1, <2>2, <2>3, Zenon DEF AtColon, Reached, KeyOf
    <2>10. AtValue(scan)' = AtValue(scan) /\ AtValue(FirstScan)' = AtValue(FirstScan)
      BY <2>1, <2>2, <2>3, Zenon DEF AtValue, KeyOf
    <2>11. AtCr(scan)' = AtCr(scan) /\ AtCr(FirstScan)' = AtCr(FirstScan)
      BY <2>1, <2>2, <2>3, Zenon DEF AtCr, KeyOf
    <2>12. AtLf(scan)' = AtLf(scan) /\ AtLf(FirstScan)' = AtLf(FirstScan)
      BY <2>1, <2>2, <2>3, Zenon DEF AtLf
    <2>13. AtEndCr(scan)' = AtEndCr(scan) /\ AtEndCr(FirstScan)' = AtEndCr(FirstScan)
      BY <2>1, <2>2, <2>3, Zenon DEF AtEndCr
    <2>14. AtEndLf(scan)' = AtEndLf(scan) /\ AtEndLf(FirstScan)' = AtEndLf(FirstScan)
      BY <2>1, <2>2, <2>3, Zenon DEF AtEndLf
    <2>15. Placed(scan)' = Placed(scan) /\ Placed(FirstScan)' = Placed(FirstScan)
      BY <2>1, <2>7, <2>8, <2>9, <2>10, <2>11, <2>12, <2>13, <2>14, Zenon DEF Placed
    <2>16. HeaderInv'
      BY <2>1, <2>15, Zenon DEF IInv, HeaderInv
    <2> QED
      BY <2>2, <2>4, <2>5, <2>6, <2>16 DEF IInv
  <1> QED
    BY <1>1, <1>2, <1>3, <1>4, <1>5, <1>6, <1>7, <1>8, <1>9 DEF Next, HandleRead

(* What a client sends does not change.                                    *)
LEMMA StreamKept ==
  ASSUME [Next]_vars
  PROVE  UNCHANGED <<stream, delivery>> /\ WellFormed' = WellFormed
  <1>1. UNCHANGED <<stream, delivery>>
    BY BodyOutcome
       DEF Next, HandleRead, Read, ParseURI, EnterHeaders, HeaderStep, HeadersEnd,
           HeadersAgain, Analysis, vars, textVars
  <1> QED
    BY <1>1 DEF WellFormed

(* The parser is always where the invariant says, if it is sent requests.  *)
THEOREM Inductive == SafeSpec => [](WellFormed => IInv)
  <1>1. Init => (WellFormed => IInv)
    BY InitInv
  <1>2. (WellFormed => IInv) /\ [Next]_vars => (WellFormed => IInv)'
    BY NextInv, StreamKept
  <1> QED
    BY <1>1, <1>2, PTL DEF SafeSpec

(* No request is answered before its end has been read.                    *)
THEOREM NothingIsInvented == SafeSpec => []NothingInvented
  <1>1. ASSUME WellFormed => IInv
        PROVE  NothingInvented
    <2> SUFFICES ASSUME WellFormed
                 PROVE  n <= Complete
      BY DEF NothingInvented, n
    <2> DEFINE C == {k \in DOMAIN requests : End(k) <= pos}
    <2>1. /\ stream \in Streams /\ IsStream(stream) /\ requests = stream.requests
          /\ n \in 0 .. Len(requests) /\ From <= pos
      BY <1>1, StreamsAssumption DEF IInv, BufferInv, AnswersInv, requests
    <2>2. /\ Len(requests) \in Nat /\ n \in Nat /\ n <= Len(requests)
          /\ DOMAIN requests = 1 .. Len(requests)
      <3>1. requests \in Seq(Requests)
        BY <2>1, Zenon DEF IsStream
      <3>2. Len(requests) \in Nat /\ DOMAIN requests = 1 .. Len(requests)
        BY <3>1, LenProperties
      <3> QED
        BY <3>2, <2>1
    <2>3. /\ stream.ends \in [0 .. Len(requests) -> Nat]
          /\ \A j, k \in 0 .. Len(requests) : j < k => stream.ends[j] < stream.ends[k]
      BY <2>1, Zenon DEF IsStream
    <2>4. 1 .. n \subseteq C
      <3> SUFFICES ASSUME NEW k \in 1 .. n
                   PROVE  k \in C
        OBVIOUS
      <3>1. k \in 1 .. Len(requests) /\ k \in 0 .. Len(requests)
              /\ n \in 0 .. Len(requests) /\ k \in Nat /\ k <= n
        <4>1. k \in Nat \ {0} /\ k <= n
          BY <2>2
        <4> QED
          BY <4>1, <2>2
      <3>2. End(k) \in Nat /\ From \in Nat /\ pos \in Nat
        BY <3>1, <2>1, <2>3, <1>1, Sizes, Ends DEF IInv, End
      <3>3. End(k) <= From
        <4>1. CASE k = n
          BY <4>1, <3>2 DEF From
        <4>2. CASE k # n
          <5>1. stream.ends[k] < stream.ends[n]
            BY <4>2, <3>1, <2>2, <2>3
          <5> QED
            BY <5>1, <3>2 DEF From, End
        <4> QED
          BY <4>1, <4>2
      <3>4. End(k) <= pos
        BY <3>2, <3>3, <2>1
      <3> QED
        BY <3>1, <3>4, <2>2
    <2>5. IsFiniteSet(C) /\ Cardinality(1 .. n) = n /\ IsFiniteSet(1 .. n)
      <3>1. IsFiniteSet(1 .. Len(requests))
        BY <2>2, FS_Interval
      <3>2. C \subseteq 1 .. Len(requests)
        BY <2>2
      <3>3. IsFiniteSet(C)
        BY <3>1, <3>2, FS_Subset
      <3>4. IsFiniteSet(1 .. n) /\ Cardinality(1 .. n) = n
        BY <2>2, FS_Interval
      <3> QED
        BY <3>3, <3>4
    <2>6. n <= Cardinality(C)
      <3>1. Cardinality(1 .. n) <= Cardinality(C)
        BY <2>4, <2>5, FS_Subset
      <3> QED
        BY <3>1, <2>5
    <2> QED
      BY <2>6 DEF Complete
  <1> QED
    BY <1>1, Inductive, PTL

(* The names of a request.                                                 *)
LEMMA Names ==
  ASSUME stream \in Streams, n \in Nat, n < Len(requests)
  PROVE  /\ DOMAIN Current.headers = 1 .. Hs
         /\ \A h \in 1 .. Hs : Current.headers[h].name # "junk"
  <1> DEFINE k == n + 1
  <1>1. IsStream(stream) /\ Len(requests) \in Nat /\ requests = stream.requests
    BY StreamsAssumption, RequestCount DEF requests
  <1>2. k \in 1 .. Len(stream.requests) /\ stream.requests[k] = Current
    BY <1>1 DEF requests, Current, n
  <1>3. Current \in Requests
    BY <1>1, <1>2, RequestAt, Zenon
  <1>4. DOMAIN Current.headers = 1 .. Hs
    BY <1>3, LenProperties DEF Requests, Hs
  <1>5. \A h \in 1 .. Hs : Current.headers[h].name # "junk"
    BY HeaderLine, Kinds
  <1> QED
    BY <1>4, <1>5

(* Wherever the reads end, what is stored under the name of a header has   *)
(* been sent under that name.                                              *)
THEOREM StoredHeadersAreTrue == SafeSpec => []HeadersAreTrue
  <1>1. ASSUME WellFormed => IInv
        PROVE  HeadersAreTrue
    <2> SUFFICES ASSUME WellFormed, NEW k \in DOMAIN headers_
                 PROVE  /\ n < Len(requests)
                        /\ \A m \in DOMAIN Current.headers :
                              k = <<Current.headers[m].name>> =>
                                  \E h \in DOMAIN Current.headers :
                                      /\ k = <<Current.headers[h].name>>
                                      /\ headers_[k] = <<Current.headers[h].value>>
      BY Zenon DEF HeadersAreTrue, n
    <2>1. /\ n < Len(requests)
          /\ \/ Foreign(k)
             \/ \E h \in 1 .. Hs : /\ k = <<Current.headers[h].name>>
                                   /\ headers_[k] = <<Current.headers[h].value>>
      BY <1>1 DEF IInv, KeysInv
    <2>2. stream \in Streams /\ n \in Nat
      BY <1>1, StreamsAssumption, RequestCount DEF IInv, BufferInv, AnswersInv, requests
    <2>3. /\ DOMAIN Current.headers = 1 .. Hs
          /\ \A h \in 1 .. Hs : Current.headers[h].name # "junk"
      BY <2>1, <2>2, Names
    <2>4. ASSUME NEW m \in 1 .. Hs, k = <<Current.headers[m].name>>
          PROVE  ~Foreign(k)
      <3>1. DOMAIN k = {1} /\ k[1] = Current.headers[m].name
        BY <2>4
      <3> QED
        BY <3>1, <2>3 DEF Foreign
    <2> QED
      BY <2>1, <2>3, <2>4, Zenon
  <1> QED
    BY <1>1, Inductive, PTL

(* stoi throws only if a client sent a length that is no number.           *)
THEOREM ThrowsOnlyOnBadLength == SafeSpec => []ThrowsOnBadLengthOnly
  <1>1. ASSUME WellFormed => IInv
        PROVE  ThrowsOnBadLengthOnly
    <2> SUFFICES ASSUME WellFormed, error_ = "abort"
                 PROVE  \E h \in DOMAIN Current.headers :
                           /\ <<Current.headers[h].name>> = CL
                           /\ Current.headers[h].value \notin DOMAIN Numbers
      BY DEF ThrowsOnBadLengthOnly
    <2>1. /\ n < Len(requests)
          /\ \E h \in 1 .. Hs : /\ <<Current.headers[h].name>> = CL
                                /\ Current.headers[h].value \notin DOMAIN Numbers
      BY <1>1 DEF IInv, AbortInv
    <2>2. stream \in Streams /\ n \in Nat
      BY <1>1, StreamsAssumption, RequestCount DEF IInv, BufferInv, AnswersInv, requests
    <2>3. DOMAIN Current.headers = 1 .. Hs
      BY <2>1, <2>2, Names
    <2> QED
      BY <2>1, <2>3, Zenon
  <1> QED
    BY <1>1, Inductive, PTL

-----------------------------------------------------------------------------
(* Whole requests.                                                         *)

\* The clients Understood speaks of.
Plain ==
    /\ WellFormed /\ delivery = "whole"
    /\ \A k \in DOMAIN requests :
          requests[k].method # "POST" /\ requests[k].headers # <<>>

Name(h) == <<Current.headers[h].name>>
Value(h) == <<Current.headers[h].value>>

\* headers_ holds the first m headers of the request, of those with the same
\* name the last, and no other.
Stored(m) ==
    /\ headers_ = [k \in {Name(h) : h \in 1 .. m} |-> headers_[k]]
    /\ \A h \in 1 .. m : \/ \E g \in h + 1 .. m : Name(g) = Name(h)
                         \/ headers_[Name(h)] = Value(h)

KeySeen(h) ==
    Base + scan.key_start = NameAt(h) /\ Base + scan.key_end = NameAt(h) + 1

\* The pass of parseHeaders has come to header h, with nothing skipped.
Track(h) ==
    /\ hState_ \in {"KEY", "COLON", "SPACE_AFTER_COLON", "VALUE", "CR"} => Stored(h - 1)
    /\ hState_ = "KEY" => /\ Base + scan.i = NameAt(h) + 1
                          /\ Base + scan.key_start = NameAt(h)
    /\ hState_ = "COLON" => Base + scan.i = NameAt(h) + 2 /\ KeySeen(h)
    /\ hState_ = "SPACE_AFTER_COLON" => Base + scan.i = NameAt(h) + 3 /\ KeySeen(h)
    /\ hState_ = "VALUE" => /\ Base + scan.i = NameAt(h) + 4 /\ KeySeen(h)
                            /\ Base + scan.value_start = NameAt(h) + 3
    /\ hState_ = "CR" => /\ Base + scan.i = NameAt(h) + 5 /\ KeySeen(h)
                         /\ Base + scan.value_start = NameAt(h) + 3
                         /\ Base + scan.value_end = NameAt(h) + 4
    /\ hState_ = "LF" => Base + scan.i = LfAt(h) + 1 /\ Stored(h)
    /\ hState_ = "END_CR" => h = Hs /\ Base + scan.i = HeadEnd /\ Stored(h)
    /\ hState_ = "END_LF" => h = Hs /\ Base + scan.i = HeadEnd + 1 /\ Stored(h)

OnTrack ==
    /\ Base = From + 3
    /\ hState_ = "START" => /\ headers_ = NoHeaders
                            /\ Base + scan.i \in {From + 4, From + 5}
    /\ hState_ # "START" => \E h \in 1 .. Hs : Track(h)

Exact ==
    /\ pc \in {"idle", "pass", "scan"} /\ state_ # "BODY"
    /\ \A m \in 1 .. n : Matches(answers[m], requests[m])
    /\ pc = "idle" => state_ = "URI" /\ inBuffer_ = <<>> /\ pos = From
    /\ pc # "idle" => n < Len(requests) /\ pos = Upto
    /\ pc = "pass" /\ state_ = "URI" => Base = From
    /\ pc = "pass" /\ state_ = "HEADERS" => /\ Base = From + 3 /\ hState_ = "START"
                                            /\ headers_ = NoHeaders
    /\ pc = "pass" /\ state_ = "ANALYSIS" => inBuffer_ = <<>> /\ Stored(Hs)
    /\ pc = "scan" => OnTrack

ExactInv == Plain => Exact

\* The current request is one of those Understood speaks of.
LEMMA PlainRequest ==
  ASSUME BufferInv, AnswersInv, Plain, n < Len(requests)
  PROVE  /\ stream \in Streams /\ n \in Nat
         /\ Current.method # "POST" /\ Hs \in Nat \ {0} /\ Upto = HeadEnd
  <1>1. /\ IsStream(stream) /\ stream \in Streams /\ requests = stream.requests
        /\ n \in 0 .. Len(requests)
    BY StreamsAssumption DEF BufferInv, AnswersInv, requests
  <1>2. requests \in Seq(Requests) /\ Len(requests) \in Nat
    BY <1>1, RequestCount, Zenon DEF IsStream
  <1>3. n + 1 \in DOMAIN requests /\ Current = requests[n + 1] /\ n \in Nat
    BY <1>1, <1>2, LenProperties DEF Current, n
  <1>4. Current.method # "POST" /\ Current.headers # <<>> /\ Current \in Requests
    BY <1>2, <1>3 DEF Plain
  <1>5. Hs \in Nat \ {0}
    <2>1. Current.headers \in Seq([name : Words, value : Words])
      BY <1>4 DEF Requests
    <2> QED
      BY <2>1, <1>4, EmptySeq, LenProperties DEF Hs
  <1>6. Upto = HeadEnd
    BY <1>1, <1>3, <1>4, Places
  <1> QED
    BY <1>1, <1>3, <1>4, <1>5, <1>6

(* The first of the request's headers, the last one stored.                *)
LEMMA StoreNext ==
  ASSUME stream \in Streams, n \in Nat, n < Len(requests),
         NEW h \in 1 .. Hs, Stored(h - 1), UNCHANGED <<stream, answers>>,
         headers_' = Put(headers_, Name(h), Value(h))
  PROVE  Stored(h)'
  <1>1. Current' = Current /\ Hs' = Hs
    BY SameRequest
  <1>2. h \in Nat /\ h - 1 \in Nat /\ h \in 1 .. h /\ h <= Hs /\ Hs \in Nat
    <2>1. Hs \in Nat
      BY Places
    <2> QED
      BY <2>1
  <1>3. \A g \in 1 .. h - 1 : g \in 1 .. h /\ g # h /\ h \in g + 1 .. h
    BY <1>2
  <1>4. \A g : Name(g)' = Name(g) /\ Value(g)' = Value(g)
    BY <1>1 DEF Name, Value
  <1>5. \A g \in 1 .. h : g # h => g \in 1 .. h - 1
    BY <1>2
  <1>6. {Name(g) : g \in 1 .. h} = {Name(g) : g \in 1 .. h - 1} \cup {Name(h)}
    BY <1>2, <1>3, <1>5, Zenon
  <1>7. DOMAIN headers_ = {Name(g) : g \in 1 .. h - 1}
    BY Zenon DEF Stored
  <1> DEFINE f == headers_'
             N == {Name(g) : g \in 1 .. h}
  <1>8. f = [k \in N |-> IF k = Name(h) THEN Value(h) ELSE headers_[k]]
    BY <1>6, <1>7, Zenon DEF Put
  <1> HIDE DEF f, N
  <1>9. f = [k \in N |-> f[k]]
    BY <1>8
  <1>10. \A g \in 1 .. h : \/ \E e \in g + 1 .. h : Name(e) = Name(g)
                           \/ f[Name(g)] = Value(g)
    <2> TAKE g \in 1 .. h
    <2>1. Name(g) \in N
      BY DEF N
    <2>2. f[Name(g)] = IF Name(g) = Name(h) THEN Value(h) ELSE headers_[Name(g)]
      BY <2>1, <1>8
    <2>3. CASE g = h
      <3>1. f[Name(g)] = Value(g)
        BY <2>2, <2>3, Zenon
      <3> QED
        BY <3>1
    <2>4. CASE g # h
      <3>1. g \in 1 .. h - 1 /\ h \in g + 1 .. h
        BY <2>4, <1>3, <1>5
      <3>2. CASE Name(g) = Name(h)
        BY <3>1, <3>2, Zenon
      <3>3. CASE Name(g) # Name(h)
        <4>1. \/ \E e \in g + 1 .. h - 1 : Name(e) = Name(g)
              \/ headers_[Name(g)] = Value(g)
          BY <3>1, Zenon DEF Stored
        <4>2. \A e \in g + 1 .. h - 1 : e \in g + 1 .. h
          BY <1>2
        <4>3. f[Name(g)] = headers_[Name(g)]
          BY <3>3, <2>2, Zenon
        <4> QED
          BY <4>1, <4>2, <4>3, Zenon
      <3> QED
        BY <3>2, <3>3
    <2> QED
      BY <2>3, <2>4
  <1>11. f = [k \in {Name(g)' : g \in 1 .. h} |-> f[k]]
    BY <1>4, <1>9, Zenon DEF N
  <1> QED
    BY <1>4, <1>10, <1>11, Zenon DEF Stored, f

\* parseHeaders in a pass over a whole request.
AtTrack == IInv /\ Plain /\ Exact /\ pc = "scan"

(* What is known while parseHeaders is at a whole request.                 *)
LEMMA Tracking ==
  ASSUME AtTrack
  PROVE  /\ stream \in Streams /\ n \in Nat /\ n < Len(requests)
         /\ Current.method # "POST" /\ Hs \in Nat \ {0} /\ Upto = HeadEnd
         /\ From \in Nat /\ HeadEnd \in Nat /\ HeadEnd = From + 6 * Hs + 6
         /\ LfAt(Hs) = HeadEnd - 2
         /\ Base = From + 3 /\ Base \in Nat /\ pos = HeadEnd /\ OnTrack
         /\ Base + Len(inBuffer_) = pos /\ Len(inBuffer_) \in Nat
         /\ scan.i \in Nat \ {0} /\ scan.key_start \in Nat /\ scan.key_end \in Nat
         /\ scan.value_start \in Nat /\ scan.value_end \in Nat
         /\ scan.i <= Len(inBuffer_) => Char = T(Base + scan.i)
  <1>1. n < Len(requests) /\ pos = Upto /\ OnTrack /\ Base = From + 3
    BY DEF AtTrack, Exact, OnTrack
  <1>2. /\ stream \in Streams /\ n \in Nat
        /\ Current.method # "POST" /\ Hs \in Nat \ {0} /\ Upto = HeadEnd
    BY <1>1, PlainRequest DEF AtTrack, IInv
  <1>3. /\ From \in Nat /\ HeadEnd \in Nat /\ HeadEnd = From + 6 * Hs + 6
        /\ LfAt(Hs) = HeadEnd - 2
    BY <1>1, <1>2, Places
  <1>4. Base + Len(inBuffer_) = pos /\ Len(inBuffer_) \in Nat
    BY Sizes DEF AtTrack, IInv
  <1>5. /\ scan.i \in Nat \ {0} /\ scan.key_start \in Nat /\ scan.key_end \in Nat
        /\ scan.value_start \in Nat /\ scan.value_end \in Nat
        /\ scan.i <= Len(inBuffer_) => Char = T(Base + scan.i)
    BY Looking DEF AtTrack, IInv, Context
  <1>6. Base \in Nat
    BY <1>1, <1>3
  <1> QED
    BY <1>1, <1>2, <1>3, <1>4, <1>5, <1>6

(* What a step of parseHeaders keeps.                                      *)
LEMMA TrackFrame ==
  ASSUME AtTrack, Still
  PROVE  /\ Base' = Base /\ From' = From /\ Hs' = Hs /\ HeadEnd' = HeadEnd
         /\ \A h : NameAt(h)' = NameAt(h) /\ LfAt(h)' = LfAt(h)
         /\ headers_' = headers_ => \A m : Stored(m)' = Stored(m)
  <1>1. Current' = Current
    BY SameRequest DEF Still, textVars
  <1>2. headers_' = headers_ => \A m : Stored(m)' = Stored(m)
    BY <1>1 DEF Stored, Name, Value
  <1>3. /\ From' = From /\ Hs' = Hs /\ HeadEnd' = HeadEnd
        /\ \A h : NameAt(h)' = NameAt(h) /\ LfAt(h)' = LfAt(h)
    BY SameRequest DEF Still, textVars
  <1>4. Base' = Base
    BY DEF Still, textVars, Base
  <1> QED
    BY <1>2, <1>3, <1>4

(* One token further.                                                      *)
LEMMA Onward ==
  ASSUME AtTrack, Still, scan'.i = scan.i + 1, NEW y \in Nat, Base + scan.i = y
  PROVE  Base' + scan'.i = y + 1
  <1> DEFINE ci == scan.i
             di == scan'.i
  <1>1. /\ Base \in Nat /\ ci \in Nat /\ Base' = Base
        /\ di = ci + 1 /\ Base + ci = y
    BY Tracking, TrackFrame
  <1> HIDE DEF ci, di
  <1>2. Base' + di = y + 1
    BY <1>1
  <1> QED
    BY <1>2 DEF di

(* The LF of the request line is passed over, and the first name begins.   *)
LEMMA TrackStart ==
  ASSUME AtTrack, HStart, Still
  PROVE  pc' = "scan" /\ OnTrack'
  <1>1. /\ stream \in Streams /\ n \in Nat /\ n < Len(requests)
        /\ Hs \in Nat \ {0} /\ From \in Nat
        /\ Base = From + 3 /\ scan.i \in Nat /\ Char = T(Base + scan.i)
    BY Tracking DEF HStart, In
  <1>2. /\ Base' = Base /\ From' = From /\ Hs' = Hs
        /\ \A h : NameAt(h)' = NameAt(h)
        /\ headers_' = headers_ => \A m : Stored(m)' = Stored(m)
    BY TrackFrame
  <1>3. /\ hState_ = "START" /\ headers_ = NoHeaders
        /\ Base + scan.i = From + 4 \/ Base + scan.i = From + 5
    BY Tracking DEF HStart, In, OnTrack
  <1>4. 1 \in 1 .. Hs /\ NameAt(1) = From + 5
    BY <1>1 DEF NameAt
  <1>5. T(From + 4) = "LF" /\ T(From + 5) \in Words
    BY <1>1, <1>4, FirstLine, HeaderLine
  <1>6. CASE Base + scan.i = From + 4
    <2>1. hState_' = "START" /\ scan' = [scan EXCEPT !.i = @ + 1]
            /\ headers_' = headers_ /\ pc' = pc
      BY <1>1, <1>5, <1>6 DEF HStart, Go
    <2>2. scan'.i = scan.i + 1
      BY <2>1 DEF AtTrack, IInv, ScanInv
    <2>3. Base' + scan'.i = From' + 5
      BY <2>2, <1>1, <1>2, <1>6
    <2> QED
      BY <2>1, <2>3, <1>1, <1>2, <1>3 DEF OnTrack, AtTrack
  <1>7. CASE Base + scan.i = From + 5
    <2>1. Char \notin {"CR", "LF"}
      BY <1>1, <1>5, <1>7, Kinds DEF Marks
    <2>2. /\ hState_' = "KEY"
          /\ scan' = [[scan EXCEPT !.key_start = scan.i, !.begin = scan.i]
                         EXCEPT !.i = @ + 1]
          /\ headers_' = headers_ /\ pc' = pc
      BY <2>1 DEF HStart, Go
    <2>3. scan'.i = scan.i + 1 /\ scan'.key_start = scan.i
      BY <2>2 DEF AtTrack, IInv, ScanInv
    <2>4. /\ Base' + scan'.i = NameAt(1)' + 1
          /\ Base' + scan'.key_start = NameAt(1)'
      BY <2>3, <1>1, <1>2, <1>4, <1>7
    <2>5. Stored(1 - 1)
      <3>1. 1 .. (1 - 1) = {}
        OBVIOUS
      <3>2. headers_ = [k \in {Name(h) : h \in 1 .. (1 - 1)} |-> headers_[k]]
        BY <3>1, <1>3 DEF NoHeaders
      <3> QED
        BY <3>1, <3>2, Zenon DEF Stored
    <2>6. Track(1)'
      BY <2>2, <2>4, <2>5, <1>2 DEF Track
    <2> QED
      BY <2>2, <2>6, <1>1, <1>2, <1>4 DEF OnTrack, AtTrack
  <1> QED
    BY <1>3, <1>6, <1>7

(* The name ends in front of its colon.                                    *)
LEMMA TrackKey ==
  ASSUME AtTrack, HKey, Still
  PROVE  pc' = "scan" /\ OnTrack'
  <1>1. /\ stream \in Streams /\ n \in Nat /\ n < Len(requests)
        /\ From \in Nat /\ Base = From + 3 /\ Base \in Nat
        /\ scan.i \in Nat /\ scan.key_start \in Nat
        /\ Char = T(Base + scan.i)
    BY Tracking DEF HKey, In
  <1>2. /\ Base' = Base /\ From' = From /\ Hs' = Hs
        /\ \A h : NameAt(h)' = NameAt(h)
        /\ headers_' = headers_ => \A m : Stored(m)' = Stored(m)
    BY TrackFrame
  <1>3. PICK h \in 1 .. Hs : /\ Base + scan.i = NameAt(h) + 1
                             /\ Base + scan.key_start = NameAt(h)
                             /\ Stored(h - 1)
    BY Tracking DEF HKey, In, OnTrack, Track
  <1>4. NameAt(h) \in Nat /\ T(NameAt(h) + 1) = ":"
    BY <1>1, HeaderLine
  <1>5. scan.i > scan.key_start
    BY <1>1, <1>3, <1>4
  <1>6. /\ hState_' = "COLON" /\ headers_' = headers_ /\ pc' = pc
        /\ scan' = [[scan EXCEPT !.key_end = scan.i] EXCEPT !.i = @ + 1]
    BY <1>1, <1>3, <1>4, <1>5 DEF HKey, Go
  <1>7. /\ scan'.i = scan.i + 1 /\ scan'.key_start = scan.key_start
        /\ scan'.key_end = scan.i
    BY <1>6 DEF AtTrack, IInv, ScanInv
  <1>8. Base' + scan'.i = (NameAt(h) + 1) + 1
    BY <1>3, <1>4, <1>7, Onward
  <1>9. /\ Base' + scan'.i = NameAt(h)' + 2
        /\ Base' + scan'.key_start = NameAt(h)'
        /\ Base' + scan'.key_end = NameAt(h)' + 1
    BY <1>2, <1>3, <1>4, <1>7, <1>8
  <1>10. Track(h)'
    BY <1>2, <1>3, <1>6, <1>9 DEF Track, KeySeen
  <1> QED
    BY <1>1, <1>2, <1>6, <1>10 DEF OnTrack, AtTrack

(* The space behind the colon.                                             *)
LEMMA TrackColon ==
  ASSUME AtTrack, HColon, Still
  PROVE  pc' = "scan" /\ OnTrack'
  <1>1. /\ stream \in Streams /\ n \in Nat /\ n < Len(requests)
        /\ From \in Nat /\ Base = From + 3 /\ Base \in Nat
        /\ scan.i \in Nat /\ Char = T(Base + scan.i)
    BY Tracking DEF HColon, In
  <1>2. /\ Base' = Base /\ From' = From /\ Hs' = Hs
        /\ \A h : NameAt(h)' = NameAt(h)
        /\ headers_' = headers_ => \A m : Stored(m)' = Stored(m)
    BY TrackFrame
  <1>3. PICK h \in 1 .. Hs : Base + scan.i = NameAt(h) + 2 /\ KeySeen(h) /\ Stored(h - 1)
    BY Tracking DEF HColon, In, OnTrack, Track
  <1>4. NameAt(h) \in Nat /\ T(NameAt(h) + 2) = " "
    BY <1>1, HeaderLine
  <1>5. /\ hState_' = "SPACE_AFTER_COLON" /\ headers_' = headers_ /\ pc' = pc
        /\ scan' = [scan EXCEPT !.i = @ + 1]
    BY <1>1, <1>3, <1>4 DEF HColon, Go
  <1>6. /\ scan'.i = scan.i + 1 /\ scan'.key_start = scan.key_start
        /\ scan'.key_end = scan.key_end
    BY <1>5 DEF AtTrack, IInv, ScanInv
  <1>7. Base' + scan'.i = (NameAt(h) + 2) + 1
    <2>1. NameAt(h) \in Nat /\ Base + scan.i = NameAt(h) + 2
      BY <1>3, <1>4, Zenon
    <2>2. NameAt(h) + 2 \in Nat
      BY <2>1
    <2> QED
      BY <2>1, <2>2, <1>6, Onward
  <1>8. Base' + scan'.i = NameAt(h)' + 3
    <2>1. NameAt(h) \in Nat /\ NameAt(h)' = NameAt(h)
      BY <1>2, <1>4, Zenon
    <2> QED
      BY <2>1, <1>7
  <1>9. KeySeen(h)'
    BY <1>2, <1>3, <1>6 DEF KeySeen
  <1>10. Track(h)'
    BY <1>2, <1>3, <1>5, <1>8, <1>9 DEF Track
  <1> QED
    BY <1>1, <1>2, <1>5, <1>10 DEF OnTrack, AtTrack

(* The value begins behind the space.                                      *)
LEMMA TrackSpace ==
  ASSUME AtTrack, HSpace, Still
  PROVE  pc' = "scan" /\ OnTrack'
  <1>1. /\ stream \in Streams /\ n \in Nat /\ n < Len(requests)
        /\ From \in Nat /\ Base = From + 3 /\ Base \in Nat /\ scan.i \in Nat
    BY Tracking DEF HSpace, In
  <1>2. /\ Base' = Base /\ From' = From /\ Hs' = Hs
        /\ \A h : NameAt(h)' = NameAt(h)
        /\ headers_' = headers_ => \A m : Stored(m)' = Stored(m)
    BY TrackFrame
  <1>3. PICK h \in 1 .. Hs : Base + scan.i = NameAt(h) + 3 /\ KeySeen(h) /\ Stored(h - 1)
    BY Tracking DEF HSpace, In, OnTrack, Track
  <1>4. NameAt(h) \in Nat
    BY <1>1, HeaderLine
  <1>5. /\ hState_' = "VALUE" /\ headers_' = headers_ /\ pc' = pc
        /\ scan' = [[scan EXCEPT !.value_start = scan.i] EXCEPT !.i = @ + 1]
    BY DEF HSpace, Go
  <1>6. /\ scan'.i = scan.i + 1 /\ scan'.key_start = scan.key_start
        /\ scan'.key_end = scan.key_end /\ scan'.value_start = scan.i
    BY <1>5 DEF AtTrack, IInv, ScanInv
  <1>7. Base' + scan'.i = (NameAt(h) + 3) + 1
    BY <1>3, <1>4, <1>6, Onward
  <1>8. /\ Base' + scan'.i = NameAt(h)' + 4
        /\ Base' + scan'.value_start = NameAt(h)' + 3
    BY <1>2, <1>3, <1>4, <1>6, <1>7
  <1>9. KeySeen(h)'
    BY <1>2, <1>3, <1>6 DEF KeySeen
  <1>10. Track(h)'
    BY <1>2, <1>3, <1>5, <1>8, <1>9 DEF Track
  <1> QED
    BY <1>1, <1>2, <1>5, <1>10 DEF OnTrack, AtTrack

(* The value ends in front of its CR.                                      *)
LEMMA TrackValue ==
  ASSUME AtTrack, HValue, Still
  PROVE  pc' = "scan" /\ OnTrack'
  <1>1. /\ stream \in Streams /\ n \in Nat /\ n < Len(requests)
        /\ From \in Nat /\ Base = From + 3 /\ Base \in Nat
        /\ scan.i \in Nat /\ scan.value_start \in Nat
        /\ Char = T(Base + scan.i)
    BY Tracking DEF HValue, In
  <1>2. /\ Base' = Base /\ From' = From /\ Hs' = Hs
        /\ \A h : NameAt(h)' = NameAt(h)
        /\ headers_' = headers_ => \A m : Stored(m)' = Stored(m)
    BY TrackFrame
  <1>3. PICK h \in 1 .. Hs : /\ Base + scan.i = NameAt(h) + 4 /\ KeySeen(h)
                             /\ Base + scan.value_start = NameAt(h) + 3
                             /\ Stored(h - 1)
    BY Tracking DEF HValue, In, OnTrack, Track
  <1>4. NameAt(h) \in Nat /\ T(NameAt(h) + 4) = "CR"
    BY <1>1, HeaderLine
  <1>5. scan.i > scan.value_start
    BY <1>1, <1>3, <1>4
  <1>6. /\ hState_' = "CR" /\ headers_' = headers_ /\ pc' = pc
        /\ scan' = [[scan EXCEPT !.value_end = scan.i] EXCEPT !.i = @ + 1]
    BY <1>1, <1>3, <1>4, <1>5 DEF HValue, Go
  <1>7. /\ scan'.i = scan.i + 1 /\ scan'.key_start = scan.key_start
        /\ scan'.key_end = scan.key_end /\ scan'.value_start = scan.value_start
        /\ scan'.value_end = scan.i
    BY <1>6 DEF AtTrack, IInv, ScanInv
  <1>8. Base' + scan'.i = (NameAt(h) + 4) + 1
    BY <1>3, <1>4, <1>7, Onward
  <1>9. /\ Base' + scan'.i = NameAt(h)' + 5
        /\ Base' + scan'.value_start = NameAt(h)' + 3
        /\ Base' + scan'.value_end = NameAt(h)' + 4
    BY <1>2, <1>3, <1>4, <1>7, <1>8
  <1>10. KeySeen(h)'
    BY <1>2, <1>3, <1>7 DEF KeySeen
  <1>11. Track(h)'
    BY <1>2, <1>3, <1>6, <1>9, <1>10 DEF Track
  <1> QED
    BY <1>1, <1>2, <1>6, <1>11 DEF OnTrack, AtTrack


(* The header is stored under its own name with its own value.             *)
LEMMA TrackCr ==
  ASSUME AtTrack, HCr, Still
  PROVE  pc' = "scan" /\ OnTrack'
  <1>1. /\ stream \in Streams /\ n \in Nat /\ n < Len(requests)
        /\ Base = From + 3 /\ Base \in Nat /\ scan.i \in Nat
        /\ scan.key_start \in Nat /\ scan.key_end \in Nat
        /\ scan.value_start \in Nat /\ scan.value_end \in Nat
        /\ Char = T(Base + scan.i) /\ scan.i <= Len(inBuffer_)
        /\ Len(inBuffer_) \in Nat
    BY Tracking DEF HCr, In
  <1>2. /\ Base' = Base /\ From' = From /\ Hs' = Hs
        /\ \A h : LfAt(h)' = LfAt(h)
    BY TrackFrame
  <1>3. PICK h \in 1 .. Hs : /\ Base + scan.i = NameAt(h) + 5 /\ KeySeen(h)
                             /\ Base + scan.value_start = NameAt(h) + 3
                             /\ Base + scan.value_end = NameAt(h) + 4
                             /\ Stored(h - 1)
    BY Tracking DEF HCr, In, OnTrack, Track
  <1>4. /\ NameAt(h) \in Nat /\ T(NameAt(h) + 5) = "LF"
        /\ T(NameAt(h)) = Current.headers[h].name
        /\ T(NameAt(h) + 3) = Current.headers[h].value
        /\ NameAt(h) = From + 6 * h - 1 /\ From \in Nat /\ h \in Nat \ {0}
    <2>1. From \in Nat /\ Hs \in Nat
      BY <1>1, Places
    <2>2. h \in Nat \ {0}
      BY <2>1
    <2> QED
      BY <2>1, <2>2, <1>1, HeaderLine
  <1>5. /\ hState_' = "LF" /\ pc' = pc
        /\ headers_' = Put(headers_, Slice(scan.key_start, scan.key_end),
                                     Slice(scan.value_start, scan.value_end))
        /\ scan' = [scan EXCEPT !.i = @ + 1, !.begin = scan.i]
    BY <1>1, <1>3, <1>4, Zenon DEF HCr
  <1>6. scan'.i = scan.i + 1
    BY <1>5 DEF AtTrack, IInv, ScanInv
  <1>7. Base' + scan'.i = LfAt(h)' + 1
    <2>1. Base' + scan'.i = (NameAt(h) + 5) + 1
      BY <1>3, <1>4, <1>6, Onward
    <2>2. LfAt(h) = NameAt(h) + 5
      BY <1>4 DEF LfAt
    <2> QED
      BY <2>1, <2>2, <1>2
  <1>8. /\ Slice(scan.key_start, scan.key_end) = Name(h)
        /\ Slice(scan.value_start, scan.value_end) = Value(h)
    <2> DEFINE ks == scan.key_start
               ke == scan.key_end
               vs == scan.value_start
               ve == scan.value_end
               ci == scan.i
    <2>1. /\ Base + ks = NameAt(h) /\ Base + ke = NameAt(h) + 1
          /\ Base + vs = NameAt(h) + 3 /\ Base + ve = NameAt(h) + 4
          /\ Base + ci = NameAt(h) + 5
      BY <1>3 DEF KeySeen
    <2>2. /\ ks \in Nat /\ ke \in Nat /\ vs \in Nat /\ ve \in Nat /\ ci \in Nat
          /\ Base = From + 3 /\ ci <= Len(inBuffer_)
      BY <1>1
    <2> HIDE DEF ks, ke, vs, ve, ci
    <2>3. ke = ks + 1 /\ ve = vs + 1 /\ ci = ks + 5 /\ ci = vs + 2
      <3>1. ke = ks + 1 /\ ci = ks + 5
        BY <2>1, <2>2, <1>1, <1>4
      <3>2. ve = vs + 1 /\ ci = vs + 2
        BY <2>1, <2>2, <1>1, <1>4
      <3> QED
        BY <3>1, <3>2
    <2>4. ks \in Nat \ {0} /\ vs \in Nat \ {0}
      BY <2>1, <2>2, <1>4
    <2>5. ks \in 1 .. Len(inBuffer_) /\ vs \in 1 .. Len(inBuffer_)
      BY <2>2, <2>3, <2>4, <1>1
    <2>6. inBuffer_[ks] = T(NameAt(h)) /\ inBuffer_[vs] = T(NameAt(h) + 3)
      BY <2>1, <2>5 DEF AtTrack, IInv, BufferInv
    <2>7. Slice(ks, ke) = <<inBuffer_[ks]>> /\ Slice(vs, ve) = <<inBuffer_[vs]>>
      BY <2>3, <2>4, OneToken
    <2> QED
      BY <2>6, <2>7, <1>4, Zenon DEF ks, ke, vs, ve, Name, Value
  <1>9. Stored(h)'
    <2>1. UNCHANGED <<stream, answers>>
      BY DEF Still, textVars
    <2> QED
      BY <2>1, <1>1, <1>3, <1>5, <1>8, StoreNext
  <1>10. Track(h)'
    BY <1>5, <1>7, <1>9 DEF Track
  <1> QED
    BY <1>1, <1>2, <1>5, <1>10 DEF OnTrack, AtTrack

(* The next name begins, or the empty line.                                *)
LEMMA TrackLf ==
  ASSUME AtTrack, HLf, Still
  PROVE  pc' = "scan" /\ OnTrack'
  <1>1. /\ stream \in Streams /\ n \in Nat /\ n < Len(requests)
        /\ From \in Nat /\ Base = From + 3 /\ Base \in Nat /\ scan.i \in Nat
        /\ Char = T(Base + scan.i) /\ Hs \in Nat \ {0}
        /\ HeadEnd = From + 6 * Hs + 6 /\ LfAt(Hs) = HeadEnd - 2
        /\ HeadEnd \in Nat
    BY Tracking DEF HLf, In
  <1>2. /\ Base' = Base /\ From' = From /\ Hs' = Hs /\ HeadEnd' = HeadEnd
        /\ \A h : NameAt(h)' = NameAt(h)
        /\ headers_' = headers_ => \A m : Stored(m)' = Stored(m)
    BY TrackFrame
  <1>3. PICK h \in 1 .. Hs : Base + scan.i = LfAt(h) + 1 /\ Stored(h)
    BY Tracking DEF HLf, In, OnTrack, Track
  <1>4. h \in Nat /\ h <= Hs /\ LfAt(h) = From + 6 * h + 4
    BY <1>1 DEF LfAt
  <1>5. CASE h = Hs
    <2>1. Base + scan.i = HeadEnd - 1
      BY <1>1, <1>3, <1>5
    <2>2. Char = "CR"
      BY <2>1, <1>1, LastLine
    <2>3. /\ hState_' = "END_CR" /\ headers_' = headers_ /\ pc' = pc
          /\ scan' = [scan EXCEPT !.i = @ + 1]
      BY <2>2, Zenon DEF HLf, Go
    <2>4. scan'.i = scan.i + 1
      BY <2>3 DEF AtTrack, IInv, ScanInv
    <2>5. HeadEnd - 1 \in Nat
      BY <1>1
    <2>6. Base' + scan'.i = HeadEnd'
      <3>1. Base' + scan'.i = (HeadEnd - 1) + 1
        BY <2>1, <2>4, <2>5, Onward
      <3> QED
        BY <3>1, <1>1, <1>2
    <2>7. Track(h)'
      BY <2>3, <2>6, <1>2, <1>3, <1>5 DEF Track
    <2> QED
      BY <2>3, <2>7, <1>1, <1>2 DEF OnTrack, AtTrack
  <1>6. CASE h # Hs
    <2>1. /\ h + 1 \in 1 .. Hs /\ (h + 1) - 1 = h
          /\ LfAt(h) + 1 = NameAt(h + 1)
      BY <1>1, <1>4, <1>6 DEF NameAt
    <2>2. Base + scan.i = NameAt(h + 1) /\ NameAt(h + 1) \in Nat
      BY <2>1, <1>1, <1>3, HeaderLine
    <2>3. Char # "CR"
      <3>1. T(NameAt(h + 1)) \in Words
        BY <2>1, <1>1, HeaderLine
      <3> QED
        BY <3>1, <2>2, <1>1, Kinds DEF Marks
    <2>4. /\ hState_' = "KEY" /\ headers_' = headers_ /\ pc' = pc
          /\ scan' = [[scan EXCEPT !.key_start = scan.i] EXCEPT !.i = @ + 1]
      BY <2>3 DEF HLf, Go
    <2>5. scan'.i = scan.i + 1 /\ scan'.key_start = scan.i
      BY <2>4 DEF AtTrack, IInv, ScanInv
    <2>6. Base' + scan'.i = NameAt(h + 1) + 1
      BY <2>2, <2>5, Onward
    <2>7. /\ Base' + scan'.i = NameAt(h + 1)' + 1
          /\ Base' + scan'.key_start = NameAt(h + 1)'
      BY <2>2, <2>5, <2>6, <1>2, Zenon
    <2>8. Stored((h + 1) - 1)'
      BY <2>1, <2>4, <1>2, <1>3, Zenon
    <2>9. Track(h + 1)'
      BY <2>4, <2>7, <2>8 DEF Track
    <2> QED
      BY <2>1, <2>4, <2>9, <1>1, <1>2 DEF OnTrack, AtTrack
  <1> QED
    BY <1>5, <1>6

(* The empty line ends the headers.                                        *)
LEMMA TrackEndCr ==
  ASSUME AtTrack, HEndCr, Still
  PROVE  pc' = "scan" /\ OnTrack'
  <1>1. /\ stream \in Streams /\ n \in Nat /\ n < Len(requests)
        /\ Base = From + 3 /\ Base \in Nat /\ scan.i \in Nat
        /\ Char = T(Base + scan.i) /\ HeadEnd \in Nat
    BY Tracking DEF HEndCr, In
  <1>2. /\ Base' = Base /\ From' = From /\ Hs' = Hs /\ HeadEnd' = HeadEnd
        /\ headers_' = headers_ => \A m : Stored(m)' = Stored(m)
    BY TrackFrame
  <1>3. PICK h \in 1 .. Hs : h = Hs /\ Base + scan.i = HeadEnd /\ Stored(h)
    BY Tracking DEF HEndCr, In, OnTrack, Track
  <1>4. T(HeadEnd) = "LF"
    BY <1>1, LastLine
  <1>5. /\ hState_' = "END_LF" /\ headers_' = headers_ /\ pc' = pc
        /\ scan' = [scan EXCEPT !.i = @ + 1]
    BY <1>1, <1>3, <1>4, Zenon DEF HEndCr, Go
  <1>6. scan'.i = scan.i + 1
    BY <1>5 DEF AtTrack, IInv, ScanInv
  <1>7. Base' + scan'.i = HeadEnd + 1
    BY <1>1, <1>3, <1>6, Onward
  <1>8. Base' + scan'.i = HeadEnd' + 1
    BY <1>2, <1>7, Zenon
  <1>9. Track(h)'
    BY <1>2, <1>3, <1>5, <1>8 DEF Track
  <1> QED
    BY <1>1, <1>2, <1>5, <1>9 DEF OnTrack, AtTrack

(* A step of parseHeaders in a whole request.                              *)
LEMMA TrackStep ==
  ASSUME AtTrack, HeaderStep
  PROVE  Exact'
  <1>1. Still
    BY DEF HeaderStep, Still
  <1>2. pc' = "scan" /\ OnTrack'
    BY <1>1, TrackStart, TrackKey, TrackColon, TrackSpace, TrackValue, TrackCr,
       TrackLf, TrackEndCr, Zenon DEF HeaderStep
  <1>3. UNCHANGED <<stream, pos, state_, answers>>
    BY <1>1 DEF Still, textVars, HeaderStep
  <1>4. n' = n /\ requests' = requests /\ Upto' = Upto
    BY <1>3, SameRequest
  <1>5. state_ # "BODY" /\ n < Len(requests) /\ pos = Upto
          /\ \A m \in 1 .. n : Matches(answers[m], requests[m])
    BY DEF AtTrack, Exact
  <1>6. \A m \in 1 .. n' : Matches(answers'[m], requests'[m])
    BY <1>3, <1>4, <1>5, Zenon
  <1> QED
    BY <1>2, <1>3, <1>4, <1>5, <1>6 DEF Exact

(* Each request ends behind the one before it.                             *)
LEMMA EndsGrow ==
  ASSUME stream \in Streams
  PROVE  /\ Len(requests) \in Nat /\ DOMAIN requests = 1 .. Len(requests)
         /\ \A i, j \in 0 .. Len(requests) : i < j => End(i) < End(j)
         /\ \A i \in 0 .. Len(requests) : End(i) \in Nat
  <1>1. IsStream(stream) /\ requests = stream.requests
    BY StreamsAssumption DEF requests
  <1>2. requests \in Seq(Requests)
    BY <1>1, Zenon DEF IsStream
  <1>3. Len(requests) \in Nat /\ DOMAIN requests = 1 .. Len(requests)
    BY <1>2, LenProperties
  <1> QED
    BY <1>1, <1>3, Zenon DEF IsStream, End

(* A pass over a whole request does not end before its headers do.         *)
LEMMA NotAgain ==
  ASSUME IInv, Plain, Exact
  PROVE  ~HeadersAgain
  <1> SUFFICES ASSUME HeadersAgain
               PROVE  FALSE
    OBVIOUS
  <1>1. AtTrack /\ hState_ # "END_LF" /\ scan.i > Len(inBuffer_)
    BY DEF HeadersAgain, AtTrack
  <1> DEFINE ci == scan.i
  <1>2. /\ stream \in Streams /\ n \in Nat /\ n < Len(requests)
        /\ From \in Nat /\ Base \in Nat /\ HeadEnd \in Nat /\ ci \in Nat /\ Hs \in Nat \ {0}
        /\ HeadEnd = From + 6 * Hs + 6 /\ pos = HeadEnd
        /\ Base + Len(inBuffer_) = pos /\ Len(inBuffer_) \in Nat
    BY <1>1, Tracking
  <1>3. OnTrack /\ hState_ \in HStates
    BY <1>1, Tracking DEF IInv, ControlInv
  <1>4. Base + ci > HeadEnd
    <2>1. ci > Len(inBuffer_)
      BY <1>1
    <2> HIDE DEF ci
    <2> QED
      BY <2>1, <1>2
  <1>5. CASE hState_ = "START"
    <2>1. Base + ci = From + 4 \/ Base + ci = From + 5
      BY <1>3, <1>5 DEF OnTrack
    <2> HIDE DEF ci
    <2> QED
      BY <2>1, <1>2, <1>4
  <1>6. CASE hState_ # "START"
    <2>1. PICK h \in 1 .. Hs : Track(h)
      BY <1>3, <1>6 DEF OnTrack
    <2>2. \/ Base + ci \in {NameAt(h) + 1, NameAt(h) + 2, NameAt(h) + 3,
                            NameAt(h) + 4, NameAt(h) + 5}
          \/ Base + ci = LfAt(h) + 1
          \/ Base + ci = HeadEnd
      BY <2>1, <1>1, <1>3, <1>6 DEF Track, HStates
    <2>3. /\ h \in Nat /\ h <= Hs
          /\ NameAt(h) = From + 6 * h - 1 /\ LfAt(h) = From + 6 * h + 4
      BY <1>2 DEF NameAt, LfAt
    <2> HIDE DEF ci
    <2> QED
      BY <2>2, <2>3, <1>2, <1>4
  <1> QED
    BY <1>5, <1>6

(* Behind its headers nothing is left, and it has no body.                 *)
LEMMA ExactEnd ==
  ASSUME IInv, Plain, Exact, HeadersEnd
  PROVE  Exact'
  <1>1. /\ AtTrack /\ hState_ = "END_LF"
        /\ UNCHANGED <<stream, delivery, pos, hState_, method_, headers_, scan, answers>>
        /\ inBuffer_' = SubSeq(inBuffer_, scan.i + 1, Len(inBuffer_))
        /\ state_' = IF method_ = "POST" THEN "BODY" ELSE "ANALYSIS"
        /\ pc' = "pass" /\ pc = "scan"
    BY DEF HeadersEnd, textVars, AtTrack
  <1>2. /\ stream \in Streams /\ n \in Nat /\ n < Len(requests)
        /\ Current.method # "POST" /\ HeadEnd \in Nat /\ Base \in Nat
        /\ pos = HeadEnd /\ OnTrack /\ Upto = HeadEnd
        /\ Base + Len(inBuffer_) = pos /\ Len(inBuffer_) \in Nat
    BY <1>1, Tracking
  <1>3. Stored(Hs) /\ Base + scan.i = HeadEnd + 1
    BY <1>1, <1>2 DEF OnTrack, Track
  <1>4. scan.i + 1 \in 1 .. Len(inBuffer_) + 2 /\ scan.i + 1 > Len(inBuffer_)
    <2> DEFINE ci == scan.i
    <2>1. ci \in Nat \ {0} /\ Base + ci = HeadEnd + 1
      BY <1>1, <1>3, Tracking
    <2> HIDE DEF ci
    <2>2. ci + 1 \in 1 .. Len(inBuffer_) + 2 /\ ci + 1 > Len(inBuffer_)
      BY <2>1, <1>2
    <2> QED
      BY <2>2 DEF ci
  <1>5. inBuffer_' = <<>>
    BY <1>1, <1>4, Dropped DEF IInv
  <1>6. state_' = "ANALYSIS"
    <2>1. state_ = "HEADERS" /\ method_ = Current.method
      BY <1>1 DEF IInv, ControlInv, AnswersInv
    <2> QED
      BY <2>1, <1>1, <1>2
  <1>7. /\ n' = n /\ requests' = requests /\ Upto' = Upto /\ Current' = Current
        /\ Hs' = Hs
    BY <1>1, SameRequest
  <1>8. Stored(Hs)'
    BY <1>1, <1>3, <1>7, Zenon DEF Stored, Name, Value
  <1>9. \A m \in 1 .. n' : Matches(answers'[m], requests'[m])
    BY <1>1, <1>7, Zenon DEF Exact
  <1> QED
    BY <1>1, <1>2, <1>5, <1>6, <1>7, <1>8, <1>9 DEF Exact

(* A read that ends behind the next request has the whole of it.           *)
LEMMA ExactRead ==
  ASSUME IInv, Plain, Exact, Read
  PROVE  Exact'
  <1>1. /\ pc = "idle" /\ state_ = "URI" /\ inBuffer_ = <<>> /\ pos = From
        /\ pc' = "pass" /\ UNCHANGED <<stream, delivery, state_, answers>>
    BY DEF Read, Exact, parseVars
  <1>2. /\ BufferInv' /\ Base' = Base /\ pos' > pos
    BY <1>1, Grown DEF IInv
  <1>3. PICK p \in pos .. Len(stream.text) :
           (IF p = pos THEN pc = "again" ELSE ReadMayEnd(p)) /\ pos' = p
    BY Zenon DEF Read
  <1>4. ReadMayEnd(pos')
    BY <1>1, <1>3
  <1>5. PICK k \in DOMAIN requests : End(k - 1) <= pos /\ pos' = End(k)
    BY <1>4 DEF ReadMayEnd, Plain
  <1>6. stream \in Streams /\ n \in 0 .. Len(requests)
    BY DEF IInv, BufferInv, AnswersInv
  <1>7. /\ Len(requests) \in Nat /\ DOMAIN requests = 1 .. Len(requests)
        /\ \A i, j \in 0 .. Len(requests) : i < j => End(i) < End(j)
        /\ \A i \in 0 .. Len(requests) : End(i) \in Nat
    BY <1>6, EndsGrow
  <1>8. k = n + 1
    <2>1. k \in 0 .. Len(requests) /\ k - 1 \in 0 .. Len(requests) /\ k \in Nat /\ n \in Nat
      BY <1>5, <1>6, <1>7
    <2>2. End(n) = pos /\ pos' = End(k) /\ End(k) > End(n) /\ End(k - 1) <= End(n)
      BY <1>1, <1>2, <1>5 DEF From
    <2>3. ~(k < n) /\ k # n
      BY <2>1, <2>2, <1>6, <1>7
    <2>4. ~(n < k - 1)
      BY <2>1, <2>2, <1>6, <1>7
    <2> QED
      BY <2>1, <2>3, <2>4
  <1>9. n < Len(requests) /\ pos' = Upto
    BY <1>5, <1>6, <1>7, <1>8 DEF Upto
  <1>10. /\ n' = n /\ requests' = requests /\ Upto' = Upto /\ From' = From
    BY <1>1, SameRequest
  <1>11. Base' = From'
    <2>1. Len(inBuffer_) = 0
      BY <1>1
    <2>2. Base + Len(inBuffer_) = pos /\ Base \in Nat
      BY Sizes DEF IInv
    <2> QED
      BY <2>1, <2>2, <1>1, <1>2, <1>10
  <1>12. \A m \in 1 .. n' : Matches(answers'[m], requests'[m])
    BY <1>1, <1>10, Zenon DEF Exact
  <1> QED
    BY <1>1, <1>9, <1>10, <1>11, <1>12 DEF Exact

(* Its request line is understood.                                         *)
LEMMA ExactUri ==
  ASSUME IInv, Plain, Exact, ParseURI
  PROVE  Exact'
  <1>1. AtUri /\ Base = From /\ n < Len(requests) /\ pos = Upto
    BY DEF IInv, ParseURI, AtUri, Exact
  <1>2. /\ stream \in Streams /\ n \in Nat /\ Hs \in Nat \ {0} /\ Upto = HeadEnd
        /\ From \in Nat /\ HeadEnd = From + 6 * Hs + 6
    BY <1>1, PlainRequest, Places DEF IInv
  <1>3. pos >= From + 3 /\ LineSize = 2 /\ LineRest = From + 3
    BY <1>1, <1>2 DEF LineSize, LineRest
  <1>4. From + 1 - Base = 1
    BY <1>1, <1>2
  <1>5. At(Method) = 1
    BY <1>1, <1>3, <1>4, OwnMethod
  <1>6. Len(Line.text) = 2 /\ Line.text[2] = "1.1"
    <2>1. 2 \in 1 .. LineSize
      BY <1>3
    <2>2. Len(Line.text) = LineSize /\ Line.text[2] = inBuffer_[2]
      BY <2>1, <1>1, LineEnds
    <2>3. inBuffer_[2] = "1.1"
      <3>1. Base + 2 # From /\ Base + 2 # From + 1
        BY <1>1, <1>2
      <3> QED
        BY <3>1, <2>1, <1>1, LineTokens
    <2> QED
      BY <2>2, <2>3, <1>3
  <1>7. pc' = "pass" /\ state_' = "HEADERS" /\ UNCHANGED <<stream, pos, hState_, headers_, answers>>
    <2>1. At(Method) \in 1 .. Len(Line.text) - 1 /\ Line.text[At(Method) + 1] = "1.1"
      BY <1>5, <1>6
    <2> QED
      BY <2>1 DEF ParseURI, textVars
  <1>8. Base' = From + 3
    BY <1>1, <1>3, <1>7, UriTaken
  <1>9. hState_ = "START" /\ headers_ = NoHeaders
    BY <1>1 DEF IInv, AtUri, ControlInv, AnswersInv
  <1>10. n' = n /\ requests' = requests /\ Upto' = Upto /\ From' = From
    BY <1>7, SameRequest
  <1>11. \A m \in 1 .. n' : Matches(answers'[m], requests'[m])
    BY <1>7, <1>10, Zenon DEF Exact
  <1> QED
    BY <1>1, <1>7, <1>8, <1>9, <1>10, <1>11 DEF Exact

(* Its headers are begun behind the CR of the request line.                *)
LEMMA ExactEnter ==
  ASSUME IInv, Plain, Exact, EnterHeaders
  PROVE  Exact'
  <1>1. /\ UNCHANGED <<stream, pos, inBuffer_, state_, hState_, headers_, answers>>
        /\ pc = "pass" /\ state_ = "HEADERS" /\ pc' = "scan" /\ scan' = FirstScan
    BY DEF EnterHeaders, textVars
  <1>2. /\ Base = From + 3 /\ hState_ = "START" /\ headers_ = NoHeaders
        /\ n < Len(requests) /\ pos = Upto
    BY <1>1 DEF Exact
  <1>3. /\ n' = n /\ requests' = requests /\ Upto' = Upto /\ From' = From
        /\ Base' = Base
    BY <1>1, SameRequest DEF Base
  <1>4. From \in Nat
    BY Ends DEF IInv, BufferInv, AnswersInv
  <1>5. Base' + scan'.i = From' + 4
    <2>1. scan'.i = 1
      BY <1>1 DEF FirstScan
    <2> QED
      BY <2>1, <1>2, <1>3, <1>4
  <1>6. OnTrack'
    BY <1>1, <1>2, <1>3, <1>5 DEF OnTrack
  <1>7. \A m \in 1 .. n' : Matches(answers'[m], requests'[m])
    BY <1>1, <1>3, Zenon DEF Exact
  <1> QED
    BY <1>1, <1>2, <1>3, <1>6, <1>7 DEF Exact

(* The headers that were stored are those the answer is to have.           *)
LEMMA StoredMatches ==
  ASSUME stream \in Streams, n \in Nat, n < Len(requests), Stored(Hs),
         NEW a, a = [method |-> Current.method, headers |-> headers_]
  PROVE  Matches(a, Current)
  <1> DEFINE hs == Current.headers
  <1>1. DOMAIN hs = 1 .. Hs
    BY Names
  <1>2. a.method = Current.method /\ a.headers = headers_
    OBVIOUS
  <1>3. DOMAIN a.headers = {<<h.name>> : h \in Range(hs)}
    <2>1. DOMAIN headers_ = {Name(h) : h \in 1 .. Hs}
      BY Zenon DEF Stored
    <2>2. {Name(h) : h \in 1 .. Hs} = {<<h.name>> : h \in Range(hs)}
      BY <1>1, Zenon DEF Range, Name
    <2> QED
      BY <2>1, <2>2, <1>2
  <1>4. ASSUME NEW h \in 1 .. Hs
        PROVE  \/ \E g \in h + 1 .. Hs : hs[g].name = hs[h].name
               \/ headers_[<<hs[h].name>>] = <<hs[h].value>>
    <2>1. CASE \E g \in h + 1 .. Hs : Name(g) = Name(h)
      <3>1. PICK g \in h + 1 .. Hs : Name(g) = Name(h)
        BY <2>1
      <3>2. <<hs[g].name>>[1] = <<hs[h].name>>[1]
        BY <3>1, Zenon DEF Name
      <3>3. hs[g].name = hs[h].name
        BY <3>2
      <3> QED
        BY <3>3
    <2>2. CASE headers_[Name(h)] = Value(h)
      BY <2>2, Zenon DEF Name, Value
    <2> QED
      BY <2>1, <2>2, Zenon DEF Stored
  <1> QED
    BY <1>1, <1>2, <1>3, <1>4, Zenon DEF Matches, Hs

(* It is answered, and nothing of it is left.                              *)
LEMMA ExactAnalysis ==
  ASSUME IInv, Plain, Exact, Analysis
  PROVE  Exact'
  <1>1. /\ UNCHANGED <<stream, delivery, pos, inBuffer_>>
        /\ pc = "pass" /\ state_ = "ANALYSIS"
    BY DEF Analysis, textVars
  <1>2. /\ inBuffer_ = <<>> /\ Stored(Hs) /\ n < Len(requests) /\ pos = Upto
        /\ \A m \in 1 .. n : Matches(answers[m], requests[m])
    BY <1>1 DEF Exact
  <1>3. /\ stream \in Streams /\ n \in Nat /\ Current.method # "POST"
        /\ method_ = Current.method
    BY <1>1, <1>2, PlainRequest DEF IInv, AnswersInv
  <1> DEFINE a == [method |-> method_, headers |-> headers_]
  <1>4. /\ answers' = Append(answers, a) /\ state_' = "URI" /\ pc' = "idle"
    BY <1>1, <1>2, <1>3 DEF Analysis, Reset
  <1>5. Matches(a, requests[n + 1])
    <2>1. Current = requests[n + 1]
      BY DEF Current, n
    <2> QED
      BY <2>1, <1>2, <1>3, StoredMatches, Zenon
  <1> HIDE DEF a
  <1>6. /\ n' = n + 1 /\ \A m \in 1 .. n : answers'[m] = answers[m]
        /\ answers'[n + 1] = a
    BY <1>4, Growth DEF n, IInv, AnswersInv
  <1>7. requests' = requests /\ From' = Upto
    BY <1>1, <1>6 DEF requests, From, Upto, End
  <1>8. ASSUME NEW m \in 1 .. n'
        PROVE  Matches(answers'[m], requests'[m])
    <2>1. m \in 1 .. n \/ m = n + 1
      BY <1>3, <1>6
    <2> QED
      BY <2>1, <1>2, <1>5, <1>6, <1>7, Zenon
  <1> QED
    BY <1>1, <1>2, <1>4, <1>7, <1>8 DEF Exact

(* Nothing has been answered when nothing has been read.                   *)
LEMMA ExactInit ==
  ASSUME Init, WellFormed
  PROVE  ExactInv
  <1>1. IInv /\ pc = "idle" /\ state_ = "URI" /\ inBuffer_ = <<>> /\ pos = 0
          /\ stream \in Streams
    BY InitInv DEF Init, WellFormed
  <1>2. n = 0
    <2>1. Len(<<>>) = 0
      OBVIOUS
    <2> QED
      BY <2>1, Zenon DEF Init, n
  <1>3. From = 0
    BY <1>1, <1>2, Ends DEF IInv, AnswersInv
  <1>4. 1 .. n = {}
    BY <1>2
  <1> QED
    BY <1>1, <1>3, <1>4 DEF ExactInv, Exact

(* Every step of a whole request is the one its text calls for.            *)
LEMMA ExactNext ==
  ASSUME IInv, ExactInv, [Next]_vars
  PROVE  ExactInv'
  <1> SUFFICES ASSUME Plain, Exact
               PROVE  Exact'
    BY StreamKept DEF ExactInv, Plain, WellFormed, requests
  <1>1. CASE Read
    BY <1>1, ExactRead
  <1>2. CASE ParseURI
    BY <1>2, ExactUri
  <1>3. CASE EnterHeaders
    BY <1>3, ExactEnter
  <1>4. CASE HeaderStep
    <2>1. pc = "scan"
      BY <1>4 DEF HeaderStep, HStart, HKey, HColon, HSpace, HValue, HCr, HLf, HEndCr, In
    <2> QED
      BY <2>1, <1>4, TrackStep DEF AtTrack
  <1>5. CASE HeadersEnd
    BY <1>5, ExactEnd
  <1>6. CASE HeadersAgain
    BY <1>6, NotAgain
  <1>7. CASE RecvBody
    BY <1>7, BodyOutcome DEF Exact
  <1>8. CASE Analysis
    BY <1>8, ExactAnalysis
  <1>9. CASE UNCHANGED vars
    <2>1. UNCHANGED <<stream, pos, inBuffer_, state_, hState_, headers_, scan, pc, answers>>
      BY <1>9 DEF vars, textVars, parseVars
    <2>2. /\ n' = n /\ requests' = requests /\ From' = From /\ Upto' = Upto
          /\ Base' = Base /\ Current' = Current /\ Hs' = Hs /\ HeadEnd' = HeadEnd
          /\ \A h : NameAt(h)' = NameAt(h) /\ LfAt(h)' = LfAt(h)
      BY <2>1, SameRequest DEF Base
    <2>3. \A m : Stored(m)' = Stored(m)
      BY <2>1, <2>2, Zenon DEF Stored, Name, Value
    <2>4. \A h : Track(h)' = Track(h)
      BY <2>1, <2>2, <2>3, Zenon DEF Track, KeySeen
    <2>5. OnTrack' = OnTrack
      BY <2>1, <2>2, <2>4, Zenon DEF OnTrack
    <2> QED
      BY <2>1, <2>2, <2>3, <2>5, Zenon DEF Exact
  <1> QED
    BY <1>1, <1>2, <1>3, <1>4, <1>5, <1>6, <1>7, <1>8, <1>9 DEF Next, HandleRead

(* Requests that are read one at a time are answered as they were sent,    *)
(* each with its own headers and none of those of the one before it.       *)
THEOREM WholeRequestsAreUnderstood == SafeSpec => []Understood
  <1>1. ASSUME WellFormed => IInv /\ ExactInv
        PROVE  Understood
    <2> SUFFICES ASSUME Plain, pc \in {"idle", "closed"}
                 PROVE  /\ Len(answers) = Complete
                        /\ \A m \in DOMAIN answers : Matches(answers[m], requests[m])
      BY Zenon DEF Understood, Answered, Plain
    <2>0. IInv /\ ExactInv
      BY <1>1 DEF Plain
    <2>1. pos = From /\ \A m \in 1 .. n : Matches(answers[m], requests[m])
      BY <2>0 DEF ExactInv, Exact
    <2>2. DOMAIN answers = 1 .. n
      BY <2>0, LenProperties DEF IInv, AnswersInv, IsSequence, n
    <2>3. /\ Len(requests) \in Nat /\ DOMAIN requests = 1 .. Len(requests)
          /\ \A i, j \in 0 .. Len(requests) : i < j => End(i) < End(j)
          /\ \A i \in 0 .. Len(requests) : End(i) \in Nat
      BY <2>0, EndsGrow DEF IInv, BufferInv
    <2>4. n \in 0 .. Len(requests) /\ n \in Nat
      BY <2>0, <2>3 DEF IInv, AnswersInv
    <2>5. \A k \in 1 .. Len(requests) : End(k) <= End(n) <=> k <= n
      <3> TAKE k \in 1 .. Len(requests)
      <3>1. k \in 0 .. Len(requests) /\ k \in Nat
        BY <2>3
      <3>2. End(k) \in Nat /\ End(n) \in Nat
        BY <3>1, <2>3, <2>4
      <3>3. k < n => End(k) < End(n)
        BY <3>1, <2>3, <2>4
      <3>4. n < k => End(n) < End(k)
        BY <3>1, <2>3, <2>4
      <3>5. k = n => End(k) = End(n)
        OBVIOUS
      <3> QED
        BY <3>1, <3>2, <3>3, <3>4, <3>5, <2>4
    <2>6. {k \in DOMAIN requests : End(k) <= pos} = 1 .. n
      <3>1. \A k : k \in 1 .. n <=> k \in 1 .. Len(requests) /\ k <= n
        BY <2>3, <2>4
      <3> QED
        BY <3>1, <2>1, <2>3, <2>5 DEF From
    <2>7. Cardinality(1 .. n) = n
      BY <2>4, FS_Interval
    <2> QED
      BY <2>1, <2>2, <2>6, <2>7 DEF Complete, n
  <1>2. Init => (WellFormed => IInv /\ ExactInv)
    BY InitInv, ExactInit
  <1>3. (WellFormed => IInv /\ ExactInv) /\ [Next]_vars
          => (WellFormed => IInv /\ ExactInv)'
    BY NextInv, ExactNext, StreamKept
  <1> QED
    BY <1>1, <1>2, <1>3, PTL DEF SafeSpec

-----------------------------------------------------------------------------
(* A call of handleRead, whatever the client sends, and what Connection    *)
(* expects of one.                                                         *)

\* How far a call has come from where it began; only a POST has a body to
\* wait for; and headers that are complete are taken out of the buffer, which
\* is not empty.
CallInv ==
    /\ entry \in [state_ : {"URI", "HEADERS", "BODY"}, inBuffer_ : Nat]
    /\ pc \in {"pass", "scan"} =>
         /\ Len(inBuffer_) <= entry.inBuffer_
         /\ state_ = "URI" => entry.state_ = "URI"
         /\ state_ = "HEADERS" => entry.state_ # "BODY"
         /\ entry.state_ = "BODY" => method_ = "POST"
         /\ state_ = "ANALYSIS" /\ method_ # "POST" => Len(inBuffer_) < entry.inBuffer_
    /\ state_ = "BODY" => method_ = "POST"
    /\ hState_ = "END_LF" /\ state_ \in {"URI", "HEADERS"} =>
         pc = "closed" \/ (pc = "scan" /\ Len(inBuffer_) > 0)

AnyInv == Held /\ ControlInv /\ ScanInv /\ IsSequence(answers) /\ CallInv

(* The sizes of what is held.                                              *)
LEMMA HeldSizes ==
  ASSUME Held
  PROVE  /\ Len(inBuffer_) \in Nat /\ Len(stream.text) \in Nat
         /\ pos \in Nat /\ Len(inBuffer_) <= pos /\ pos <= Len(stream.text)
  <1>1. Len(inBuffer_) \in Nat /\ Len(stream.text) \in Nat
    BY LenProperties DEF Held
  <1> QED
    BY <1>1 DEF Held

(* What is dropped from the buffer in front of a place k.                  *)
LEMMA Shorter ==
  ASSUME Held, NEW k \in 1 .. Len(inBuffer_) + 2,
         inBuffer_' = SubSeq(inBuffer_, k, Len(inBuffer_)),
         UNCHANGED <<stream, delivery, pos>>
  PROVE  /\ Held'
         /\ Len(inBuffer_') \in Nat /\ Len(inBuffer_) \in Nat
         /\ Len(inBuffer_') <= Len(inBuffer_)
         /\ k > 1 /\ Len(inBuffer_) > 0 => Len(inBuffer_') < Len(inBuffer_)
  <1>1. Len(inBuffer_) \in Nat /\ pos \in Nat /\ Len(inBuffer_) <= pos
    BY HeldSizes
  <1>2. /\ Len(inBuffer_') = IF k <= Len(inBuffer_) THEN Len(inBuffer_) + 1 - k ELSE 0
        /\ inBuffer_' \in Seq(Tokens)
    BY Rest DEF Held
  <1>3. /\ Len(inBuffer_') \in Nat /\ Len(inBuffer_') <= Len(inBuffer_)
        /\ k > 1 /\ Len(inBuffer_) > 0 => Len(inBuffer_') < Len(inBuffer_)
        /\ Len(inBuffer_') <= pos
    BY <1>1, <1>2
  <1> QED
    BY <1>1, <1>2, <1>3 DEF Held

(* The buffer is left as it is.                                            *)
LEMMA HeldKept ==
  ASSUME Held, UNCHANGED <<stream, delivery, pos, inBuffer_>>
  PROVE  Held'
  BY DEF Held

(* The types at the start.                                                 *)
LEMMA AnyInit ==
  ASSUME Init
  PROVE  AnyInv
  <1>1. /\ stream \in Streams \cup Noise /\ delivery \in Deliveries /\ pos = 0
        /\ inBuffer_ = <<>> /\ state_ = "URI" /\ hState_ = "START"
        /\ method_ = "GET" /\ scan = FirstScan
        /\ pc = "idle" /\ error_ = "no" /\ answers = <<>>
    BY DEF Init
  <1>2. stream.text \in Seq(Tokens)
    BY <1>1, StreamsAssumption, NoiseAssumption DEF IsStream
  <1>3. Len(<<>>) = 0 /\ <<>> \in Seq(Tokens) /\ IsSequence(<<>>)
    BY DEF IsSequence
  <1>4. Len(inBuffer_) = 0 /\ inBuffer_ \in Seq(Tokens) /\ IsSequence(answers)
    BY <1>1, <1>3, Zenon
  <1>5. Len(stream.text) \in Nat
    BY <1>2, LenProperties
  <1>6. Held
    BY <1>1, <1>2, <1>4, <1>5 DEF Held
  <1>7. ControlInv
    BY <1>1 DEF ControlInv, HStates, Methods
  <1>8. ScanInv
    <2>1. /\ FirstScan \in [i : Nat, key_start : Nat, key_end : Nat, value_start : Nat,
                            value_end : Nat, begin : Nat]
          /\ FirstScan.i = 1 /\ FirstScan.begin = 1
      BY DEF FirstScan
    <2> QED
      BY <2>1, <1>1, <1>5 DEF ScanInv
  <1>9. CallInv
    BY DEF Init, CallInv
  <1> QED
    BY <1>4, <1>6, <1>7, <1>8, <1>9 DEF AnyInv

(* A call begins with what the last one left, and what has been read.      *)
LEMMA CallRead ==
  ASSUME AnyInv, Read
  PROVE  AnyInv'
  <1>1. /\ Len(inBuffer_) \in Nat /\ pos \in Nat /\ Len(stream.text) \in Nat
        /\ Len(inBuffer_) <= pos /\ pos <= Len(stream.text)
        /\ inBuffer_ \in Seq(Tokens) /\ stream.text \in Seq(Tokens)
    BY HeldSizes DEF AnyInv, Held
  <1>2. PICK p \in pos .. Len(stream.text) :
           pos' = p /\ inBuffer_' = inBuffer_ \o SubSeq(stream.text, pos + 1, p)
    BY Zenon DEF Read
  <1> DEFINE more == SubSeq(stream.text, pos + 1, p)
  <1>3. more \in Seq(Tokens) /\ Len(more) = p - pos
    <2>1. \A i \in pos + 1 .. p : stream.text[i] \in Tokens
      BY <1>1, <1>2, ElementOfSeq
    <2>2. pos + 1 \in Int /\ p \in Int
      BY <1>1
    <2>3. /\ more \in Seq(Tokens)
          /\ Len(more) = IF pos + 1 <= p THEN p - (pos + 1) + 1 ELSE 0
      BY <2>1, <2>2, SubSeqProperties
    <2>4. Len(more) = p - pos
      BY <2>3, <1>1
    <2> QED
      BY <2>3, <2>4
  <1>4. inBuffer_' \in Seq(Tokens) /\ Len(inBuffer_') = Len(inBuffer_) + (p - pos)
    <2>1. inBuffer_' = inBuffer_ \o more
      BY <1>2
    <2> HIDE DEF more
    <2>2. /\ inBuffer_ \o more \in Seq(Tokens)
          /\ Len(inBuffer_ \o more) = Len(inBuffer_) + Len(more)
      BY <1>1, <1>3, ConcatProperties
    <2> QED
      BY <2>1, <2>2, <1>3, Zenon
  <1>5. /\ pos' \in 0 .. Len(stream.text) /\ Len(inBuffer_') <= pos'
        /\ Len(inBuffer_') \in Nat
    BY <1>1, <1>2, <1>4
  <1>6. /\ pc \in {"idle", "again"} /\ pc' = "pass"
        /\ entry' = [state_ |-> state_, inBuffer_ |-> Len(inBuffer_')]
        /\ UNCHANGED <<stream, delivery, state_, hState_, method_, scan, answers>>
    BY DEF Read, parseVars
  <1>7. Held'
    BY <1>4, <1>5, <1>6 DEF AnyInv, Held
  <1>8. ControlInv'
    BY ControlStep DEF AnyInv, Next
  <1>9. ScanInv' /\ IsSequence(answers)'
    BY <1>6, ScanKept DEF AnyInv, IsSequence
  <1>10. state_ \in {"URI", "HEADERS", "BODY"}
    BY <1>6 DEF AnyInv, ControlInv
  <1>11. CallInv'
    BY <1>5, <1>6, <1>10 DEF AnyInv, CallInv
  <1> QED
    BY <1>7, <1>8, <1>9, <1>11 DEF AnyInv

(* parseURI takes the first line, or nothing, from the buffer.             *)
LEMMA CallUri ==
  ASSUME AnyInv, ParseURI
  PROVE  AnyInv'
  <1>1. /\ pc = "pass" /\ state_ = "URI"
        /\ UNCHANGED <<stream, delivery, pos, entry, hState_, scan, answers>>
        /\ \/ pc' = "closed" /\ state_' = state_ /\ inBuffer_' = <<>>
           \/ pc' = "pass" /\ state_' = "HEADERS" /\ inBuffer_' = Line.rest
    BY DEF ParseURI, Fail, textVars
  <1>2. Held /\ Len(inBuffer_) \in Nat /\ pos \in Nat /\ Len(inBuffer_) <= pos
    BY HeldSizes DEF AnyInv
  <1>3. Held' /\ Len(inBuffer_') \in Nat /\ Len(inBuffer_') <= Len(inBuffer_)
    <2>1. CASE inBuffer_' = <<>>
      <3>1. inBuffer_' \in Seq(Tokens) /\ Len(inBuffer_') = 0
        BY <2>1, EmptySeq
      <3> QED
        BY <3>1, <1>1, <1>2 DEF Held
    <2>2. CASE inBuffer_' = Line.rest
      <3> DEFINE e == Find(inBuffer_, "CR")
      <3>1. e \in 0 .. Len(inBuffer_)
        BY <1>2, FindPlace DEF Held
      <3>2. inBuffer_' = IF e = 0 THEN inBuffer_
                         ELSE SubSeq(inBuffer_, e + 1, Len(inBuffer_))
        BY <2>2, Zenon DEF Line, Find
      <3> HIDE DEF e
      <3>3. CASE e = 0
        BY <3>2, <3>3, <1>1, <1>2, HeldKept
      <3>4. CASE e # 0
        <4>1. e + 1 \in 1 .. Len(inBuffer_) + 2
          BY <3>1, <1>2
        <4> QED
          BY <4>1, <3>2, <3>4, <1>1, <1>2, Shorter
      <3> QED
        BY <3>3, <3>4
    <2> QED
      BY <2>1, <2>2, <1>1
  <1>4. ControlInv'
    BY ControlStep DEF AnyInv, Next, HandleRead
  <1>5. ScanInv' /\ IsSequence(answers)'
    BY <1>1, ScanKept DEF AnyInv, IsSequence
  <1>6. hState_ = "START"
    BY <1>1 DEF AnyInv, ControlInv
  <1>7. CallInv'
    BY <1>1, <1>2, <1>3, <1>6 DEF AnyInv, CallInv
  <1> QED
    BY <1>3, <1>4, <1>5, <1>7 DEF AnyInv

(* A pass of parseHeaders begins at the beginning of the buffer.           *)
LEMMA CallEnter ==
  ASSUME AnyInv, EnterHeaders
  PROVE  AnyInv'
  <1>1. /\ UNCHANGED <<stream, delivery, pos, entry, inBuffer_, state_, hState_, method_,
                       answers>>
        /\ pc = "pass" /\ state_ = "HEADERS" /\ pc' = "scan" /\ scan' = FirstScan
    BY DEF EnterHeaders, textVars
  <1>2. Held' /\ Len(stream.text) \in Nat /\ Len(inBuffer_) \in Nat
    BY <1>1, HeldSizes, HeldKept DEF AnyInv
  <1>3. ScanInv'
    <2>1. /\ FirstScan \in [i : Nat, key_start : Nat, key_end : Nat, value_start : Nat,
                            value_end : Nat, begin : Nat]
          /\ FirstScan.i = 1 /\ FirstScan.begin = 1
      BY DEF FirstScan
    <2>2. 1 \in 1 .. Len(stream.text) + 1 /\ 1 <= Len(inBuffer_) + 1 /\ 1 \in 1 .. 1
      BY <1>2
    <2> QED
      BY <2>1, <2>2, <1>1 DEF ScanInv
  <1>4. ControlInv'
    BY ControlStep DEF AnyInv, Next, HandleRead
  <1>5. CallInv' /\ IsSequence(answers)'
    BY <1>1 DEF AnyInv, CallInv, IsSequence
  <1> QED
    BY <1>2, <1>3, <1>4, <1>5 DEF AnyInv

(* parseHeaders reaches its end at a token of the buffer.                  *)
LEMMA CallHeader ==
  ASSUME AnyInv, HeaderStep
  PROVE  AnyInv'
  <1>1. /\ pc = "scan" /\ pc' \in {"scan", "closed"}
        /\ UNCHANGED <<stream, delivery, pos, entry, inBuffer_, state_, method_, answers>>
        /\ scan.i <= Len(inBuffer_)
    BY DEF HeaderStep, HStart, HKey, HColon, HSpace, HValue, HCr, HLf, HEndCr,
           In, Go, HeaderError, Fail, textVars
  <1>2. Held' /\ Len(inBuffer_) \in Nat
    BY <1>1, HeldSizes, HeldKept DEF AnyInv
  <1>3. ScanInv'
    BY HeaderStepScan DEF AnyInv
  <1>4. ControlInv'
    BY ControlStep DEF AnyInv, Next, HandleRead
  <1>5. Len(inBuffer_) > 0
    <2>1. scan.i \in Nat /\ scan.i >= 1
      BY HeldSizes DEF AnyInv, ScanInv
    <2> QED
      BY <2>1, <1>1, <1>2
  <1>6. CallInv' /\ IsSequence(answers)'
    BY <1>1, <1>5 DEF AnyInv, CallInv, IsSequence
  <1> QED
    BY <1>2, <1>3, <1>4, <1>6 DEF AnyInv

(* Where parseHeaders is in the buffer.                                    *)
LEMMA ScanPlace ==
  ASSUME Held, ScanInv, pc = "scan"
  PROVE  /\ scan.i + 1 \in 1 .. Len(inBuffer_) + 2 /\ scan.i + 1 > 1
         /\ scan.begin \in 1 .. Len(inBuffer_) + 2
  <1>1. Len(inBuffer_) \in Nat /\ Len(stream.text) \in Nat
    BY HeldSizes
  <1>2. /\ scan.i \in Nat /\ scan.i >= 1 /\ scan.i <= Len(inBuffer_) + 1
        /\ scan.begin \in Nat /\ scan.begin >= 1 /\ scan.begin <= scan.i
    BY <1>1 DEF ScanInv
  <1> QED
    BY <1>1, <1>2

(* The end of the headers leaves the buffer with them.                     *)
LEMMA CallEnd ==
  ASSUME AnyInv, HeadersEnd
  PROVE  AnyInv'
  <1>1. /\ pc = "scan" /\ hState_ = "END_LF" /\ pc' = "pass"
        /\ UNCHANGED <<stream, delivery, pos, entry, hState_, method_, scan, answers>>
        /\ inBuffer_' = SubSeq(inBuffer_, scan.i + 1, Len(inBuffer_))
        /\ state_' = IF method_ = "POST" THEN "BODY" ELSE "ANALYSIS"
    BY DEF HeadersEnd, textVars
  <1>2. state_ = "HEADERS"
    BY <1>1 DEF AnyInv, ControlInv
  <1>3. Len(inBuffer_) > 0 /\ Len(inBuffer_) <= entry.inBuffer_ /\ entry.inBuffer_ \in Nat
    BY <1>1, <1>2 DEF AnyInv, CallInv
  <1>4. /\ Held' /\ Len(inBuffer_') \in Nat /\ Len(inBuffer_) \in Nat
        /\ Len(inBuffer_') < Len(inBuffer_)
    BY <1>1, <1>3, ScanPlace, Shorter DEF AnyInv
  <1>5. ControlInv'
    BY ControlStep DEF AnyInv, Next, HandleRead
  <1>6. ScanInv' /\ IsSequence(answers)'
    BY <1>1, ScanKept DEF AnyInv, IsSequence
  <1>7. Len(inBuffer_') <= entry.inBuffer_ /\ Len(inBuffer_') < entry.inBuffer_
    BY <1>3, <1>4
  <1>8. CallInv'
    BY <1>1, <1>2, <1>7 DEF AnyInv, CallInv
  <1> QED
    BY <1>4, <1>5, <1>6, <1>8 DEF AnyInv

(* The rest of a header that is not complete is kept.                      *)
LEMMA CallAgain ==
  ASSUME AnyInv, HeadersAgain
  PROVE  AnyInv'
  <1>1. /\ pc = "scan" /\ hState_ # "END_LF" /\ pc' = "idle"
        /\ UNCHANGED <<stream, delivery, pos, entry, state_, hState_, method_, scan,
                       answers>>
        /\ inBuffer_' = SubSeq(inBuffer_, scan.begin, Len(inBuffer_))
    BY DEF HeadersAgain, textVars, parseVars
  <1>2. Held'
    BY <1>1, ScanPlace, Shorter DEF AnyInv
  <1>3. ControlInv'
    BY ControlStep DEF AnyInv, Next, HandleRead
  <1>4. ScanInv' /\ IsSequence(answers)'
    BY <1>1, ScanKept DEF AnyInv, IsSequence
  <1>5. CallInv'
    BY <1>1 DEF AnyInv, CallInv
  <1> QED
    BY <1>2, <1>3, <1>4, <1>5 DEF AnyInv

(* The wait for a body and the answer take nothing from the buffer.        *)
LEMMA CallBody ==
  ASSUME AnyInv, RecvBody \/ Analysis
  PROVE  AnyInv'
  <1>1. /\ pc = "pass" /\ pc' # "scan"
        /\ UNCHANGED <<stream, delivery, pos, entry, inBuffer_, method_, scan>>
    BY BodyOutcome DEF Analysis, Reset, Fail, textVars
  <1>2. Held' /\ ScanInv'
    BY <1>1, HeldKept, ScanKept DEF AnyInv
  <1>3. ControlInv'
    BY ControlStep DEF AnyInv, Next, HandleRead
  <1>4. CASE RecvBody
    <2>1. /\ state_ = "BODY" /\ UNCHANGED <<hState_, answers>>
          /\ \/ pc' \in {"closed", "idle"} /\ state_' = state_
             \/ pc' = "pass" /\ state_' = "ANALYSIS"
      BY <1>4, BodyOutcome
    <2>2. CallInv' /\ IsSequence(answers)'
      BY <1>1, <2>1 DEF AnyInv, CallInv, IsSequence
    <2> QED
      BY <2>2, <1>2, <1>3 DEF AnyInv
  <1>5. CASE Analysis
    <2>1. \/ pc' = "closed" /\ UNCHANGED <<state_, hState_, answers>>
          \/ /\ pc' \in {"idle", "again"} /\ state_' = "URI" /\ hState_' = "START"
             /\ answers' = Append(answers, [method |-> method_, headers |-> headers_])
      BY <1>5 DEF Analysis, Reset, Fail
    <2>2. state_ = "ANALYSIS"
      BY <1>5 DEF Analysis
    <2>3. IsSequence(answers)'
      BY <2>1, Growth DEF AnyInv, IsSequence
    <2>4. CallInv'
      BY <1>1, <2>1, <2>2 DEF AnyInv, CallInv
    <2> QED
      BY <2>3, <2>4, <1>2, <1>3 DEF AnyInv
  <1> QED
    BY <1>4, <1>5

(* Every step keeps the types, whatever the client sends.                  *)
LEMMA AnyNext ==
  ASSUME AnyInv, [Next]_vars
  PROVE  AnyInv'
  <1>1. CASE Read
    BY <1>1, CallRead
  <1>2. CASE ParseURI
    BY <1>2, CallUri
  <1>3. CASE EnterHeaders
    BY <1>3, CallEnter
  <1>4. CASE HeaderStep
    BY <1>4, CallHeader
  <1>5. CASE HeadersEnd
    BY <1>5, CallEnd
  <1>6. CASE HeadersAgain
    BY <1>6, CallAgain
  <1>7. CASE RecvBody \/ Analysis
    BY <1>7, CallBody
  <1>8. CASE UNCHANGED vars
    BY <1>8 DEF vars, textVars, parseVars, AnyInv, Held, ControlInv, ScanInv, IsSequence,
                CallInv
  <1> QED
    BY <1>1, <1>2, <1>3, <1>4, <1>5, <1>6, <1>7, <1>8 DEF Next, HandleRead

(* The types, whatever the client sends; what the parser holds has been    *)
(* read.                                                                   *)
THEOREM TypeCorrect == SafeSpec => []TypeOK
  <1>1. AnyInv => TypeOK
    BY DEF AnyInv, Held, ControlInv, ScanInv, TypeOK
  <1> QED
    BY <1>1, AnyInit, AnyNext, PTL DEF SafeSpec

(* The call comes back with an error, to wait, or with an answer.          *)
LEMMA Outcomes ==
  ASSUME AnyInv, Next,
         pc \in {"pass", "scan"}, pc' \in {"idle", "again", "closed"}
  PROVE  \/ error_' # "no"
         \/ /\ error_' = "no" /\ answers' = answers
            /\ Len(inBuffer_') \in 0 .. entry.inBuffer_
            /\ state_' = "BODY" \/ (state_' = "HEADERS" /\ entry.state_ # "BODY")
         \/ /\ error_' = "no" /\ answers' # answers
            /\ entry.state_ # "BODY"
            /\ Len(inBuffer_') \in 0 .. entry.inBuffer_ - 1
  <1>1. error_ = "no" /\ Len(inBuffer_) \in Nat
    BY HeldSizes DEF AnyInv, ControlInv
  <1>2. CASE ParseURI \/ HeaderStep
    <2>1. error_' = "400"
      BY <1>2 DEF ParseURI, Fail, HeaderStep, HStart, HKey, HColon, HSpace, HValue, HCr,
                  HLf, HEndCr, In, Go, HeaderError
    <2> QED
      BY <2>1
  <1>3. CASE HeadersAgain
    <2>1. /\ pc = "scan" /\ UNCHANGED <<error_, answers, state_>>
          /\ inBuffer_' = SubSeq(inBuffer_, scan.begin, Len(inBuffer_))
      BY <1>3 DEF HeadersAgain, textVars, parseVars
    <2>2. state_ = "HEADERS"
      BY <2>1 DEF AnyInv, ControlInv
    <2>3. Len(inBuffer_') \in Nat /\ Len(inBuffer_') <= Len(inBuffer_)
      <3>1. UNCHANGED <<stream, delivery, pos>>
        BY <1>3 DEF HeadersAgain, textVars
      <3>2. Held /\ scan.begin \in 1 .. Len(inBuffer_) + 2
        BY <2>1, ScanPlace DEF AnyInv
      <3> QED
        BY <2>1, <3>1, <3>2, Shorter
    <2>4. Len(inBuffer_') \in 0 .. entry.inBuffer_ /\ entry.state_ # "BODY"
      <3>1. CallInv
        BY DEF AnyInv
      <3>2. /\ entry.inBuffer_ \in Nat /\ Len(inBuffer_) <= entry.inBuffer_
            /\ entry.state_ # "BODY"
        BY <3>1, <2>1, <2>2 DEF CallInv
      <3> QED
        BY <3>2, <2>3, <1>1
    <2> QED
      BY <1>1, <2>1, <2>2, <2>4
  <1>4. CASE RecvBody
    <2>1. /\ UNCHANGED <<inBuffer_, answers>> /\ state_ = "BODY"
          /\ error_' # "no" \/ UNCHANGED <<error_, state_>>
      BY <1>4, BodyOutcome
    <2>2. Len(inBuffer_') \in 0 .. entry.inBuffer_
      BY <1>1, <2>1 DEF AnyInv, CallInv
    <2> QED
      BY <1>1, <2>1, <2>2
  <1>5. CASE Analysis
    <2>1. /\ state_ = "ANALYSIS" /\ UNCHANGED inBuffer_
          /\ \/ error_' # "no"
             \/ /\ method_ # "POST" /\ error_' = error_
                /\ answers' = Append(answers, [method |-> method_, headers |-> headers_])
      BY <1>5 DEF Analysis, Fail
    <2>2. CASE error_' = error_
      <3>1. method_ # "POST"
            /\ answers' = Append(answers, [method |-> method_, headers |-> headers_])
        BY <1>1, <2>1, <2>2
      <3>2. answers' # answers
        <4>1. Len(answers) \in Nat /\ Len(answers') = Len(answers) + 1
          BY <3>1, Growth DEF AnyInv
        <4> QED
          BY <4>1
      <3>3. Len(inBuffer_') \in 0 .. entry.inBuffer_ - 1 /\ entry.state_ # "BODY"
        BY <1>1, <2>1, <3>1 DEF AnyInv, CallInv
      <3> QED
        BY <1>1, <2>2, <3>2, <3>3
    <2> QED
      BY <1>1, <2>1, <2>2
  <1>6. ~Read /\ ~EnterHeaders /\ ~HeadersEnd
    BY DEF Read, EnterHeaders, HeadersEnd
  <1> QED
    BY <1>2, <1>3, <1>4, <1>5, <1>6 DEF Next, HandleRead

(* Whatever tokens a client sends, requests or not, and however they are   *)
(* cut, what one call of handleRead makes of them is an outcome that       *)
(* Connection has for the state the call began in; so what is proved of    *)
(* Connection holds of the server with its parser.                         *)
THEOREM ParserFitsConnection == SafeSpec => StaysWithinParses
  <1>1. ASSUME AnyInv, Next, error_' # "abort",
               pc \in {"pass", "scan"}, pc' \in {"idle", "again", "closed"}
        PROVE  Left \in Handler!Parses(Called)
    <2> DEFINE d == Called
    <2> SUFFICES Left \in Handler!Parses(d)
      OBVIOUS
    <2>1. /\ entry.state_ \in {"URI", "HEADERS", "BODY"}
          /\ d.state_ = entry.state_ /\ d.inBuffer_ = entry.inBuffer_
      BY <1>1 DEF AnyInv, CallInv, Called
    <2> HIDE DEF d
    <2>2. /\ Handler!Bodies(d) \subseteq Handler!Parses(d)
          /\ entry.state_ # "BODY" => Handler!HeaderParses(d) \subseteq Handler!Parses(d)
      BY <2>1, Zenon DEF Handler!Parses, Handler!URIParses, Handler!HeaderParses
    <2>3. CASE error_' # "no"
      <3>1. Left = Handler!Failed(d)
        BY <2>3 DEF Left, d
      <3> QED
        BY <3>1, <2>2, Zenon DEF Handler!Bodies
    <2>4. CASE /\ error_' = "no" /\ answers' = answers
               /\ Len(inBuffer_') \in 0 .. entry.inBuffer_
               /\ state_' = "BODY" \/ (state_' = "HEADERS" /\ entry.state_ # "BODY")
      <3>1. Left = [d EXCEPT !.state_ = state_', !.inBuffer_ = Len(inBuffer_')]
        BY <2>4 DEF Left, d
      <3>2. Left \in Handler!Waits(d, state_')
        BY <3>1, <2>1, <2>4 DEF Handler!Waits
      <3>3. CASE state_' = "BODY"
        BY <3>2, <3>3, <2>2, Zenon DEF Handler!Bodies
      <3>4. CASE state_' = "HEADERS" /\ entry.state_ # "BODY"
        BY <3>2, <3>4, <2>2, Zenon DEF Handler!HeaderParses
      <3> QED
        BY <2>4, <3>3, <3>4
    <2>5. CASE /\ error_' = "no" /\ answers' # answers
               /\ entry.state_ # "BODY"
               /\ Len(inBuffer_') \in 0 .. entry.inBuffer_ - 1
      <3>1. Left = Handler!Answered(d, Len(inBuffer_'), 1)
        BY <2>5 DEF Left, d
      <3>2. Left \in Handler!Analyses(d)
        BY <3>1, <2>1, <2>5 DEF Handler!Analyses
      <3> QED
        BY <3>2, <2>2, <2>5, Zenon DEF Handler!HeaderParses
    <2> QED
      BY <1>1, <2>3, <2>4, <2>5, Outcomes
  <1>2. SafeSpec => []AnyInv
    BY AnyInit, AnyNext, PTL DEF SafeSpec
  <1>3. AnyInv /\ [Next]_vars =>
          [pc' \in {"idle", "again", "closed"} /\ pc \in {"pass", "scan"}
             => error_' = "abort" \/ Left \in Handler!Parses(Called)]_vars
    BY <1>1
  <1> QED
    BY <1>2, <1>3, PTL DEF SafeSpec, StaysWithinParses
=============================================================================
