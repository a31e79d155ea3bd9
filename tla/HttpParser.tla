------------------------------ MODULE HttpParser ------------------------------
(***************************************************************************)
(* How HttpData::handleRead makes requests of what readn appends to        *)
(* inBuffer_: parseURI, parseHeaders with its nine states, and the wait    *)
(* for a body.  A read may end anywhere, and what the parser knows between *)
(* two reads is inBuffer_, state_ and hState_; the indices of parseHeaders *)
(* are locals.                                                             *)
(*                                                                         *)
(* The text is a sequence of tokens.  "GET", "HEAD" and "POST" stand for   *)
(* the request line up to the version, "1.1" for the version, ":", " ",    *)
(* "CR" and "LF" for themselves; a name, a value or a character of a body  *)
(* is a token.  A client sends requests, or noise: tokens in any order.    *)
(* Lengths are counted in tokens, and a value is shorter than the 255      *)
(* characters parseHeaders allows.  Positions start at 1, so the code's -1 *)
(* is 0 here, and a character before the buffer is "junk".                 *)
(***************************************************************************)
EXTENDS Integers, Sequences, SequencesExt

CONSTANTS
    Words,      \* names and values of headers, characters of bodies
    Streams,    \* what clients send that speak HTTP, as whole requests
    Noise,      \* what other clients send: any sequences of tokens
    Deliveries  \* how TCP may cut the stream: a read ends behind the next
                \* request ("whole"), behind some request ("joined"), or
                \* anywhere ("any")

Methods == {"GET", "POST", "HEAD"}
Marks == {"1.1", ":", " ", "CR", "LF"}
Tokens == Words \cup Methods \cup Marks
Requests == [method : Methods, headers : Seq([name : Words, value : Words]),
             body : Seq(Words)]

\* The words that are numbers.
Numbers == [w \in {"0", "1", "2"} |->
              IF w = "0" THEN 0 ELSE IF w = "1" THEN 1 ELSE 2]

\* Request r, from its method to the end of its body, stands behind the first
\* b tokens of text.
Stands(r, text, b) ==
    LET H == Len(r.headers)
    IN  /\ text[b + 1] = r.method /\ text[b + 2] = "1.1"
        /\ text[b + 3] = "CR" /\ text[b + 4] = "LF"
        /\ \A h \in 1 .. H :
              /\ text[b + 6 * h - 1] = r.headers[h].name
              /\ text[b + 6 * h] = ":" /\ text[b + 6 * h + 1] = " "
              /\ text[b + 6 * h + 2] = r.headers[h].value
              /\ text[b + 6 * h + 3] = "CR" /\ text[b + 6 * h + 4] = "LF"
        /\ text[b + 6 * H + 5] = "CR" /\ text[b + 6 * H + 6] = "LF"
        /\ \A i \in 1 .. Len(r.body) : text[b + 6 * H + 6 + i] = r.body[i]

\* A client's requests, their text, and how many tokens of it the first k
\* take.  Only POST has a body.
IsStream(s) ==
    LET n == Len(s.requests)
    IN  /\ s.requests \in Seq(Requests) /\ s.text \in Seq(Tokens)
        /\ s.ends \in [0 .. n -> Nat]
        /\ s.ends[0] = 0 /\ s.ends[n] = Len(s.text)
        /\ \A j, k \in 0 .. n : j < k => s.ends[j] < s.ends[k]
        /\ \A k \in 1 .. n :
              LET r == s.requests[k]
              IN  /\ s.ends[k] = s.ends[k - 1] + 6 * Len(r.headers) + 6
                                                + Len(r.body)
                  /\ Stands(r, s.text, s.ends[k - 1])
                  /\ r.method # "POST" => r.body = <<>>

ASSUME WordsAssumption == Words \cap (Methods \cup Marks \cup {"junk"}) = {}
ASSUME StreamsAssumption == \A s \in Streams : IsStream(s)
ASSUME NoiseAssumption ==
    \A s \in Noise : s.text \in Seq(Tokens) /\ s.requests = <<>>
ASSUME DeliveriesAssumption == Deliveries \subseteq {"whole", "joined", "any"}

VARIABLES
    stream,         \* what this client sends
    delivery,       \* how it is cut
    pos,            \* tokens of it that have been read
    inBuffer_, state_, hState_, method_,
    headers_,
    scan,           \* the locals of parseHeaders
    pc,             \* "idle", "again" or "pass" (handleRead), "scan"
                    \* (parseHeaders), "closed"
    entry,          \* history: state_ and the length of inBuffer_ when the
                    \* call that runs, or was the last, began to parse
    error_,         \* how the connection ends: "no", "400", "analysis", "abort"
    answers         \* method and headers of each request that was answered

textVars == <<stream, delivery, pos, entry>>
parseVars == <<state_, hState_, method_, headers_, scan>>
vars == <<textVars, inBuffer_, parseVars, pc, error_, answers>>

HStates == {"START", "KEY", "COLON", "SPACE_AFTER_COLON", "VALUE", "CR", "LF",
            "END_CR", "END_LF"}
NoHeaders == [k \in {} |-> <<>>]
FirstScan == [i |-> 1, key_start |-> 0, key_end |-> 0, value_start |-> 0,
              value_end |-> 0, begin |-> 1]

-----------------------------------------------------------------------------
(* What a client sends.                                                    *)

WellFormed == stream \in Streams
requests == stream.requests
End(k) == stream.ends[k]
Complete == Cardinality({k \in DOMAIN requests : End(k) <= pos})

Init ==
    /\ stream \in Streams \cup Noise /\ delivery \in Deliveries /\ pos = 0
    /\ entry = [state_ |-> "URI", inBuffer_ |-> 0]
    /\ inBuffer_ = <<>> /\ state_ = "URI" /\ hState_ = "START"
    /\ method_ = "GET" /\ headers_ = NoHeaders /\ scan = FirstScan
    /\ pc = "idle" /\ error_ = "no" /\ answers = <<>>

ReadMayEnd(p) ==
    CASE delivery = "any" -> TRUE
      [] delivery = "joined" -> \E k \in DOMAIN requests : p = End(k)
      [] delivery = "whole" -> \E k \in DOMAIN requests :
                                 End(k - 1) <= pos /\ p = End(k)

\* readn appends what has come, up to some point.  When handleRead has called
\* itself there may be nothing new.
Read ==
    /\ pc \in {"idle", "again"}
    /\ \E p \in pos .. Len(stream.text) :
          /\ IF p = pos THEN pc = "again" ELSE ReadMayEnd(p)
          /\ pos' = p
          /\ inBuffer_' = inBuffer_ \o SubSeq(stream.text, pos + 1, p)
    /\ entry' = [state_ |-> state_, inBuffer_ |-> Len(inBuffer_')]
    /\ pc' = "pass"
    /\ UNCHANGED <<stream, delivery, parseVars, error_, answers>>

\* An error: whoever called handleRead closes the connection.
Fail(e) ==
    /\ error_' = e
    /\ pc' = "closed"

-----------------------------------------------------------------------------
\* find('\r') is compared with 0 as an unsigned number, so a line without an
\* end is parsed as if it were whole, and stays in the buffer.
Line == LET e == SelectInSeq(inBuffer_, LAMBDA c : c = "CR")
        IN  IF e = 0 THEN [text |-> inBuffer_, rest |-> inBuffer_]
            ELSE [text |-> SubSeq(inBuffer_, 1, e - 1),
                  rest |-> SubSeq(inBuffer_, e + 1, Len(inBuffer_))]

\* Where the line names a method, GET first, then POST, then HEAD.
At(m) == SelectInSeq(Line.text, LAMBDA c : c = m)
Method == IF At("GET") > 0 THEN "GET"
          ELSE IF At("POST") > 0 THEN "POST" ELSE "HEAD"

ParseURI ==
    /\ pc = "pass" /\ state_ = "URI"
    /\ IF /\ At(Method) \in 1 .. Len(Line.text) - 1
          /\ Line.text[At(Method) + 1] = "1.1"
       THEN /\ inBuffer_' = Line.rest
            /\ method_' = Method
            /\ state_' = "HEADERS"
            /\ UNCHANGED <<pc, error_>>
       ELSE /\ inBuffer_' = <<>>
            /\ Fail("400")
            /\ UNCHANGED <<method_, state_>>
    /\ UNCHANGED <<textVars, hState_, headers_, scan, answers>>

-----------------------------------------------------------------------------
(* parseHeaders: one action for each case of its switch.                   *)

EnterHeaders ==
    /\ pc = "pass" /\ state_ = "HEADERS"
    /\ scan' = FirstScan
    /\ pc' = "scan"
    /\ UNCHANGED <<textVars, inBuffer_, state_, hState_, method_, headers_,
                   error_, answers>>

Char == inBuffer_[scan.i]

In(h) == pc = "scan" /\ hState_ = h /\ scan.i <= Len(inBuffer_)

MutantStay(h, s) ==
    /\ hState_' = h
    /\ scan' = s
    /\ UNCHANGED <<headers_, pc, error_>>

\* On to the next character, in state h.
Go(h, s) ==
    /\ hState_' = h
    /\ scan' = [s EXCEPT !.i = @ + 1]
    /\ UNCHANGED <<headers_, pc, error_>>

HeaderError == Fail("400") /\ UNCHANGED <<hState_, headers_, scan>>

HStart ==
    /\ In("START")
    /\ IF Char \in {"CR", "LF"} THEN Go("START", scan)
       ELSE Go("KEY", [scan EXCEPT !.key_start = scan.i, !.begin = scan.i])

HKey ==
    /\ In("KEY")
    /\ IF Char = ":" /\ scan.i > scan.key_start
       THEN Go("COLON", [scan EXCEPT !.key_end = scan.i])
       ELSE IF Char \in {":", "CR", "LF"} THEN HeaderError
       ELSE Go("KEY", scan)

HColon ==
    /\ In("COLON")
    /\ IF Char = " " THEN Go("SPACE_AFTER_COLON", scan) ELSE HeaderError

MutantSpaceKept ==
    /\ In("SPACE_AFTER_COLON")
    /\ Go("VALUE", [scan EXCEPT !.value_start = scan.i - 1])

HSpace ==
    /\ In("SPACE_AFTER_COLON")
    /\ Go("VALUE", [scan EXCEPT !.value_start = scan.i])

HValue ==
    /\ In("VALUE")
    /\ IF Char # "CR" THEN Go("VALUE", scan)
       ELSE IF scan.i > scan.value_start
       THEN Go("CR", [scan EXCEPT !.value_end = scan.i])
       ELSE HeaderError

Put(f, k, v) ==
    [x \in DOMAIN f \cup {k} |-> IF x = k THEN v ELSE f[x]]

\* string(str.begin() + from, str.begin() + to)
Slice(from, to) ==
    [n \in 1 .. to - from |-> IF from + n = 1 THEN "junk"
                              ELSE inBuffer_[from + n - 1]]

HCr ==
    /\ In("CR")
    /\ IF Char = "LF"
       THEN /\ headers_' = Put(headers_, Slice(scan.key_start, scan.key_end),
                                 Slice(scan.value_start, scan.value_end))
            /\ hState_' = "LF"
            /\ scan' = [scan EXCEPT !.i = @ + 1, !.begin = scan.i]
            /\ UNCHANGED <<pc, error_>>
       ELSE HeaderError

MutantEndsOnCr ==
    /\ In("LF")
    /\ IF Char = "CR" THEN Go("END_LF", scan)
       ELSE Go("KEY", [scan EXCEPT !.key_start = scan.i])

HLf ==
    /\ In("LF")
    /\ IF Char = "CR" THEN Go("END_CR", scan)
       ELSE Go("KEY", [scan EXCEPT !.key_start = scan.i])

HEndCr ==
    /\ In("END_CR")
    /\ IF Char = "LF" THEN Go("END_LF", scan) ELSE HeaderError

HeaderStep ==
    /\ HStart \/ HKey \/ HColon \/ HSpace \/ HValue \/ HCr \/ HLf \/ HEndCr
    /\ UNCHANGED <<textVars, inBuffer_, state_, method_, answers>>

MutantHeadersStay ==
    /\ pc = "scan" /\ hState_ = "END_LF"
    /\ state_' = IF method_ = "POST" THEN "BODY" ELSE "ANALYSIS"
    /\ pc' = "pass"
    /\ UNCHANGED <<textVars, inBuffer_, hState_, method_, headers_, scan, error_,
                   answers>>

\* In H_END_LF the headers are complete.  The loop takes one more character,
\* if there is one, before it ends.
HeadersEnd ==
    /\ pc = "scan" /\ hState_ = "END_LF"
    /\ inBuffer_' = SubSeq(inBuffer_, scan.i + 1, Len(inBuffer_))
    /\ state_' = IF method_ = "POST" THEN "BODY" ELSE "ANALYSIS"
    /\ pc' = "pass"
    /\ UNCHANGED <<textVars, hState_, method_, headers_, scan, error_, answers>>

\* PARSE_HEADER_AGAIN: the line that is not complete stays in the buffer.
HeadersAgain ==
    /\ pc = "scan" /\ hState_ # "END_LF" /\ scan.i > Len(inBuffer_)
    /\ inBuffer_' = SubSeq(inBuffer_, scan.begin, Len(inBuffer_))
    /\ pc' = "idle"
    /\ UNCHANGED <<textVars, parseVars, error_, answers>>

-----------------------------------------------------------------------------
CL == <<"Content-length">>

NoNumber == -1

\* What stoi makes of a value.  Of one that is not a single token, as only
\* noise has, it may make anything: nothing, a length that is there, or one
\* that is not.
Stoi(v) ==
    IF Len(v) # 1 THEN {NoNumber, 0, Len(inBuffer_) + 1}
    ELSE IF v[1] \in DOMAIN Numbers THEN {Numbers[v[1]]} ELSE {NoNumber}

\* The wait for a body of that length; nobody catches what stoi throws.
Await(length) ==
    IF length = NoNumber THEN Fail("abort") /\ UNCHANGED state_
    ELSE IF Len(inBuffer_) < length
    THEN pc' = "idle" /\ UNCHANGED <<state_, error_>>
    ELSE state_' = "ANALYSIS" /\ UNCHANGED <<pc, error_>>

MutantRecvBody ==
    /\ pc = "pass" /\ state_ = "BODY"
    /\ IF CL \notin DOMAIN headers_ THEN Await(NoNumber)
       ELSE \E length \in Stoi(headers_[CL]) : Await(length)
    /\ UNCHANGED <<textVars, inBuffer_, hState_, method_, headers_, scan, answers>>

RecvBody ==
    /\ pc = "pass" /\ state_ = "BODY"
    /\ IF CL \notin DOMAIN headers_ THEN Fail("400") /\ UNCHANGED state_
       ELSE \E length \in Stoi(headers_[CL]) : Await(length)
    /\ UNCHANGED <<textVars, inBuffer_, hState_, method_, headers_, scan, answers>>

MutantResetKeepsHeaders ==
    /\ state_' = "URI" /\ hState_' = "START"
    /\ UNCHANGED headers_

\* reset(), as far as the parser is concerned.
Reset ==
    /\ state_' = "URI" /\ hState_' = "START"
    /\ headers_' = NoHeaders

\* analysisRequest answers GET and HEAD, here for a file that is there, and
\* nothing else; handleRead calls itself for what is left in the buffer.
Analysis ==
    /\ pc = "pass" /\ state_ = "ANALYSIS"
    /\ IF method_ = "POST"
       THEN Fail("analysis") /\ UNCHANGED <<state_, hState_, headers_, answers>>
       ELSE /\ answers' = Append(answers, [method |-> method_, headers |-> headers_])
            /\ Reset
            /\ pc' = IF inBuffer_ = <<>> THEN "idle" ELSE "again"
            /\ UNCHANGED error_
    /\ UNCHANGED <<textVars, inBuffer_, method_, scan>>

HandleRead ==
    \/ pc = "again" /\ Read
    \/ ParseURI \/ EnterHeaders \/ HeaderStep \/ HeadersEnd \/ HeadersAgain
    \/ RecvBody \/ Analysis

Next == Read \/ HandleRead

SafeSpec == Init /\ [][Next]_vars

\* A handler that has been called runs.  The client need not send everything.
Spec == SafeSpec /\ WF_vars(HandleRead)

-----------------------------------------------------------------------------
\* The types; the parser never holds more than was read.
TypeOK ==
    /\ stream \in Streams \cup Noise /\ delivery \in Deliveries
    /\ pos \in 0 .. Len(stream.text)
    /\ Len(inBuffer_) <= pos
    /\ state_ \in {"URI", "HEADERS", "BODY", "ANALYSIS"} /\ hState_ \in HStates
    /\ state_ = "URI" => hState_ = "START"
    /\ method_ \in Methods
    /\ scan.i \in 1 .. Len(stream.text) + 1 /\ scan.begin \in 1 .. scan.i
    /\ pc \in {"idle", "again", "pass", "scan", "closed"}
    /\ error_ \in {"no", "400", "analysis", "abort"}

\* The request the parser is at.
Current == requests[Len(answers) + 1]

\* Answer a has the headers of request r and no others: of two with the same
\* name, the last.
Matches(a, r) ==
    /\ a.method = r.method
    /\ DOMAIN a.headers = {<<h.name>> : h \in Range(r.headers)}
    /\ \A h \in DOMAIN r.headers :
          \/ \E g \in h + 1 .. Len(r.headers) : r.headers[g].name = r.headers[h].name
          \/ a.headers[<<r.headers[h].name>>] = <<r.headers[h].value>>

\* "The analysis of HTTP requests: request line, headers, data; this version
\* treats GET and HEAD" (README.md:35): once they have come, the requests have
\* been answered, each with its own method and headers and none of those of
\* the request before it.
Answered ==
    pc \in {"idle", "closed"} =>
        /\ Len(answers) = Complete
        /\ \A n \in DOMAIN answers : Matches(answers[n], requests[n])

\* The parser carries nothing from one request to the next: of several GET and
\* HEAD requests with headers, each is answered as it was sent, if no read
\* ends within one or goes on into the next.
Understood ==
    /\ WellFormed /\ delivery = "whole"
    /\ \A n \in DOMAIN requests :
          requests[n].method # "POST" /\ requests[n].headers # <<>>
    => Answered

\* Wherever the reads end, no request is answered before its end has come.
NothingInvented == WellFormed => Len(answers) <= Complete

\* Wherever the reads end, what is stored under the name of a header of the
\* request is a value that name was sent with.
HeadersAreTrue ==
    WellFormed => \A k \in DOMAIN headers_ :
        /\ Len(answers) < Len(requests)
        /\ \A m \in DOMAIN Current.headers :
              k = <<Current.headers[m].name>> =>
                  \E h \in DOMAIN Current.headers :
                      /\ k = <<Current.headers[h].name>>
                      /\ headers_[k] = <<Current.headers[h].value>>

\* The exception of stoi, which ends the server, needs a client that sends a
\* length that is no number, or no HTTP: no split makes one of a length that is.
ThrowsOnBadLengthOnly ==
    WellFormed /\ error_ = "abort" =>
                       \E n \in DOMAIN Current.headers :
                           /\ <<Current.headers[n].name>> = CL
                           /\ Current.headers[n].value \notin DOMAIN Numbers

Handler == INSTANCE ParseOutcomes WITH MaxOut <- 1

\* The HttpData as Connection has it: when a call begins to parse, and when
\* it has.  What a failure leaves in inBuffer_ nobody looks at any more.
Called == [ConnectionState_ |-> "CONNECTED", error_ |-> FALSE,
           state_ |-> entry.state_, inBuffer_ |-> entry.inBuffer_, outBuffer_ |-> 0]
Left == IF error_' # "no" THEN Handler!Failed(Called)
        ELSE IF answers' # answers THEN Handler!Answered(Called, Len(inBuffer_'), 1)
        ELSE [Called EXCEPT !.state_ = state_', !.inBuffer_ = Len(inBuffer_')]

\* Connection knows nothing of text.  Whatever the client sends, requests or
\* noise, and however it is cut, what handleRead makes of it in one call
\* is one of the outcomes Connection is checked with: it waits in no state
\* before the one it was called in, never in the request line, never answers
\* out of the wait for a body, and a request that is answered has left the
\* buffer, so that the recursive calls come to an end.
StaysWithinParses ==
    [][pc' \in {"idle", "again", "closed"} /\ pc \in {"pass", "scan"}
         => error_' = "abort" \/ Left \in Handler!Parses(Called)]_vars

\* handleRead, which calls itself for what is left over, comes to an end.
Settles == pc \in {"again", "pass", "scan"} ~> pc \in {"idle", "closed"}
=============================================================================
