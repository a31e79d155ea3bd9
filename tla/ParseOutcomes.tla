----------------------------- MODULE ParseOutcomes -----------------------------
(***************************************************************************)
(* What one pass of handleRead through the parser may make of an HttpData, *)
(* whatever the text: every outcome its process state allows.  Connection  *)
(* takes any of them; HttpParser, which reads the text, is shown to stay   *)
(* within them.  The buffers count units: inBuffer_ what is left to parse, *)
(* outBuffer_ what is left to send, up to MaxOut.                          *)
(***************************************************************************)
EXTENDS Integers

CONSTANT MaxOut

\* error_ is set; the connection will be closed, so the rest stays.
Failed(d) == [d EXCEPT !.error_ = TRUE]

Waits(d, s) ==
    {[d EXCEPT !.state_ = s, !.inBuffer_ = i] : i \in 0 .. d.inBuffer_}

Answered(d, i, n) ==
    [d EXCEPT !.state_ = "FINISH", !.inBuffer_ = i, !.outBuffer_ = n]

\* The response takes the place of what was in outBuffer_, or is added to it;
\* the request has left inBuffer_.
Analyses(d) ==
    {Failed(d)} \cup
    {Answered(d, i, n) :
        i \in 0 .. d.inBuffer_ - 1,
        n \in {MaxOut} \cup {j \in 1 .. MaxOut : j = 1 \/ j > d.outBuffer_}}

\* A POST waits for its body, and then fails.
Bodies(d) == {Failed(d)} \cup Waits(d, "BODY")

HeaderParses(d) == Analyses(d) \cup Bodies(d) \cup Waits(d, "HEADERS")

URIParses(d) == {[Failed(d) EXCEPT !.inBuffer_ = 0]} \cup HeaderParses(d)

Parses(d) ==
    CASE d.state_ = "URI" -> URIParses(d)
      [] d.state_ = "HEADERS" -> HeaderParses(d)
      [] d.state_ = "BODY" -> Bodies(d)
      [] OTHER -> {d}
=============================================================================
