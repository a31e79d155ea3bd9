----------------------------- MODULE MCHttpParser -----------------------------
(***************************************************************************)
(* The streams HttpParser is checked with.                                 *)
(***************************************************************************)
EXTENDS HttpParser

Host == [name |-> "Host", value |-> "h"]
Length(v) == [name |-> "Content-length", value |-> v]

Request(m, hs, b) == [method |-> m, headers |-> hs, body |-> b]
Get == Request("GET", <<Host>>, <<>>)
Gets == {Get, Request("HEAD", <<Host, Length("0")>>, <<>>)}
Twice == Request("GET", <<Host, [Host EXCEPT !.value = "0"]>>, <<>>)
Posts == {Request("POST", hs, <<"b", "b">>) :
             hs \in {<<Host>>, <<Length("2")>>, <<Length("bad")>>,
                     <<Host, Length("2")>>, <<Length("bad"), Host>>}}

Text(r) ==
    <<r.method, "1.1", "CR", "LF">>
      \o FlattenSeq([n \in DOMAIN r.headers |->
             <<r.headers[n].name, ":", " ", r.headers[n].value, "CR", "LF">>])
      \o <<"CR", "LF">> \o r.body

Texts(rs, k) == FlattenSeq([n \in 1 .. k |-> Text(rs[n])])

StreamOf(rs) == [requests |-> rs,
                 text |-> Texts(rs, Len(rs)),
                 ends |-> [k \in 0 .. Len(rs) |-> Len(Texts(rs, k))]]

AllWords == {"Host", "h", "Content-length", "0", "2", "bad", "b"}

\* One or two requests that are answered, one of them with a header sent twice,
\* or a POST request, alone or behind a GET.
AllStreams == {StreamOf(rs) : rs \in
    {<<a>> : a \in Gets} \cup {<<a, b>> : a, b \in Gets} \cup {<<Twice, Get>>}
      \cup {<<p>> : p \in Posts}
      \cup {<<Get, p>> : p \in {q \in Posts : Len(q.headers) = 1}}}

\* No requests: the text of one with a token missing, or another in its place;
\* and one with a length of two tokens.
Odd == {"GET", ":", "CR", "LF"}
Broken(t) == {RemoveAt(t, i) : i \in DOMAIN t}
               \cup {ReplaceAt(t, i, c) : i \in DOMAIN t, c \in Odd}
AllNoise == {[requests |-> <<>>, text |-> t, ends |-> [k \in {0} |-> 0]] :
    t \in Broken(Text(Request("POST", <<Length("2")>>, <<"b", "b">>)))
            \cup {<<"POST", "1.1", "CR", "LF", "Content-length", ":", " ", "2", "2",
                    "CR", "LF", "CR", "LF", "b">>}}

OneGet == {StreamOf(<<Get>>)}
=============================================================================
