--------------------------- MODULE MCHttpTransfer ---------------------------
(* HttpTransfer with a short request and a form in two parts, and replies  *)
(* of up to three bytes under every framing, with and without "100         *)
(* Continue" and "Connection: close", answered in time or early, and cut   *)
(* at every token.                                                         *)
EXTENDS HttpTransfer

CONSTANTS a, b

MCByte == {a, b}
MCInitialSize == 2

MCRequests == {[form |-> FALSE, head |-> 2, rest |-> 0],
               [form |-> TRUE,  head |-> 2, rest |-> 2]}

T(kind, v) == [t |-> kind, v |-> v]
Line(kind) == T(kind, 0)
BytesOf(s) == [i \in DOMAIN s |-> T("byte", s[i])]

EndOfLine == <<Line("cr"), Line("lf")>>
Chunk(s) == <<T("size", Len(s))>> \o BytesOf(s) \o EndOfLine
LastChunk == <<T("size", 0), Line("line")>> \o EndOfLine

Reply(interim, status, lines, tail, framed, body, early) ==
  LET first == IF interim THEN <<T("status", 100), Line("blank")>> ELSE << >>
      top   == first \o <<T("status", status)>> \o lines \o <<Line("blank")>>
      all   == top \o tail
  IN  {[script |-> all, interim |-> Len(first), head |-> Len(top),
        cut |-> c, early |-> early, framed |-> framed, body |-> body] :
          c \in 0 .. Len(all)}

Length(n) == <<T("length", n)>>
Chunked == <<Line("chunked")>>
Close == <<Line("close")>>

MCServices ==
  UNION
    ({Reply(i, 200, Length(3), BytesOf(<<a, b, a>>), TRUE, <<a, b, a>>, FALSE)
        : i \in BOOLEAN}
     \cup {Reply(i, 200, Chunked, Chunk(<<a, b>>) \o Chunk(<<b>>) \o LastChunk,
                 TRUE, <<a, b, b>>, FALSE) : i \in BOOLEAN}
     \cup {Reply(FALSE, 200, Close, BytesOf(<<a, b>>), FALSE, <<a, b>>, e)
             : e \in BOOLEAN}
     \cup {Reply(FALSE, 200, << >>, BytesOf(<<a>>), FALSE, <<a>>, FALSE)}
     \cup {Reply(FALSE, c, Length(2), BytesOf(<<b, a>>), TRUE, <<b, a>>, TRUE)
             : c \in {200, 417}}
     \cup {Reply(FALSE, 417, Length(1) \o Close, BytesOf(<<b>>), TRUE, <<b>>,
                 TRUE)}
     \cup {Reply(FALSE, 200, Length(1), BytesOf(<<a, b>>), TRUE, <<a>>, FALSE)}
     \cup {Reply(FALSE, 200, Length(0), BytesOf(<<b>>), TRUE, << >>, FALSE)}
     \cup {Reply(FALSE, 204, Length(1), << >>, TRUE, << >>, FALSE)}
     \cup {Reply(FALSE, 200, Length(1) \o Chunked,
                 <<T("size", n), T("byte", a), T("byte", b)>> \o EndOfLine
                   \o LastChunk, TRUE,
                 SubSeq(<<a, b, AnyByte>>, 1, n), FALSE)
             : n \in 1 .. 3}
     \cup {Reply(FALSE, 200, Chunked, BytesOf(<<a>>), TRUE, << >>, FALSE)})
=============================================================================
