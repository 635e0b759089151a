---------------------------- MODULE HttpTransfer ----------------------------
(***************************************************************************)
(* One curl_easy_perform of an API function: the vendored libcurl 7.37.0   *)
(* (src/curl/lib) from the easy interface down to the socket, and the      *)
(* HTTP server at the other end.                                           *)
(*                                                                         *)
(*   easy.c      easy_perform, easy_transfer   drive one multi handle      *)
(*   multi.c     multi_runsingle               the states CURLM_STATE_...  *)
(*   http.c      the request, the header lines of the reply, the last word *)
(*   transfer.c  Curl_readwrite                one pass: read, write, check*)
(*   http_chunks.c                             the chunked decoder         *)
(*   sendf.c     Curl_client_write             the write callback          *)
(*                                                                         *)
(* The service sends a sequence of tokens: a header line, the line of a    *)
(* chunk's size are one token each, so is a byte of the body or of the     *)
(* line's end behind a chunk.  Counters say how far the tokens have come:  *)
(* put on the connection, read into libcurl's buffer, used.                *)
(*                                                                         *)
(* An API function makes an easy handle for each call, sets no option but  *)
(* the URL, the body and the callback, and does not follow redirects: no   *)
(* connection is used twice (so Curl_retry_request never asks for another  *)
(* attempt), no pipeline, no rate limit, no timeout but the one libcurl    *)
(* has for connecting and the second it waits for "100 Continue".          *)
(***************************************************************************)
EXTENDS CurlReturn, Integers

CONSTANTS
  Requests,     \* the requests: [form : BOOLEAN, head : Nat, rest : Nat]
  Services      \* what the service may do with a request

(* form: a multipart POST (CURLOPT_HTTPPOST), sent with "Expect:           *)
(* 100-continue"; the other requests (CURLOPT_POSTFIELDS) are short and    *)
(* their body goes with the header.  head and rest: the parts that header  *)
(* and body are sent in at most.                                           *)
RequestAssumption ==
  \A q \in Requests : /\ q.form \in BOOLEAN
                      /\ q.head \in Nat \ {0}
                      /\ q.rest \in Nat
                      /\ ~q.form => q.rest = 0

(* script: the tokens of the reply; interim: how many of them are the      *)
(* "100 Continue" part; head: how many come before the body; cut: how many *)
(* are sent before the service closes the connection; early: whether it    *)
(* answers without waiting for the request's body; framed: whether the     *)
(* reply says itself where its body ends; body: the bytes it stands for.   *)
Kinds == {"status", "length", "chunked", "close", "line",
          "blank",                                \* lines of a header
          "size", "cr", "lf", "byte"}             \* parts of a body

Token == [t : Kinds, v : Nat \cup Byte]

ServiceTypes(s) ==
  /\ s.script \in Seq(Token)
  /\ \A i \in 1 .. Len(s.script) :
       /\ s.script[i].t \in {"status", "length", "size"} => s.script[i].v \in Nat
       /\ s.script[i].t = "byte" => s.script[i].v \in Byte
  /\ s.interim \in 0 .. s.head
  /\ s.head \in 0 .. Len(s.script)
  /\ s.cut \in 0 .. Len(s.script)
  /\ s.early \in BOOLEAN
  /\ s.framed \in BOOLEAN
  /\ s.body \in Seq(Byte)

(* A header behind the first i tokens ends at token j: a status line, some *)
(* lines and a blank one.  That of an interim reply says nothing of a body.*)
Header(s, i, j, lines) ==
  /\ i + 1 < j
  /\ s.script[i + 1].t = "status"
  /\ \A l \in i + 2 .. j - 1 : s.script[l].t \in lines
  /\ s.script[j].t = "blank"

ServiceHeaders(s) ==
  /\ s.interim > 0 => /\ Header(s, 0, s.interim, {"line"})
                      /\ s.script[1].v \in 100 .. 199
  /\ Header(s, s.interim, s.head, {"length", "chunked", "close", "line"})
  /\ s.script[s.interim + 1].v \notin 100 .. 199

Says(s, line) == \E i \in 1 .. s.head : s.script[i].t = line

NoBody(s) == s.script[s.interim + 1].v \in {204, 304}

(* The byte a token stands for in a body.  Part of a line's end that a     *)
(* wrong chunk size takes for data is a byte like any other.               *)
AnyByte == CHOOSE b \in Byte : TRUE

ByteOf(token) == IF token.t = "byte" THEN token.v ELSE AnyByte

(* What one more token is to a chunked body.                               *)
Dechunk(d, token) ==
  CASE d.state = "HEX" /\ token.t = "size" ->
         [d EXCEPT !.state = IF token.v = 0 THEN "TRAILER" ELSE "DATA",
                   !.datasize = token.v]
    [] d.state = "DATA" ->
         [state    |-> IF d.datasize = 1 THEN "POSTLF" ELSE "DATA",
          datasize |-> d.datasize - 1,
          bytes    |-> Append(d.bytes, ByteOf(token))]
    [] d.state = "POSTLF" /\ token.t = "cr" -> d
    [] d.state = "POSTLF" /\ token.t = "lf" ->
         [d EXCEPT !.state = "HEX", !.datasize = 0]
    [] d.state = "TRAILER" /\ token.t \notin {"cr", "lf"} -> d
    [] OTHER -> [d EXCEPT !.state = "STOP"]

(* The body behind the header, token by token.                             *)
Dechunked(s) ==
  LET d[n \in 0 .. Len(s.script) - s.head] ==
        IF n = 0 THEN [state |-> "HEX", datasize |-> 0, bytes |-> << >>]
        ELSE Dechunk(d[n - 1], s.script[s.head + n])
  IN  d

(* How a reply may say where its body ends, and what the body is then.     *)
ServiceBody(s) ==
  \/ /\ Says(s, "chunked") /\ s.framed
     /\ s.body = Dechunked(s)[Len(s.script) - s.head].bytes
  \/ /\ ~Says(s, "chunked") /\ NoBody(s) /\ s.framed
     /\ s.body = << >>
  \/ /\ ~Says(s, "chunked") /\ ~NoBody(s) /\ Says(s, "length") /\ s.framed
     /\ \A i \in 1 .. s.head :
          s.script[i].t = "length" => s.script[i].v = Len(s.body)
     /\ \A i \in 1 .. Len(s.body) :
          s.head + i <= Len(s.script) => s.body[i] = ByteOf(s.script[s.head + i])
  \/ /\ ~Says(s, "chunked") /\ ~NoBody(s) /\ ~Says(s, "length") /\ ~s.framed
     /\ s.body = [i \in 1 .. Len(s.script) - s.head |->
                    ByteOf(s.script[s.head + i])]

ServiceAssumption ==
  \A s \in Services : ServiceTypes(s) /\ ServiceHeaders(s) /\ ServiceBody(s)

ASSUME TransferAssumption == RequestAssumption /\ ServiceAssumption /\ Byte # {}

VARIABLES
  req, svc,     \* the request and the service, chosen at the start
  head, rest,   \* how many parts of the request are not sent yet
  put,          \* how many tokens the service has sent
  peer,         \* the connection: "none", "open", "fin", "reset"
  mstate,       \* data->mstate
  result,       \* data->result
  code,         \* what curl_easy_perform returns
  pass,         \* where Curl_readwrite is: "select", "read", "sent"
  keepon,       \* k->keepon: "recv", "send"
  exp100,       \* k->exp100
  closing,      \* conn->bits.close
  read, used,   \* the tokens read into k->buf, those used of them
  k,            \* the rest of struct SingleRequest
  ch,           \* conn->chunk, the state of the chunked decoder
  buf,          \* curl_result_t, the callback's buffer
  chunk, got    \* the latest call's bytes; all bytes of the body so far

server == <<put, peer>>
parser == <<read, used, k, ch, buf, chunk, got>>
vars == <<req, svc, head, rest, server, mstate, result, code, pass, keepon,
          exp100, closing, parser>>

MStates == {"INIT", "CONNECT", "WAITRESOLVE", "WAITCONNECT", "DO", "PERFORM",
            "DONE", "COMPLETED", "MSGSENT"}

Errors == {"OUT_OF_MEMORY", "COULDNT_RESOLVE_HOST", "COULDNT_CONNECT",
           "OPERATION_TIMEDOUT", "SEND_ERROR", "RECV_ERROR", "PARTIAL_FILE",
           "WRITE_ERROR", "GOT_NOTHING"}

Exp100 == {"SEND_DATA", "AWAITING_CONTINUE", "SENDING_REQUEST", "FAILED"}

(* header: still in the header; httpcode; size: the announced length, or   *)
(* -1; ignorecl; chunk: the body is chunked; bytecount; headers: header    *)
(* lines that count, headerbytecount - deductheadercount.                  *)
SingleRequest == [header : BOOLEAN, httpcode : Nat, size : Nat \cup {-1},
                  ignorecl : BOOLEAN, chunk : BOOLEAN, bytecount : Nat,
                  headers : Nat]

Chunker == [state : {"HEX", "DATA", "POSTLF", "TRAILER", "STOP"},
            datasize : Nat]

Init ==
  /\ req \in Requests /\ svc \in Services
  /\ head = req.head /\ rest = req.rest
  /\ put = 0 /\ peer = "none"
  /\ mstate = "INIT" /\ result = "OK" /\ code = "none"
  /\ pass = "select" /\ keepon = {} /\ exp100 = "SEND_DATA"
  /\ closing = FALSE
  /\ read = 0 /\ used = 0
  /\ k = [header |-> TRUE, httpcode |-> 0, size |-> -1, ignorecl |-> FALSE,
          chunk |-> FALSE, bytecount |-> 0, headers |-> 0]
  /\ ch = [state |-> "HEX", datasize |-> 0]
  /\ buf = Fresh /\ chunk = << >> /\ got = << >>
-----------------------------------------------------------------------------
(* The service: external.                                                  *)
RequestRead == head = 0 /\ (svc.early \/ rest = 0)

ServiceSends ==
  /\ peer = "open" /\ put < svc.cut
  /\ IF put < svc.interim THEN head = 0 ELSE RequestRead
  /\ put' = put + 1
  /\ UNCHANGED <<req, svc, head, rest, peer, mstate, result, code, pass, keepon,
                 exp100, closing, parser>>

(* It closes the connection, as it ends or breaks.                         *)
ServiceCloses ==
  /\ peer = "open" /\ put = svc.cut
  /\ peer' \in {"fin", "reset"}
  /\ UNCHANGED <<req, svc, head, rest, put, mstate, result, code, pass, keepon,
                 exp100, closing, parser>>

Service == ServiceSends \/ ServiceCloses
-----------------------------------------------------------------------------
(* The transfer fails: an error below COMPLETED goes straight there, the   *)
(* connection is closed on the way.                                        *)
Fail(e) == result' = e /\ mstate' = "COMPLETED"

Proceed(state) == mstate' = state /\ UNCHANGED result

(* easy_perform and CURLM_STATE_INIT: no memory for the multi handle, or   *)
(* on with the transfer.                                                   *)
Start ==
  /\ mstate = "INIT"
  /\ Fail("OUT_OF_MEMORY") \/ Proceed("CONNECT")
  /\ UNCHANGED <<req, svc, head, rest, server, code, pass, keepon, exp100,
                 closing, parser>>

(* CONNECT, WAITRESOLVE and WAITCONNECT: the name is resolved at once or   *)
(* later, the connection stands at once or later, or connecting has taken  *)
(* longer than 300 seconds.                                                *)
Connected(state) ==
  /\ Proceed(state)
  /\ peer' = IF state = "DO" THEN "open" ELSE peer

NotConnected(e) == Fail(e) /\ UNCHANGED peer

Connect ==
  /\ \/ /\ mstate = "CONNECT"
        /\ \/ \E s \in {"WAITRESOLVE", "WAITCONNECT", "DO"} : Connected(s)
           \/ NotConnected("COULDNT_RESOLVE_HOST")
     \/ /\ mstate = "WAITRESOLVE"
        /\ \/ \E s \in {"WAITCONNECT", "DO"} : Connected(s)
           \/ NotConnected("COULDNT_RESOLVE_HOST")
           \/ NotConnected("OPERATION_TIMEDOUT")
     \/ /\ mstate = "WAITCONNECT"
        /\ \/ Connected("DO")
           \/ NotConnected("COULDNT_CONNECT")
           \/ NotConnected("OPERATION_TIMEDOUT")
  /\ UNCHANGED <<req, svc, head, rest, put, code, pass, keepon, exp100,
                 closing, parser>>

(* CURLM_STATE_DO: Curl_http sends what the socket takes of the header at  *)
(* once (Curl_add_buffer_send) and Curl_setup_transfer sets up the rest;   *)
(* the states behind it up to PERFORM do not wait, with one transfer on    *)
(* the connection.                                                         *)
Do ==
  /\ mstate = "DO"
  /\ \/ /\ peer # "open"
        /\ Fail("SEND_ERROR")
        /\ UNCHANGED <<head, keepon, exp100>>
     \/ /\ \E n \in 0 .. head : head' = head - n
        /\ keepon' = IF head' = 0 THEN {"recv"} ELSE {"recv", "send"}
        /\ exp100' = IF ~req.form THEN "SEND_DATA"
                     ELSE IF head' = 0 THEN "AWAITING_CONTINUE"
                                       ELSE "SENDING_REQUEST"
        /\ Proceed("PERFORM")
  /\ UNCHANGED <<req, svc, rest, server, code, pass, closing, parser>>
-----------------------------------------------------------------------------
(* Curl_readwrite.  A pass reads when the socket is readable, sends when   *)
(* it is writable and ends with checks; a pass that does both is one pass  *)
(* of each, for between them nothing would be checked that holds.          *)
Selecting == mstate = "PERFORM" /\ pass = "select"

(* The bytes to ask for: no more than the announced length has left.       *)
WantedBytes ==
  IF k.header \/ k.size = -1 THEN put - read ELSE k.size - k.bytecount

(* Curl_read has something.                                                *)
Read ==
  /\ Selecting /\ "recv" \in keepon
  /\ \E n \in 1 .. put - read : n <= WantedBytes /\ read' = read + n
  /\ pass' = "read"
  /\ UNCHANGED <<req, svc, head, rest, server, mstate, result, code, keepon,
                 exp100, closing, used, k, ch, buf, chunk, got>>

(* Curl_read returns 0: the server has closed the connection.              *)
ReadEnd ==
  /\ Selecting /\ "recv" \in keepon
  /\ peer = "fin" /\ read = put
  /\ keepon' = keepon \ {"recv"}
  /\ pass' = "read"
  /\ UNCHANGED <<req, svc, head, rest, server, mstate, result, code, exp100,
                 closing, parser>>

(* Curl_read fails: a reset takes with it what has not been read yet.      *)
ReadError ==
  /\ Selecting /\ "recv" \in keepon
  /\ peer = "reset"
  /\ Fail("RECV_ERROR")
  /\ UNCHANGED <<req, svc, head, rest, server, code, pass, keepon, exp100,
                 closing, parser>>

(* readwrite_upload: the rest of the header; then, if the service is to    *)
(* agree first, the wait for its word; else the body, part by part, and    *)
(* the end of it.                                                          *)
Send ==
  /\ Selecting /\ "send" \in keepon
  /\ \/ /\ head > 0
        /\ \E n \in 1 .. head : head' = head - n
        /\ UNCHANGED <<rest, keepon, exp100>>
     \/ /\ head = 0 /\ exp100 = "SENDING_REQUEST"
        /\ exp100' = "AWAITING_CONTINUE"
        /\ keepon' = keepon \ {"send"}
        /\ UNCHANGED <<head, rest>>
     \/ /\ head = 0 /\ exp100 # "SENDING_REQUEST" /\ rest > 0
        /\ \E n \in 1 .. rest : rest' = rest - n
        /\ UNCHANGED <<head, keepon, exp100>>
     \/ /\ head = 0 /\ exp100 # "SENDING_REQUEST" /\ rest = 0
        /\ keepon' = keepon \ {"send"}
        /\ UNCHANGED <<head, rest, exp100>>
  /\ pass' = "sent"
  /\ UNCHANGED <<req, svc, server, mstate, result, code, closing, parser>>

(* Curl_write fails: the server has closed the connection.                 *)
SendError ==
  /\ Selecting /\ "send" \in keepon
  /\ head > 0 \/ (rest > 0 /\ exp100 # "SENDING_REQUEST")
  /\ peer # "open"
  /\ Fail("SEND_ERROR")
  /\ UNCHANGED <<req, svc, head, rest, server, code, pass, keepon, exp100,
                 closing, parser>>

(* Variant: the second passes and the body still waits.                    *)
ExpireForNothing ==
  /\ Selecting /\ exp100 = "AWAITING_CONTINUE"
  /\ exp100' = "SEND_DATA"
  /\ pass' = "sent"
  /\ UNCHANGED <<req, svc, head, rest, server, mstate, result, code, keepon,
                 closing, parser>>

(* Nothing to read or send, and a second has passed.                       *)
Expire ==
  /\ Selecting /\ exp100 = "AWAITING_CONTINUE"
  /\ exp100' = "SEND_DATA"
  /\ keepon' = keepon \cup {"send"}
  /\ pass' = "sent"
  /\ UNCHANGED <<req, svc, head, rest, server, mstate, result, code, closing,
                 parser>>
-----------------------------------------------------------------------------
(* readwrite_data works through what was read.                             *)
Reading == mstate = "PERFORM" /\ pass = "read" /\ used < read /\ "recv" \in keepon

Next1 == svc.script[used + 1]

(* A header line that says something: Curl_http_readwrite_headers.         *)
Bodyless == Next1.t = "status" /\ Next1.v \in {204, 304}

HeaderLine ==
  /\ Reading /\ k.header /\ Next1.t # "blank"
  /\ k' = [k EXCEPT
             !.headers = @ + 1,
             !.httpcode = IF Next1.t = "status" THEN Next1.v ELSE @,
             !.ignorecl = @ \/ Bodyless,
             !.size = IF Bodyless THEN 0
                      ELSE IF Next1.t = "length" /\ ~k.ignorecl THEN Next1.v
                      ELSE @,
             !.chunk = @ \/ Next1.t = "chunked"]
  /\ closing' = (closing \/ Next1.t = "close")
  /\ used' = used + 1
  /\ UNCHANGED <<req, svc, head, rest, server, mstate, result, code, pass, keepon,
                 exp100, read, ch, buf, chunk, got>>

(* The blank line of an interim reply: back to the first line of a header. *)
(* "100 Continue" lets the body go, if it still waits.                     *)
Interim == k.httpcode \in 100 .. 199

(* Variant: an interim reply is an answer like any other.                  *)
InterimEndCounted ==
  /\ Reading /\ k.header /\ Next1.t = "blank" /\ Interim
  /\ IF k.httpcode = 100 /\ exp100 # "SEND_DATA"
     THEN exp100' = "SEND_DATA" /\ keepon' = keepon \cup {"send"}
     ELSE UNCHANGED <<exp100, keepon>>
  /\ used' = used + 1
  /\ UNCHANGED <<req, svc, head, rest, server, mstate, result, code, pass,
                 closing, read, k, ch, buf, chunk, got>>

InterimEnd ==
  /\ Reading /\ k.header /\ Next1.t = "blank" /\ Interim
  /\ k' = [k EXCEPT !.headers = 0]
  /\ IF k.httpcode = 100 /\ exp100 # "SEND_DATA"
     THEN exp100' = "SEND_DATA" /\ keepon' = keepon \cup {"send"}
     ELSE UNCHANGED <<exp100, keepon>>
  /\ used' = used + 1
  /\ UNCHANGED <<req, svc, head, rest, server, mstate, result, code, pass,
                 closing, read, ch, buf, chunk, got>>

(* The blank line of the reply: a body without a length ends with the      *)
(* connection; an error before the end of the request's body stops it,     *)
(* unless the connection is to close anyway; a chunked body has no other   *)
(* length; a body of length 0 needs no reading.                            *)
EndsWithConnection == k.size = -1 /\ ~k.chunk

Refusing == k.httpcode >= 300 /\ ~(closing \/ EndsWithConnection)

(* Variant: an error reply leaves the wait for the service's word alone.   *)
HeaderEndStillWaiting ==
  /\ Reading /\ k.header /\ Next1.t = "blank" /\ ~Interim
  /\ k' = [k EXCEPT !.header = FALSE, !.headers = @ + 1,
                    !.size = IF k.chunk THEN -1 ELSE @]
  /\ closing' = (closing \/ EndsWithConnection \/ Refusing)
  /\ keepon' = (keepon \ IF Refusing THEN {"send"} ELSE {})
                       \ IF ~k.chunk /\ k.size = 0 THEN {"recv"} ELSE {}
  /\ used' = used + 1
  /\ UNCHANGED <<req, svc, head, rest, server, mstate, result, code, pass,
                 exp100, read, ch, buf, chunk, got>>

HeaderEnd ==
  /\ Reading /\ k.header /\ Next1.t = "blank" /\ ~Interim
  /\ k' = [k EXCEPT !.header = FALSE, !.headers = @ + 1,
                    !.size = IF k.chunk THEN -1 ELSE @]
  /\ closing' = (closing \/ EndsWithConnection \/ Refusing)
  /\ exp100' = IF Refusing /\ req.form THEN "FAILED" ELSE exp100
  /\ keepon' = (keepon \ IF Refusing THEN {"send"} ELSE {})
                       \ IF ~k.chunk /\ k.size = 0 THEN {"recv"} ELSE {}
  /\ used' = used + 1
  /\ UNCHANGED <<req, svc, head, rest, server, mstate, result, code, pass, read,
                 ch, buf, chunk, got>>
-----------------------------------------------------------------------------
(* Curl_client_write gives n tokens of a body to the callback.             *)
Bytes(n) == [i \in 1 .. n |-> ByteOf(svc.script[used + i])]

(* Variant: a callback that has run out of memory goes unnoticed.          *)
ClientWriteUnchecked(n) ==
  /\ chunk' = Bytes(n)
  /\ \/ /\ buf' = Received(buf, Bytes(n))
        /\ got' = got \o Bytes(n)
     \/ /\ NeedsMemory(buf, n)
        /\ buf' = ReceiveFailed(buf)
        /\ UNCHANGED got
  /\ UNCHANGED <<mstate, result>>

ClientWrite(n) ==
  /\ chunk' = Bytes(n)
  /\ \/ /\ buf' = Received(buf, Bytes(n))
        /\ got' = got \o Bytes(n)
        /\ UNCHANGED <<mstate, result>>
     \/ /\ NeedsMemory(buf, n)
        /\ buf' = ReceiveFailed(buf)
        /\ Fail("WRITE_ERROR")
        /\ UNCHANGED got

(* A body that is not chunked: all that was read, but no more than the     *)
(* announced length.                                                       *)
PlainSize == IF k.size = -1 \/ read - used <= k.size - k.bytecount
             THEN read - used ELSE k.size - k.bytecount

Plain ==
  /\ Reading /\ ~k.header /\ ~k.chunk
  /\ ClientWrite(PlainSize)
  /\ used' = read
  /\ k' = [k EXCEPT !.bytecount = @ + PlainSize]
  /\ keepon' = IF k.size # -1 /\ k'.bytecount >= k.size THEN keepon \ {"recv"}
                                                        ELSE keepon
  /\ UNCHANGED <<req, svc, head, rest, server, code, pass, exp100, closing, read,
                 ch>>

(* Curl_httpchunk_read, one turn of its loop: data, as much as there is of *)
(* the chunk;                                                              *)
Dechunking == Reading /\ ~k.header /\ k.chunk

ChunkData ==
  /\ Dechunking /\ ch.state = "DATA"
  /\ \E piece \in 1 .. read - used :
       /\ piece = IF ch.datasize >= read - used THEN read - used ELSE ch.datasize
       /\ ClientWrite(piece)
       /\ used' = used + piece
       /\ k' = [k EXCEPT !.bytecount = @ + piece]
       /\ ch' = [state    |-> IF ch.datasize = piece THEN "POSTLF" ELSE "DATA",
                 datasize |-> ch.datasize - piece]
  /\ UNCHANGED <<req, svc, head, rest, server, code, pass, keepon, exp100,
                 closing, read>>

(* or a line of the encoding: the size of a chunk, the end of one, lines   *)
(* behind the last one and the blank line that ends them all.              *)
ChunkLine ==
  /\ Dechunking
  /\ \/ /\ ch.state = "HEX" /\ Next1.t = "size"
        /\ ch' = [state    |-> IF Next1.v = 0 THEN "TRAILER" ELSE "DATA",
                  datasize |-> Next1.v]
        /\ UNCHANGED keepon
     \/ /\ ch.state = "POSTLF" /\ Next1.t = "cr"
        /\ UNCHANGED <<ch, keepon>>
     \/ /\ ch.state = "POSTLF" /\ Next1.t = "lf"
        /\ ch' = [state |-> "HEX", datasize |-> 0]
        /\ UNCHANGED keepon
     \/ /\ ch.state = "TRAILER" /\ Next1.t \notin {"cr", "lf"}
        /\ UNCHANGED <<ch, keepon>>
     \/ /\ ch.state = "TRAILER" /\ Next1.t = "cr"
        /\ ch' = [ch EXCEPT !.state = "STOP"]
        /\ UNCHANGED keepon
     \/ /\ ch.state \in {"TRAILER", "STOP"} /\ Next1.t = "lf"
        /\ ch' = [ch EXCEPT !.state = "STOP"]
        /\ keepon' = keepon \ {"recv"}
  /\ used' = used + 1
  /\ UNCHANGED <<req, svc, head, rest, server, mstate, result, code, pass, exp100,
                 closing, read, k, buf, chunk, got>>

(* What does not fit the encoding ends the transfer.                       *)
ChunkError ==
  /\ Dechunking
  /\ \/ ch.state = "HEX" /\ Next1.t # "size"
     \/ ch.state = "POSTLF" /\ Next1.t \notin {"cr", "lf"}
     \/ ch.state = "STOP" /\ Next1.t # "lf"
  /\ Fail("RECV_ERROR")
  /\ UNCHANGED <<req, svc, head, rest, server, code, pass, keepon, exp100,
                 closing, parser>>
-----------------------------------------------------------------------------
(* The end of a pass: nothing more to send on a connection that closes     *)
(* with the reply; and when nothing is left to do, whether all has come.   *)
PassDone == pass = "sent" \/ (pass = "read" /\ (used = read \/ "recv" \notin keepon))

LeftToDo == IF pass = "read" /\ keepon = {"send"} /\ closing THEN {} ELSE keepon

(* Variant: a chunked body may end anywhere.                               *)
PartialUnlessChunked == k.size # -1 /\ k.bytecount # k.size

Partial == \/ k.size # -1 /\ k.bytecount # k.size
           \/ k.chunk /\ ch.state # "STOP"

PassEnds ==
  /\ mstate = "PERFORM" /\ PassDone
  /\ keepon' = LeftToDo
  /\ pass' = "select"
  /\ \/ LeftToDo # {} /\ UNCHANGED <<mstate, result>>
     \/ LeftToDo = {} /\ Partial /\ Fail("PARTIAL_FILE")
     \/ LeftToDo = {} /\ ~Partial /\ Proceed("DONE")
  /\ UNCHANGED <<req, svc, head, rest, server, code, exp100, closing, parser>>

(* CURLM_STATE_DONE: Curl_done and in it Curl_http_done, which takes a     *)
(* transfer without any byte of an answer for a failure.                   *)
Done ==
  /\ mstate = "DONE"
  /\ IF k.bytecount + k.headers <= 0 THEN Fail("GOT_NOTHING")
                                     ELSE Proceed("COMPLETED")
  /\ UNCHANGED <<req, svc, head, rest, server, code, pass, keepon, exp100,
                 closing, parser>>

(* CURLM_STATE_COMPLETED: the message for the easy interface.              *)
Complete ==
  /\ mstate = "COMPLETED"
  /\ Proceed("MSGSENT")
  /\ UNCHANGED <<req, svc, head, rest, server, code, pass, keepon, exp100,
                 closing, parser>>

(* easy_transfer: the message ends the loop.                               *)
Return ==
  /\ mstate = "MSGSENT"
  /\ code' = result
  /\ UNCHANGED <<req, svc, head, rest, server, mstate, result, pass, keepon,
                 exp100, closing, parser>>

(* poll fails in curl_multi_wait, between two passes.                      *)
PollFails ==
  /\ code = "none" /\ mstate \notin {"INIT", "MSGSENT"} /\ pass = "select"
  /\ code' = "RECV_ERROR"
  /\ UNCHANGED <<req, svc, head, rest, server, mstate, result, pass, keepon,
                 exp100, closing, parser>>

Perform ==
  \/ Read \/ ReadEnd \/ ReadError \/ Send \/ SendError \/ Expire
  \/ HeaderLine \/ InterimEnd \/ HeaderEnd
  \/ Plain \/ ChunkData \/ ChunkLine \/ ChunkError
  \/ PassEnds

Client ==
  /\ code = "none"
  /\ Start \/ Connect \/ Do \/ Perform \/ Done \/ Complete \/ Return

Next == Client \/ PollFails \/ Service

(* libcurl's loop runs, a second passes, and the service answers, closes   *)
(* or dies: a service that stays silent for ever holds an API function     *)
(* that has set no timeout (XvprClient.tla).                               *)
Fairness == WF_vars(Client) /\ WF_vars(Service)

Spec == Init /\ [][Next]_vars /\ Fairness
-----------------------------------------------------------------------------
(* What the variables hold.                                                *)
TypeOK ==
  /\ req \in Requests /\ svc \in Services
  /\ head \in 0 .. req.head /\ rest \in 0 .. req.rest
  /\ put \in 0 .. svc.cut
  /\ peer \in {"none", "open", "fin", "reset"}
  /\ mstate \in MStates
  /\ result \in Errors \cup {"OK"}
  /\ code \in Errors \cup {"OK", "none"}
  /\ pass \in {"select", "read", "sent"}
  /\ keepon \subseteq {"recv", "send"}
  /\ exp100 \in Exp100
  /\ closing \in BOOLEAN
  /\ read \in 0 .. put /\ used \in 0 .. read
  /\ k \in SingleRequest
  /\ ch \in Chunker
  /\ buf \in Buffer
  /\ chunk \in Seq(Byte) /\ got \in Seq(Byte)

(* Success means the whole body, if the reply's header came and said where *)
(* the body ends: whatever it was cut into, with or without a 100 before   *)
(* it, with more bytes behind it, and wherever the connection breaks.      *)
WholeReply == code = "OK" /\ svc.framed /\ ~k.header => got = svc.body

(* Success means that something of an answer has come: a connection that   *)
(* closes in good order before the first line, or behind a whole "100      *)
(* Continue", gives GOT_NOTHING (Curl_http_done, deductheadercount).  Half *)
(* a header is an answer to libcurl, even the first half of the interim    *)
(* one: the API function then parses an empty text.                        *)
AnswerIsReal == code = "OK" => used \notin {0, svc.interim}

(* A service that has refused a request by an error reply gets no more of  *)
(* its body: neither the second's end nor the socket's readiness starts    *)
(* the sending again.  (On a connection that is to close anyway the code   *)
(* does go on sending.)                                                    *)
Refused == /\ ~k.header /\ k.httpcode >= 300 /\ svc.framed
           /\ \A i \in 1 .. svc.head : svc.script[i].t # "close"

RefusedBodyStays == [][Refused => UNCHANGED rest]_vars

(* curl_easy_perform returns: client and service never wait for each other *)
(* when the service does not know "Expect: 100-continue".                  *)
TransferEnds == <>(code # "none")

(* What HttpReceive.tla takes libcurl for: the body an API function can    *)
(* get is the service's if the reply says where it ends, and else what has *)
(* been sent of it when the connection closes.                             *)
BodyOf(s) ==
  IF s.cut < s.head THEN << >>
  ELSE IF s.framed THEN s.body ELSE SubSeq(s.body, 1, s.cut - s.head)

Receive == INSTANCE HttpReceive
             WITH Bodies <- {BodyOf(s) : s \in Services},
                  body   <- BodyOf(svc),
                  sent   <- Len(got),
                  phase  <- IF code = "OK" THEN "parse"
                            ELSE IF code = "none" /\ result = "OK" THEN "transfer"
                            ELSE "connect_err"

ImplementsReceive == Receive!Spec
=============================================================================
