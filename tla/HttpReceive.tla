----------------------------- MODULE HttpReceive -----------------------------
(***************************************************************************)
(* One HTTP transfer as an API function of src/src/xbusiness_vpr.c sees    *)
(* it: the buffer is allocated, curl_easy_perform hands the response body  *)
(* to the write callback in as many calls as libcurl likes, and when it    *)
(* returns CURLE_OK the function parses curl_result_t.str as a C string.   *)
(*                                                                         *)
(* The order and sizes of the callback's calls are libcurl's: external to  *)
(* src/src, taken from how curl_easy_setopt documents CURLOPT_WRITEFUNCTION*)
(* (any number of calls, any size, a return value other than the chunk's   *)
(* size ends the transfer with CURLE_WRITE_ERROR).                         *)
(***************************************************************************)
EXTENDS CurlReturn

CONSTANT Bodies      \* the response bodies the server may send
ASSUME BodiesAssumption == Bodies \subseteq Seq(Byte)

VARIABLES
  body,     \* the body of this response
  sent,     \* how many of its bytes the callback has been given
  buf,      \* curl_result_t
  chunk,    \* the bytes of the latest call of the callback
  phase     \* where the API function is

vars == <<body, sent, buf, chunk, phase>>

Phases == {"transfer",      \* inside curl_easy_perform
           "parse",         \* performed, json_tokener_parse(str) is next
           "connect_err"}   \* returned XVPR_CODE_CONNECT_ERR

TypeOK ==
  /\ body \in Seq(Byte)
  /\ sent \in 0 .. Len(body)
  /\ buf \in Buffer
  /\ chunk \in Seq(Byte)
  /\ phase \in Phases

-----------------------------------------------------------------------------
Init ==
  /\ body \in Bodies
  /\ sent = 0
  /\ buf = Fresh
  /\ chunk = << >>
  /\ phase = "transfer"

(* The next n bytes of the body.  The call with zero bytes that libcurl    *)
(* makes for an empty transfer leaves a fresh buffer as it is: a stutter.  *)
NextChunk(n) == SubSeq(body, sent + 1, sent + n)

ChunkSizes == 1 .. Len(body) - sent

Deliver ==
  /\ phase = "transfer"
  /\ \E n \in ChunkSizes :
       /\ chunk' = NextChunk(n)
       /\ buf' = Received(buf, NextChunk(n))
       /\ sent' = sent + n
  /\ UNCHANGED <<body, phase>>

(* Variant: the callback reports the chunk as taken.                       *)
DeliverNoMemoryUnreported ==
  /\ phase = "transfer"
  /\ \E n \in ChunkSizes :
       /\ NeedsMemory(buf, n)
       /\ chunk' = NextChunk(n)
       /\ sent' = sent + n
  /\ buf' = ReceiveFailed(buf)
  /\ UNCHANGED <<body, phase>>

(* realloc fails: the callback returns 0, which is not the chunk's size,   *)
(* so perform fails and the API function returns without reading str.      *)
DeliverNoMemory ==
  /\ phase = "transfer"
  /\ \E n \in ChunkSizes :
       /\ NeedsMemory(buf, n)
       /\ chunk' = NextChunk(n)
  /\ buf' = ReceiveFailed(buf)
  /\ phase' = "connect_err"
  /\ UNCHANGED <<body, sent>>

(* The transfer fails, at any time: the connection breaks, the server      *)
(* closes it too early or garbles the framing of the body.                 *)
Break ==
  /\ phase = "transfer"
  /\ phase' = "connect_err"
  /\ UNCHANGED <<body, sent, buf, chunk>>

Finish ==
  /\ phase = "transfer"
  /\ sent = Len(body)
  /\ phase' = "parse"
  /\ UNCHANGED <<body, sent, buf, chunk>>

Next == Deliver \/ DeliverNoMemory \/ Break \/ Finish

(* libcurl goes on as long as the connection lives; that one breaks is     *)
(* nothing to rely on.  A server that keeps the connection open and silent *)
(* is outside this fairness: no API function sets CURLOPT_TIMEOUT          *)
(* (XvprClient.tla has that case).                                         *)
Fairness == WF_vars(Deliver \/ DeliverNoMemory \/ Finish)

Spec == Init /\ [][Next]_vars /\ Fairness

-----------------------------------------------------------------------------
(* Memory safety of the callback: as long as the pointer is not NULL, the  *)
(* cells it owns are exactly those that size says, and the callback never  *)
(* stores the chunk or its terminator beyond them (str[len] = '\0').       *)
BufferSafe ==
  ~IsNull(buf) => /\ Len(buf.str) = buf.size
                  /\ buf.len < buf.size
                  /\ buf.str[buf.len + 1] = Nul

(* The NULL that a failed realloc leaves in str, with size still at its    *)
(* old value, reaches neither another call of the callback nor the parser. *)
NullIsNeverUsed == phase \in {"transfer", "parse"} => ~IsNull(buf)

(* The text an API function parses is a tail of this very response: no     *)
(* byte of an earlier, longer chunk and no cell that realloc left          *)
(* uninitialised shows through behind the latest chunk.                    *)
ParsedIsTail ==
  phase = "parse" =>
    \E k \in 0 .. Len(body) : IsCString(buf, SubSeq(body, k + 1, Len(body)))

(* What a response structure is for (xbusiness_misc.h:14-21, "the data of  *)
(* the WEB response"): the text an API function parses is the whole body.  *)
WholeBodyParsed == phase = "parse" => IsCString(buf, body)
=============================================================================
