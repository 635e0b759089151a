-------------------------- MODULE HttpReceiveProofs --------------------------
(***************************************************************************)
(* Proofs about the receive buffer, for every buffer size, every alphabet  *)
(* and every way libcurl may cut every body.                               *)
(***************************************************************************)
EXTENDS HttpReceive, TLAPS

(* A function on 1 .. m with values in S is a sequence over S.             *)
LEMMA FunctionIsSequence ==
  ASSUME NEW S, NEW m \in Nat, NEW f,
         f = [i \in 1 .. m |-> f[i]],
         \A i \in 1 .. m : f[i] \in S
  PROVE  f \in Seq(S) /\ Len(f) = m
<1>1. f \in [1 .. m -> S]
  OBVIOUS
<1> QED  BY <1>1

(* The callback keeps a buffer within its bounds and leaves the chunk in   *)
(* it as a C string.                                                       *)
LEMMA ReceivedIsSafe ==
  ASSUME NEW b \in Buffer, Len(b.str) = b.size,
         NEW c \in Seq(Byte)
  PROVE  /\ Received(b, c) \in Buffer
         /\ Len(Received(b, c).str) = Received(b, c).size
         /\ Received(b, c).len < Received(b, c).size
         /\ Received(b, c).str[Received(b, c).len + 1] = Nul
         /\ IsCString(Received(b, c), c)
<1> DEFINE n == Len(c)
           g == Grown(b, n)
           cell(i) == IF i <= n THEN c[i]
                      ELSE IF i = n + 1 THEN Nul ELSE g.str[i]
           s == [i \in 1 .. Len(g.str) |-> cell(i)]
<1>1. n \in Nat /\ \A i \in 1 .. n : c[i] \in Byte
  OBVIOUS
<1>2. b.str \in Seq(Cell) /\ b.size \in Nat /\ b.len \in Nat
  BY DEF Buffer
<1>3. /\ g.str \in Seq(Cell)
      /\ g.size \in Nat
      /\ Len(g.str) = g.size
      /\ n + 1 <= g.size
  <2>1. CASE b.size < n + 1
    <3> DEFINE e == [i \in 1 .. n + 1 |-> IF i <= Len(b.str)
                                            THEN b.str[i] ELSE Junk]
    <3>1. \A i \in 1 .. n + 1 : e[i] \in Cell
      BY <1>1, <1>2 DEF Cell
    <3>2. e \in Seq(Cell) /\ Len(e) = n + 1
      BY <1>1, <3>1
    <3>3. g.str = e /\ g.size = n + 1
      BY <2>1 DEF Grown, Buffer
    <3> QED  BY <1>1, <3>2, <3>3
  <2>2. CASE ~(b.size < n + 1)
    <3>1. g = b
      BY <2>2 DEF Grown
    <3> QED  BY <1>1, <1>2, <2>2, <3>1
  <2> QED  BY <2>1, <2>2
<1>4. \A i \in 1 .. Len(g.str) : s[i] \in Cell
  BY <1>1, <1>3 DEF Cell
<1>5. s \in Seq(Cell) /\ Len(s) = g.size
  <2>1. Len(g.str) \in Nat /\ s = [i \in 1 .. Len(g.str) |-> s[i]]
    BY <1>3
  <2> HIDE DEF s, g, cell
  <2>2. s \in Seq(Cell) /\ Len(s) = Len(g.str)
    BY <1>4, <2>1, FunctionIsSequence, Zenon
  <2> QED  BY <1>3, <2>2
<1>6. /\ Received(b, c).str = s
      /\ Received(b, c).len = n
      /\ Received(b, c).size = g.size
      /\ Received(b, c) = [str |-> s, len |-> n, size |-> g.size]
  <2>1. g = [str |-> g.str, len |-> g.len, size |-> g.size]
    BY DEF Grown, Buffer
  <2>2. Received(b, c) = [[g EXCEPT !.len = n] EXCEPT !.str = s]
    BY DEF Received
  <2> HIDE DEF s, g, n
  <2> QED  BY <2>1, <2>2
<1>7. s[n + 1] = Nul
  BY <1>1, <1>3
<1>8. \A i \in 1 .. n : s[i] = c[i]
  BY <1>1, <1>3
<1> HIDE DEF s, g, n
<1> QED
  <2>1. IsCString(Received(b, c), c)
    BY <1>1, <1>3, <1>5, <1>6, <1>7, <1>8 DEF IsCString, n
  <2> QED  BY <1>1, <1>3, <1>5, <1>6, <1>7, <2>1 DEF Buffer

(* What every API function starts with is a safe buffer that holds the     *)
(* empty string.                                                           *)
LEMMA FreshIsSafe ==
  /\ Fresh \in Buffer
  /\ Len(Fresh.str) = Fresh.size
  /\ Fresh.len < Fresh.size
  /\ Fresh.str[Fresh.len + 1] = Nul
  /\ ~IsNull(Fresh)
  /\ IsCString(Fresh, << >>)
<1> DEFINE s == [i \in 1 .. InitialSize |-> Nul]
<1>1. InitialSize \in Nat /\ InitialSize > 0
  BY CurlReturnAssumption
<1>2. s \in Seq(Cell) /\ Len(s) = InitialSize /\ s[1] = Nul
  BY <1>1 DEF Cell
<1>3. Fresh = [str |-> s, len |-> 0, size |-> InitialSize]
  BY DEF Fresh
<1> HIDE DEF s
<1>4. s # << >>
  BY <1>1, <1>2
<1> QED  BY <1>1, <1>2, <1>3, <1>4 DEF Buffer, IsNull, IsCString

-----------------------------------------------------------------------------
(* The inductive invariant: what the callback got last is the end of what  *)
(* was sent, and it is what the buffer holds.                              *)
HoldsLatestChunk ==
  phase # "connect_err" =>
    /\ IsCString(buf, chunk)
    /\ Len(chunk) <= sent
    /\ chunk = SubSeq(body, sent - Len(chunk) + 1, sent)

ParsesAtTheEnd == phase = "parse" => sent = Len(body)

IInv == /\ TypeOK
        /\ BufferSafe
        /\ NullIsNeverUsed
        /\ HoldsLatestChunk
        /\ ParsesAtTheEnd

(* A calloc'ed buffer satisfies the invariant before any chunk has come.   *)
LEMMA InitInvariant == Init => IInv
<1> SUFFICES ASSUME Init PROVE IInv
  OBVIOUS
<1>1. body \in Seq(Byte)
  BY BodiesAssumption DEF Init
<1>2. TypeOK
  BY <1>1, FreshIsSafe DEF Init, TypeOK, Phases
<1>3. BufferSafe /\ NullIsNeverUsed /\ ParsesAtTheEnd
  BY FreshIsSafe DEF Init, BufferSafe, NullIsNeverUsed, ParsesAtTheEnd
<1>4. SubSeq(body, 1, 0) = << >>
  BY <1>1
<1>5. HoldsLatestChunk
  BY <1>4, FreshIsSafe DEF Init, HoldsLatestChunk
<1> QED  BY <1>2, <1>3, <1>5 DEF IInv

(* Every call of the callback, failed or not, and every end of the         *)
(* transfer keeps it.                                                      *)
LEMMA StepInvariant == IInv /\ [Next]_vars => IInv'
<1> SUFFICES ASSUME IInv, [Next]_vars PROVE IInv'
  OBVIOUS
<1> USE DEF IInv, TypeOK, Phases
<1>1. CASE Deliver
  <2>1. PICK n \in ChunkSizes : /\ chunk' = NextChunk(n)
                                /\ buf' = Received(buf, NextChunk(n))
                                /\ sent' = sent + n
    BY <1>1 DEF Deliver
  <2>2. phase = "transfer" /\ phase' = phase /\ body' = body
    BY <1>1 DEF Deliver
  <2>3. n \in Nat /\ n >= 1 /\ sent + n <= Len(body)
    BY <2>1 DEF ChunkSizes
  <2>4. chunk' \in Seq(Byte) /\ Len(chunk') = n
    BY <2>1, <2>3 DEF NextChunk
  <2>5. ~IsNull(buf) /\ Len(buf.str) = buf.size
    BY <2>2 DEF NullIsNeverUsed, BufferSafe
  <2>6. /\ buf' \in Buffer
        /\ Len(buf'.str) = buf'.size
        /\ buf'.len < buf'.size
        /\ buf'.str[buf'.len + 1] = Nul
        /\ IsCString(buf', chunk')
    BY <2>1, <2>4, <2>5, ReceivedIsSafe
  <2>7. TypeOK'
    BY <2>1, <2>2, <2>3, <2>4, <2>6
  <2>8. buf'.str # << >>
    BY <2>6 DEF Buffer
  <2>9. chunk' = SubSeq(body', sent' - Len(chunk') + 1, sent')
    BY <2>1, <2>2, <2>3, <2>4 DEF NextChunk
  <2>10. BufferSafe' /\ NullIsNeverUsed'
    BY <2>6, <2>8 DEF BufferSafe, NullIsNeverUsed, IsNull
  <2>11. Len(chunk') <= sent'
    BY <2>1, <2>3, <2>4
  <2>12. HoldsLatestChunk'
    BY <2>6, <2>9, <2>11 DEF HoldsLatestChunk
  <2>13. ParsesAtTheEnd'
    BY <2>2 DEF ParsesAtTheEnd
  <2> QED
    BY <2>7, <2>10, <2>12, <2>13
<1>2. CASE DeliverNoMemory
  <2>1. PICK n \in ChunkSizes : chunk' = NextChunk(n)
    BY <1>2 DEF DeliverNoMemory
  <2>2. /\ phase' = "connect_err" /\ body' = body /\ sent' = sent
        /\ buf' = ReceiveFailed(buf)
    BY <1>2 DEF DeliverNoMemory
  <2>3. chunk' \in Seq(Byte)
    BY <2>1 DEF ChunkSizes, NextChunk
  <2>4. buf' \in Buffer /\ buf'.str = << >>
    <3> DEFINE null == << >>
    <3>1. null \in Seq(Cell)
      OBVIOUS
    <3>2. buf' = [buf EXCEPT !.str = null]
      BY <2>2 DEF ReceiveFailed
    <3> HIDE DEF null
    <3>3. buf' \in Buffer /\ buf'.str = null
      BY <3>1, <3>2 DEF Buffer
    <3> QED  BY <3>3 DEF null
  <2> QED
    BY <2>2, <2>3, <2>4
       DEF BufferSafe, NullIsNeverUsed, IsNull, HoldsLatestChunk,
           ParsesAtTheEnd
<1>3. CASE Break
  BY <1>3 DEF Break, BufferSafe, NullIsNeverUsed, IsNull, HoldsLatestChunk,
              ParsesAtTheEnd
<1>4. CASE Finish
  BY <1>4 DEF Finish, BufferSafe, NullIsNeverUsed, IsNull, HoldsLatestChunk,
              ParsesAtTheEnd, IsCString
<1>5. CASE UNCHANGED vars
  BY <1>5 DEF vars, BufferSafe, NullIsNeverUsed, IsNull, HoldsLatestChunk,
              ParsesAtTheEnd, IsCString
<1> QED  BY <1>1, <1>2, <1>3, <1>4, <1>5 DEF Next

(* The invariant holds throughout a transfer.                              *)
LEMMA SpecInvariant == Spec => []IInv
<1> QED  BY InitInvariant, StepInvariant, PTL DEF Spec

(* Every variable of a transfer keeps its type: of _recive_data_from_http_ *)
(* api, the buffer stays a buffer whatever it is given.                    *)
THEOREM TypeCorrect == Spec => []TypeOK
<1>1. IInv => TypeOK
  BY DEF IInv
<1> QED  BY <1>1, SpecInvariant, PTL

(* The callback never writes outside the memory it owns.                   *)
THEOREM BufferIsSafe == Spec => []BufferSafe
<1>1. IInv => BufferSafe
  BY DEF IInv
<1> QED  BY <1>1, SpecInvariant, PTL

(* The NULL of a failed realloc is never written through or parsed.        *)
THEOREM NullIsNotUsed == Spec => []NullIsNeverUsed
<1>1. IInv => NullIsNeverUsed
  BY DEF IInv
<1> QED  BY <1>1, SpecInvariant, PTL

(* What the invariant says of the text an API function parses.             *)
LEMMA InvariantParsesATail == IInv => ParsedIsTail
<1> SUFFICES ASSUME IInv, phase = "parse"
             PROVE  \E k \in 0 .. Len(body) :
                      IsCString(buf, SubSeq(body, k + 1, Len(body)))
  BY DEF ParsedIsTail
<1>1. /\ IsCString(buf, chunk)
      /\ Len(chunk) <= Len(body)
      /\ chunk = SubSeq(body, Len(body) - Len(chunk) + 1, Len(body))
  BY DEF IInv, HoldsLatestChunk, ParsesAtTheEnd
<1>2. Len(body) - Len(chunk) \in 0 .. Len(body)
  BY <1>1 DEF IInv, TypeOK
<1> QED  BY <1>1, <1>2

(* The parser is given the end of the response and nothing else.           *)
THEOREM ParsedTextIsATail == Spec => []ParsedIsTail
<1> QED  BY InvariantParsesATail, SpecInvariant, PTL
=============================================================================
