------------------------- MODULE HttpTransferProofs -------------------------
(***************************************************************************)
(* Proofs about one curl_easy_perform for every request, every service and *)
(* every way its reply is cut into reads: what the callback is given is    *)
(* the beginning of the body, success means the whole of it, and the       *)
(* transfer is one of HttpReceive.tla.                                     *)
(***************************************************************************)
EXTENDS HttpTransfer, WellFoundedInduction, TLAPS

(* Before the transfer nothing is under way.                               *)
Untouched ==
  mstate \in {"INIT", "CONNECT", "WAITRESOLVE", "WAITCONNECT", "DO"} =>
    /\ keepon = {} /\ exp100 = "SEND_DATA" /\ pass = "select"
    /\ read = 0 /\ used = 0 /\ closing = FALSE

(* An error goes straight to the end; so does success, from MSGSENT.       *)
Results ==
  /\ mstate \notin {"COMPLETED", "MSGSENT"} => result = "OK"
  /\ code = "OK" => result = "OK" /\ mstate = "MSGSENT"
  /\ peer \in {"fin", "reset"} => put = svc.cut
  /\ result = "OK" => Len(buf.str) = buf.size

(* What libcurl knows of the header behind the tokens it has used.         *)
Line(l, line) == svc.script[l].t = line

HeaderSoFar ==
  /\ k.header <=> used < svc.head
  /\ k.header => /\ k.bytecount = 0 /\ got = << >>
                 /\ ch = [state |-> "HEX", datasize |-> 0]
  /\ used \in {0, svc.interim} => k.headers = 0
  /\ used > 0 /\ used < svc.interim => k.httpcode \in 100 .. 199
  /\ used > svc.interim => k.httpcode = svc.script[svc.interim + 1].v

HeaderSays ==
  k.header =>
    /\ closing => \E l \in 1 .. used : Line(l, "close")
    /\ k.chunk <=> \E l \in 1 .. used : Line(l, "chunked")
    /\ k.ignorecl <=> used > svc.interim /\ NoBody(svc)
    /\ k.ignorecl => k.size = 0
    /\ ~k.ignorecl =>
         \/ k.size = -1 /\ \A l \in 1 .. used : ~Line(l, "length")
         \/ \E l \in 1 .. used : Line(l, "length") /\ k.size = svc.script[l].v

HeaderSaid ==
  ~k.header =>
    /\ k.chunk <=> Says(svc, "chunked")
    /\ k.size = IF Says(svc, "chunked") THEN -1
                ELSE IF NoBody(svc) THEN 0
                ELSE IF Says(svc, "length") THEN Len(svc.body) ELSE -1

(* What the callback has been given is the beginning of the body.          *)
PlainBody ==
  result = "OK" /\ ~k.header /\ ~k.chunk =>
    /\ k.bytecount <= Len(svc.body)
    /\ got = SubSeq(svc.body, 1, k.bytecount)
    /\ "recv" \in keepon \/ k.size = -1 => used = svc.head + k.bytecount
    /\ "recv" \in keepon /\ k.size # -1 => k.bytecount < k.size

ChunkedBody ==
  result = "OK" /\ ~k.header /\ k.chunk =>
    Dechunked(svc)[used - svc.head] =
      [state |-> ch.state, datasize |-> ch.datasize, bytes |-> got]

(* Why libcurl reads no more, and what it then has.                        *)
Ended ==
  /\ "recv" \in keepon /\ pass # "read" => used = read
  /\ /\ mstate \in {"PERFORM", "DONE", "COMPLETED", "MSGSENT"} /\ result = "OK"
     /\ "recv" \notin keepon
     /\ k.header \/ (k.size = -1 /\ ~k.chunk)
     => used = svc.cut
  /\ mstate \in {"DONE", "COMPLETED", "MSGSENT"} /\ result = "OK" =>
       "recv" \notin keepon /\ ~Partial
  /\ mstate \in {"COMPLETED", "MSGSENT"} /\ result = "OK" =>
       k.bytecount + k.headers > 0

(* A refused body has neither a reason to be sent nor a timer.             *)
Refusal ==
  /\ ~req.form => exp100 = "SEND_DATA"
  /\ Refused => "send" \notin keepon /\ exp100 # "AWAITING_CONTINUE"

IInv == /\ TypeOK /\ Untouched /\ Results
        /\ HeaderSoFar /\ HeaderSays /\ HeaderSaid
        /\ PlainBody /\ ChunkedBody /\ Ended /\ Refusal

-----------------------------------------------------------------------------
(* Every set of numbers has a least one ...                                *)
LEMMA Least ==
  ASSUME NEW S \in SUBSET Nat, S # {}
  PROVE  \E m \in S : \A n \in S : m <= n
<1> DEFINE R == OpToRel(<, Nat)
<1>1. IsWellFoundedOn(R, Nat)
  BY NatLessThanWellFounded
<1>2. \A x, y \in Nat : x < y => <<x, y>> \in R
  BY DEF OpToRel
<1> HIDE DEF R
<1>3. PICK m \in S : \A y \in S : ~(<<y, m>> \in R)
  BY <1>1, WFMin
<1>4. \A n \in S : ~(n < m)
  BY <1>2, <1>3
<1> QED  BY <1>3, <1>4

(* ... so that a set is all numbers if it has 0 and every next number.     *)
LEMMA SetInduction ==
  ASSUME NEW S, 0 \in S, \A n \in Nat : n \in S => n + 1 \in S
  PROVE  Nat \subseteq S
<1> DEFINE T == Nat \ S
<1>1. ASSUME T # {} PROVE FALSE
  <2>1. PICK m \in T : \A n \in T : m <= n
    BY <1>1, Least
  <2>2. m # 0 /\ m - 1 \in Nat /\ m - 1 \notin T
    BY <2>1
  <2> QED  BY <2>1, <2>2
<1> QED  BY <1>1

(* f begins with a, and F makes each of the m next values from the one     *)
(* before.                                                                 *)
Follows(f, a, F, m) ==
  f[0] = a /\ \A n \in 1 .. m : f[n] = F[<<n, f[n - 1]>>]

(* Such a function can be told its next value.                            *)
LEMMA RecursionStep ==
  ASSUME NEW S, NEW N \in Nat, NEW a \in S, NEW F \in [(1 .. N) \X S -> S],
         NEW m \in Nat, m + 1 <= N,
         NEW f \in [0 .. m -> S],
         Follows(f, a, F, m)
  PROVE  \E g \in [0 .. m + 1 -> S] : Follows(g, a, F, m + 1)
<1> USE DEF Follows
<1>1. PICK v \in S : v = F[<<m + 1, f[m]>>]
  <2>1. m + 1 \in 1 .. N /\ f[m] \in S
    OBVIOUS
  <2>2. <<m + 1, f[m]>> \in (1 .. N) \X S
    BY <2>1
  <2>3. F[<<m + 1, f[m]>>] \in S
    BY <2>2
  <2> QED  BY <2>3
<1>2. PICK g \in [0 .. m + 1 -> S] :
             g[m + 1] = v /\ \A n \in 0 .. m : g[n] = f[n]
  <2> DEFINE g == [n \in 0 .. m + 1 |-> IF n = m + 1 THEN v ELSE f[n]]
  <2>1. \A n \in 0 .. m + 1 : n # m + 1 => n \in 0 .. m
    OBVIOUS
  <2>2. m + 1 \in 0 .. m + 1 /\ \A n \in 0 .. m : n \in 0 .. m + 1 /\ n # m + 1
    OBVIOUS
  <2>3. g \in [0 .. m + 1 -> S]
    BY <2>1
  <2>4. g[m + 1] = v /\ \A n \in 0 .. m : g[n] = f[n]
    BY <2>2
  <2> QED  BY <2>3, <2>4
<1>3. ASSUME NEW n \in 1 .. m + 1 PROVE g[n] = F[<<n, g[n - 1]>>]
  <2>1. n - 1 \in 0 .. m
    OBVIOUS
  <2>2. g[n - 1] = f[n - 1]
    BY <1>2, <2>1
  <2>3. CASE n = m + 1
    <3>1. n - 1 = m
      BY <2>3
    <3> QED  BY <1>1, <1>2, <2>2, <2>3, <3>1
  <2>4. CASE n # m + 1
    <3>1. n \in 1 .. m /\ n \in 0 .. m
      BY <2>4
    <3> QED  BY <1>2, <2>2, <3>1
  <2> QED  BY <2>3, <2>4
<1>4. 0 \in 0 .. m
  OBVIOUS
<1> QED  BY <1>2, <1>3, <1>4

(* A function may be defined by what its first value is and how each value *)
(* follows from the one before.                                            *)
LEMMA RecursionExists ==
  ASSUME NEW S, NEW N \in Nat, NEW a \in S, NEW F \in [(1 .. N) \X S -> S]
  PROVE  \E f \in [0 .. N -> S] : Follows(f, a, F, N)
<1> DEFINE Upto(m) == \E f \in [0 .. m -> S] : Follows(f, a, F, m)
           T == {m \in Nat : m <= N => Upto(m)}
<1>1. Upto(0)
  <2> DEFINE g == [n \in 0 .. 0 |-> a]
  <2>1. g \in [0 .. 0 -> S] /\ g[0] = a /\ \A n \in 1 .. 0 : FALSE
    OBVIOUS
  <2> HIDE DEF g
  <2> QED  BY <2>1 DEF Follows
<1>2. ASSUME NEW m \in Nat, m + 1 <= N, Upto(m) PROVE Upto(m + 1)
  <2>1. PICK f \in [0 .. m -> S] : Follows(f, a, F, m)
    BY <1>2
  <2> QED  BY <1>2, <2>1, RecursionStep
<1> HIDE DEF Upto
<1>3. 0 \in T
  BY <1>1
<1>4. ASSUME NEW m \in Nat, m \in T PROVE m + 1 \in T
  BY <1>2, <1>4
<1>5. N \in T
  <2> HIDE DEF T
  <2> QED  BY <1>3, <1>4, SetInduction
<1> QED  BY <1>5 DEF Upto

-----------------------------------------------------------------------------
(* The decoder's states: in the data of a chunk some of it is missing.     *)
Decoder == {d \in [state : {"HEX", "DATA", "POSTLF", "TRAILER", "STOP"},
                   datasize : Nat, bytes : Seq(Byte)] :
              d.state = "DATA" <=> d.datasize > 0}

(* AnyByte is a byte.                                                      *)
LEMMA AnyByteFacts == AnyByte \in Byte
<1>1. \E b \in Byte : TRUE
  BY TransferAssumption
<1> QED  BY <1>1 DEF AnyByte

(* Of a service's tokens.                                                  *)
LEMMA TokenFacts ==
  ASSUME NEW s \in Services
  PROVE  /\ ServiceTypes(s) /\ ServiceHeaders(s) /\ ServiceBody(s)
         /\ Len(s.script) \in Nat /\ s.head \in Nat /\ s.interim \in Nat
         /\ s.cut \in Nat /\ s.cut <= Len(s.script)
         /\ s.interim + 1 < s.head /\ s.head <= Len(s.script)
         /\ Len(s.script) - s.head \in Nat
         /\ \A i \in 1 .. Len(s.script) : ByteOf(s.script[i]) \in Byte
<1>1. ServiceTypes(s) /\ ServiceHeaders(s) /\ ServiceBody(s)
  BY TransferAssumption DEF ServiceAssumption
<1>2. s.interim + 1 < s.head
  BY <1>1 DEF ServiceHeaders, Header
<1>3. /\ Len(s.script) \in Nat /\ s.head \in Nat /\ s.interim \in Nat
      /\ s.cut \in Nat /\ s.cut <= Len(s.script) /\ s.head <= Len(s.script)
  BY <1>1 DEF ServiceTypes
<1>4. ASSUME NEW i \in 1 .. Len(s.script) PROVE ByteOf(s.script[i]) \in Byte
  BY <1>1, AnyByteFacts DEF ServiceTypes, ByteOf
<1> QED  BY <1>1, <1>2, <1>3, <1>4

(* A token makes a decoder's state of a decoder's state.                   *)
LEMMA DechunkType ==
  ASSUME NEW s \in Services, NEW i \in 1 .. Len(s.script), NEW d \in Decoder
  PROVE  Dechunk(d, s.script[i]) \in Decoder
<1> DEFINE t == s.script[i]
           none == << >>
<1>1. ByteOf(t) \in Byte /\ (t.t = "size" => t.v \in Nat)
  BY TokenFacts DEF ServiceTypes
<1> HIDE DEF t
<1>2. /\ d.state \in {"HEX", "DATA", "POSTLF", "TRAILER", "STOP"}
      /\ d.datasize \in Nat /\ d.bytes \in Seq(Byte)
      /\ d.state = "DATA" <=> d.datasize > 0
      /\ d = [state |-> d.state, datasize |-> d.datasize, bytes |-> d.bytes]
  BY DEF Decoder
<1>3. CASE d.state = "DATA"
  <2>1. Dechunk(d, t) = [state    |-> IF d.datasize = 1 THEN "POSTLF" ELSE "DATA",
                         datasize |-> d.datasize - 1,
                         bytes    |-> Append(d.bytes, ByteOf(t))]
    BY <1>3 DEF Dechunk
  <2>2. Append(d.bytes, ByteOf(t)) \in Seq(Byte)
    BY <1>1, <1>2
  <2> QED  BY <1>2, <1>3, <2>1, <2>2 DEF Decoder, t
<1>4. CASE d.state = "HEX" /\ t.t = "size"
  <2> DEFINE state == IF t.v = 0 THEN "TRAILER" ELSE "DATA"
  <2>1. Dechunk(d, t) = [d EXCEPT !.state = state, !.datasize = t.v]
    BY <1>4 DEF Dechunk
  <2>2. /\ state \in {"DATA", "TRAILER"} /\ t.v \in Nat
        /\ state = "DATA" <=> t.v > 0
    BY <1>1, <1>4
  <2> HIDE DEF state
  <2>3. Dechunk(d, t) = [state |-> state, datasize |-> t.v, bytes |-> d.bytes]
    BY <1>2, <2>1
  <2>4. Dechunk(d, t) \in Decoder
    BY <1>2, <2>2, <2>3 DEF Decoder
  <2> QED  BY <2>4 DEF t
<1>5. CASE d.state = "POSTLF" /\ t.t = "lf"
  <2>1. Dechunk(d, t) = [d EXCEPT !.state = "HEX", !.datasize = 0]
    BY <1>5 DEF Dechunk
  <2>2. Dechunk(d, t) = [state |-> "HEX", datasize |-> 0, bytes |-> d.bytes]
    BY <1>2, <2>1
  <2>3. Dechunk(d, t) \in Decoder
    BY <1>2, <2>2 DEF Decoder
  <2> QED  BY <2>3 DEF t
<1>6. CASE \/ d.state = "POSTLF" /\ t.t = "cr"
           \/ d.state = "TRAILER" /\ t.t \notin {"cr", "lf"}
  <2>1. Dechunk(d, t) = d
    BY <1>6 DEF Dechunk
  <2> QED  BY <2>1 DEF t
<1>7. CASE /\ d.state # "DATA"
           /\ ~(d.state = "HEX" /\ t.t = "size")
           /\ ~(d.state = "POSTLF" /\ t.t \in {"cr", "lf"})
           /\ ~(d.state = "TRAILER" /\ t.t \notin {"cr", "lf"})
  <2>1. Dechunk(d, t) = [d EXCEPT !.state = "STOP"]
    BY <1>7 DEF Dechunk
  <2> QED  BY <1>2, <1>7, <2>1 DEF Decoder, t
<1> QED  BY <1>3, <1>4, <1>5, <1>6, <1>7

(* What Dechunked says of the first n tokens behind a header.              *)
LEMMA DechunkedFacts ==
  ASSUME NEW s \in Services
  PROVE  /\ Dechunked(s)[0] = [state |-> "HEX", datasize |-> 0, bytes |-> << >>]
         /\ \A n \in 0 .. Len(s.script) - s.head : Dechunked(s)[n] \in Decoder
         /\ \A n \in 1 .. Len(s.script) - s.head :
              Dechunked(s)[n] = Dechunk(Dechunked(s)[n - 1], s.script[s.head + n])
<1> DEFINE N == Len(s.script) - s.head
           none == << >>
           first == [state |-> "HEX", datasize |-> 0, bytes |-> none]
           Rec(g) == [n \in 0 .. N |->
                       IF n = 0 THEN first
                       ELSE Dechunk(g[n - 1], s.script[s.head + n])]
           d == CHOOSE g : g = Rec(g)
           F == [x \in (1 .. N) \X Decoder |-> Dechunk(x[2], s.script[s.head + x[1]])]
<1>1. /\ N \in Nat
      /\ \A n \in 1 .. N : s.head + n \in 1 .. Len(s.script)
  BY TokenFacts
<1>2. Dechunked(s) = d
  BY DEF Dechunked
<1>3. first \in Decoder
  <2>1. none \in Seq(Byte)
    OBVIOUS
  <2> HIDE DEF none
  <2> QED  BY <2>1 DEF Decoder
<1>4. F \in [(1 .. N) \X Decoder -> Decoder]
  <2>1. ASSUME NEW n \in 1 .. N, NEW e \in Decoder
        PROVE  Dechunk(e, s.script[s.head + n]) \in Decoder
    BY <1>1, DechunkType
  <2> QED  BY <2>1
<1>5. ASSUME NEW n \in 1 .. N, NEW e \in Decoder
      PROVE  F[<<n, e>>] = Dechunk(e, s.script[s.head + n])
  OBVIOUS
<1> HIDE DEF F, first, N
<1>6. PICK f \in [0 .. N -> Decoder] : Follows(f, first, F, N)
  BY <1>1, <1>3, <1>4, RecursionExists
<1>7. f = Rec(f)
  <2>1. f = [n \in 0 .. N |-> f[n]]
    OBVIOUS
  <2>2. ASSUME NEW n \in 0 .. N
        PROVE  f[n] = IF n = 0 THEN first
                      ELSE Dechunk(f[n - 1], s.script[s.head + n])
    <3>1. CASE n = 0
      BY <1>6, <3>1 DEF Follows
    <3>2. CASE n # 0
      <4>1. n \in 1 .. N /\ f[n - 1] \in Decoder
        BY <1>1, <3>2
      <4>2. f[n] = F[<<n, f[n - 1]>>]
        BY <1>6, <4>1 DEF Follows
      <4> QED  BY <1>5, <3>2, <4>1, <4>2
    <3> QED  BY <3>1, <3>2
  <2> QED  BY <2>1, <2>2
<1>8. d = Rec(d)
  <2> HIDE DEF Rec
  <2> QED  BY <1>7
<1> HIDE DEF d
<1>9. d[0] = first
  <2>1. 0 \in 0 .. N
    BY <1>1
  <2> QED  BY <1>8, <2>1
<1>10. ASSUME NEW n \in 1 .. N
       PROVE  d[n] = Dechunk(d[n - 1], s.script[s.head + n])
  <2>1. n \in 0 .. N /\ n # 0
    BY <1>1
  <2> QED  BY <1>8, <2>1
<1>11. \A n \in 0 .. N : d[n] \in Decoder
  <2> DEFINE T == {n \in Nat : n <= N => d[n] \in Decoder}
  <2>1. 0 \in T
    BY <1>3, <1>9
  <2>2. ASSUME NEW n \in Nat, n \in T PROVE n + 1 \in T
    <3> SUFFICES ASSUME n + 1 <= N PROVE d[n + 1] \in Decoder
      OBVIOUS
    <3>1. n + 1 \in 1 .. N /\ (n + 1) - 1 = n /\ n <= N
      BY <1>1
    <3>2. d[n] \in Decoder
      BY <2>2, <3>1
    <3>3. s.head + (n + 1) \in 1 .. Len(s.script)
      BY <1>1, <3>1
    <3> QED  BY <1>10, <3>1, <3>2, <3>3, DechunkType
  <2>3. Nat \subseteq T
    <3> HIDE DEF T
    <3> QED  BY <2>1, <2>2, SetInduction
  <2> QED  BY <1>1, <2>3
<1> QED  BY <1>2, <1>9, <1>10, <1>11 DEF first, N
-----------------------------------------------------------------------------
(* A sequence behind a sequence.                                           *)
LEMMA ConcatFacts ==
  ASSUME NEW S, NEW x \in Seq(S), NEW y \in Seq(S)
  PROVE  /\ x \o y \in Seq(S) /\ Len(x \o y) = Len(x) + Len(y)
         /\ \A i \in 1 .. Len(x) : (x \o y)[i] = x[i]
         /\ \A i \in 1 .. Len(y) : (x \o y)[Len(x) + i] = y[i]
<1> QED  OBVIOUS

(* Two sequences are one if they are as long and agree everywhere.         *)
LEMMA SameSequence ==
  ASSUME NEW S, NEW x \in Seq(S), NEW y \in Seq(S), Len(x) = Len(y),
         \A i \in 1 .. Len(x) : x[i] = y[i]
  PROVE  x = y
<1> QED  OBVIOUS

(* x is the beginning of y.                                                *)
Begins(x, y) == Len(x) <= Len(y) /\ \A i \in 1 .. Len(x) : x[i] = y[i]

(* The part of a sequence behind its beginning.                            *)
LEMMA PartFacts ==
  ASSUME NEW S, NEW x \in Seq(S), NEW i \in Nat, NEW j \in Nat,
         i <= j, j <= Len(x)
  PROVE  /\ SubSeq(x, i + 1, j) \in Seq(S) /\ Len(SubSeq(x, i + 1, j)) = j - i
         /\ \A l \in 1 .. j - i : SubSeq(x, i + 1, j)[l] = x[i + l]
<1> QED  OBVIOUS

(* The n bytes that the tokens from the m-th on behind a header stand for. *)
BytesOf(s, m, n) == [i \in 1 .. n |-> ByteOf(s.script[s.head + m + i])]

(* They are bytes, as long as there are so many tokens.                    *)
LEMMA BytesFacts ==
  ASSUME NEW s \in Services, NEW m \in Nat, NEW n \in Nat,
         s.head + m + n <= Len(s.script)
  PROVE  /\ BytesOf(s, m, n) \in Seq(Byte) /\ Len(BytesOf(s, m, n)) = n
         /\ \A i \in 1 .. n : BytesOf(s, m, n)[i] = ByteOf(s.script[s.head + m + i])
<1> DEFINE f == BytesOf(s, m, n)
<1>1. \A i \in 1 .. n : s.head + m + i \in 1 .. Len(s.script)
  BY TokenFacts
<1>2. ASSUME NEW i \in 1 .. n
      PROVE  f[i] \in Byte /\ f[i] = ByteOf(s.script[s.head + m + i])
  BY <1>1, TokenFacts DEF BytesOf
<1>3. f \in [1 .. n -> Byte]
  BY <1>2 DEF BytesOf
<1> HIDE DEF f
<1> QED  BY <1>2, <1>3 DEF f

(* In the data of a chunk the decoder takes one byte after the other.      *)
LEMMA ChunkDataRun ==
  ASSUME NEW s \in Services, NEW m \in Nat, NEW n \in Nat,
         s.head + m + n <= Len(s.script),
         Dechunked(s)[m].state = "DATA", n <= Dechunked(s)[m].datasize
  PROVE  LET d == Dechunked(s)
         IN  /\ d[m + n].state = IF n = d[m].datasize THEN "POSTLF" ELSE "DATA"
             /\ d[m + n].datasize = d[m].datasize - n
             /\ d[m + n].bytes = d[m].bytes \o BytesOf(s, m, n)
<1> DEFINE d == Dechunked(s)
           N == Len(s.script) - s.head
           Run(j) == /\ d[m + j].state = IF j = d[m].datasize THEN "POSTLF" ELSE "DATA"
                     /\ d[m + j].datasize = d[m].datasize - j
                     /\ d[m + j].bytes = d[m].bytes \o BytesOf(s, m, j)
           T == {j \in Nat : j <= n => Run(j)}
<1>1. N \in Nat /\ m + n <= N /\ s.head \in Nat
  BY TokenFacts
<1>2. /\ \A i \in 0 .. N : d[i] \in Decoder
      /\ \A i \in 1 .. N : d[i] = Dechunk(d[i - 1], s.script[s.head + i])
  BY DechunkedFacts
<1>3. d[m] \in Decoder /\ d[m].state = "DATA" /\ n <= d[m].datasize
  BY <1>1, <1>2
<1>4. d[m].datasize \in Nat /\ d[m].datasize > 0 /\ d[m].bytes \in Seq(Byte)
  BY <1>3 DEF Decoder
<1> HIDE DEF d
<1>5. Run(0)
  <2> DEFINE e == BytesOf(s, m, 0)
             b == d[m].bytes
  <2>1. e \in Seq(Byte) /\ Len(e) = 0
    <3>1. s.head + m + 0 <= Len(s.script)
      BY <1>1
    <3> QED  BY <3>1, BytesFacts
  <2> HIDE DEF e
  <2>2. b \o e = b
    <3> HIDE DEF b
    <3>1. b \in Seq(Byte)
      BY <1>4 DEF b
    <3> QED  BY <2>1, <3>1
  <2> QED  BY <1>3, <1>4, <2>2 DEF e
<1>6. ASSUME NEW j \in Nat, j + 1 <= n, Run(j) PROVE Run(j + 1)
  <2> DEFINE x == BytesOf(s, m, j)
             y == BytesOf(s, m, j + 1)
             b == d[m].bytes
             t == ByteOf(s.script[s.head + m + (j + 1)])
  <2>1. j # d[m].datasize /\ d[m + j].state = "DATA"
    BY <1>3, <1>4, <1>6
  <2>2. m + (j + 1) \in 1 .. N /\ (m + (j + 1)) - 1 = m + j
        /\ s.head + (m + (j + 1)) = s.head + m + (j + 1)
    <3>1. j + 1 <= n
      BY <1>6
    <3> HIDE DEF N
    <3> QED  BY <1>1, <3>1
  <2>3. d[m + (j + 1)] = Dechunk(d[m + j], s.script[s.head + m + (j + 1)])
    BY <1>2, <2>2
  <2>4. d[m + (j + 1)] = [state    |-> IF d[m + j].datasize = 1 THEN "POSTLF" ELSE "DATA",
                          datasize |-> d[m + j].datasize - 1,
                          bytes    |-> Append(d[m + j].bytes, t)]
    BY <2>1, <2>3 DEF Dechunk
  <2>5. /\ x \in Seq(Byte) /\ Len(x) = j
        /\ y \in Seq(Byte) /\ Len(y) = j + 1
        /\ \A i \in 1 .. j : y[i] = x[i]
        /\ y[j + 1] = t /\ t \in Byte
    <3>1. s.head + m + j <= Len(s.script) /\ s.head + m + (j + 1) <= Len(s.script)
      BY <1>1, <1>6
    <3>2. \A i \in 1 .. j : i \in 1 .. j + 1
      OBVIOUS
    <3>3. s.head + m + (j + 1) \in 1 .. Len(s.script)
      BY <1>1, <3>1
    <3>4. t \in Byte
      BY <3>3, TokenFacts
    <3>5. /\ x \in Seq(Byte) /\ Len(x) = j
          /\ \A i \in 1 .. j : x[i] = ByteOf(s.script[s.head + m + i])
      BY <3>1, BytesFacts
    <3>6. /\ y \in Seq(Byte) /\ Len(y) = j + 1
          /\ \A i \in 1 .. j + 1 : y[i] = ByteOf(s.script[s.head + m + i])
      BY <3>1, BytesFacts
    <3> QED  BY <3>2, <3>4, <3>5, <3>6
  <2>6. Append(b \o x, t) = b \o y
    <3>1. b \in Seq(Byte)
      BY <1>4
    <3> HIDE DEF b, x, y, t
    <3>2. x \in Seq(Byte) /\ t \in Byte
      BY <2>5
    <3>3. Append(b \o x, t) = b \o Append(x, t)
      BY ONLY <3>1, <3>2
    <3>4. y = Append(x, t)
      BY <2>5
    <3> QED  BY <3>3, <3>4
  <2>7. d[m + (j + 1)].bytes = b \o y
    <3>1. d[m + j].bytes = b \o x
      BY <1>6
    <3>2. d[m + (j + 1)].bytes = Append(d[m + j].bytes, t)
      BY <2>4
    <3> HIDE DEF b, x, y, t
    <3> QED  BY <2>6, <3>1, <3>2
  <2>8. /\ d[m + (j + 1)].datasize = d[m].datasize - (j + 1)
        /\ d[m + (j + 1)].state = IF j + 1 = d[m].datasize THEN "POSTLF" ELSE "DATA"
    BY <1>4, <1>6, <2>4
  <2> QED  BY <2>7, <2>8
<1>7. n \in T
  <2>1. 0 \in T
    BY <1>5
  <2>2. ASSUME NEW j \in Nat, j \in T PROVE j + 1 \in T
    <3> HIDE DEF Run
    <3> QED  BY <1>6, <2>2
  <2> HIDE DEF T
  <2> QED  BY <2>1, <2>2, SetInduction
<1> QED  BY <1>7 DEF d

(* What has come of a body stays its beginning, and a decoder that has     *)
(* stopped adds nothing to it.                                             *)
LEMMA DechunkedGrows ==
  ASSUME NEW s \in Services, NEW m \in Nat, NEW n \in Nat,
         s.head + m + n <= Len(s.script)
  PROVE  LET d == Dechunked(s)
         IN  /\ Begins(d[m].bytes, d[m + n].bytes)
             /\ d[m].state = "STOP" => d[m + n].state = "STOP"
                                       /\ d[m + n].bytes = d[m].bytes
<1> DEFINE d == Dechunked(s)
           N == Len(s.script) - s.head
           Grows(j) == /\ Begins(d[m].bytes, d[m + j].bytes)
                       /\ d[m].state = "STOP" => d[m + j].state = "STOP"
                                                 /\ d[m + j].bytes = d[m].bytes
           T == {j \in Nat : j <= n => Grows(j)}
<1>1. N \in Nat /\ m + n <= N /\ s.head \in Nat
  BY TokenFacts
<1>2. /\ \A i \in 0 .. N : d[i] \in Decoder
      /\ \A i \in 1 .. N : d[i] = Dechunk(d[i - 1], s.script[s.head + i])
  BY DechunkedFacts
<1> HIDE DEF d
<1>3. Grows(0)
  <2>1. d[m].bytes \in Seq(Byte)
    BY <1>1, <1>2 DEF Decoder
  <2> QED  BY <2>1 DEF Begins
<1>4. ASSUME NEW j \in Nat, j + 1 <= n, Grows(j) PROVE Grows(j + 1)
  <2> DEFINE a == d[m + j]
             e == d[m + (j + 1)]
             t == s.script[s.head + (m + (j + 1))]
  <2>1. m + (j + 1) \in 1 .. N /\ (m + (j + 1)) - 1 = m + j
        /\ m + j \in 0 .. N /\ m \in 0 .. N
    BY <1>1, <1>4
  <2>2. e = Dechunk(a, t) /\ a \in Decoder /\ d[m] \in Decoder
    BY <1>2, <2>1
  <2>3. s.head + (m + (j + 1)) \in 1 .. Len(s.script)
    BY <1>1, <2>1
  <2>4. ByteOf(t) \in Byte
    BY <2>3, TokenFacts
  <2>5. /\ Begins(d[m].bytes, a.bytes)
        /\ d[m].state = "STOP" => a.state = "STOP" /\ a.bytes = d[m].bytes
    BY <1>4
  <2> HIDE DEF a, e, t
  <2>6. a = [state |-> a.state, datasize |-> a.datasize, bytes |-> a.bytes]
        /\ a.bytes \in Seq(Byte) /\ d[m].bytes \in Seq(Byte)
    BY <2>2 DEF Decoder
  <2>7. \/ a.state = "DATA" /\ e.bytes = Append(a.bytes, ByteOf(t))
        \/ a.state # "DATA" /\ e.bytes = a.bytes
                            /\ (a.state = "STOP" => e.state = "STOP")
    <3>1. CASE a.state = "DATA"
      BY <2>2, <3>1 DEF Dechunk
    <3>2. CASE a.state # "DATA"
      <4>1. e.bytes = a.bytes
        BY <2>2, <2>6, <3>2 DEF Dechunk
      <4>2. a.state = "STOP" => e.state = "STOP"
        BY <2>2, <2>6 DEF Dechunk
      <4> QED  BY <3>2, <4>1, <4>2
    <3> QED  BY <3>1, <3>2
  <2>8. Begins(d[m].bytes, e.bytes)
    <3>1. CASE e.bytes = a.bytes
      BY <2>5, <3>1
    <3>2. CASE e.bytes = Append(a.bytes, ByteOf(t))
      BY <2>4, <2>5, <2>6, <3>2 DEF Begins
    <3> QED  BY <2>7, <3>1, <3>2
  <2>9. d[m].state = "STOP" => e.state = "STOP" /\ e.bytes = d[m].bytes
    BY <2>5, <2>7
  <2> QED  BY <2>8, <2>9 DEF e
<1>5. n \in T
  <2>1. 0 \in T
    BY <1>3
  <2>2. ASSUME NEW j \in Nat, j \in T PROVE j + 1 \in T
    <3> HIDE DEF Grows
    <3> QED  BY <1>4, <2>2
  <2> HIDE DEF T
  <2> QED  BY <2>1, <2>2, SetInduction
<1> QED  BY <1>5 DEF d
-----------------------------------------------------------------------------
(* The body HttpReceive.tla delivers is a sequence of bytes.               *)
LEMMA BodyFacts ==
  ASSUME NEW s \in Services
  PROVE  BodyOf(s) \in Seq(Byte) /\ s.body \in Seq(Byte)
<1>1. s.body \in Seq(Byte) /\ s.cut \in Nat /\ s.head \in Nat
  BY TokenFacts DEF ServiceTypes
<1>2. ASSUME ~(s.cut < s.head), ~s.framed PROVE BodyOf(s) \in Seq(Byte)
  <2>1. s.cut <= Len(s.script) /\ Len(s.script) \in Nat /\ s.framed \in BOOLEAN
    BY TokenFacts DEF ServiceTypes
  <2>2. BodyOf(s) = SubSeq(s.body, 1, s.cut - s.head)
    BY <1>2 DEF BodyOf
  <2>3. s.body = [i \in 1 .. Len(s.script) - s.head |-> ByteOf(s.script[s.head + i])]
    BY <1>2, TokenFacts DEF ServiceBody
  <2>4. Len(s.body) = Len(s.script) - s.head
    <3> DEFINE f == [i \in 1 .. Len(s.script) - s.head |-> ByteOf(s.script[s.head + i])]
    <3>1. DOMAIN f = 1 .. Len(s.script) - s.head
      OBVIOUS
    <3> HIDE DEF f
    <3>2. DOMAIN s.body = 1 .. Len(s.script) - s.head
      BY <2>3, <3>1 DEF f
    <3>3. Len(s.script) - s.head \in Nat
      BY TokenFacts
    <3> QED  BY <1>1, <3>2, <3>3
  <2>5. s.cut - s.head \in Nat /\ s.cut - s.head <= Len(s.body)
    BY <1>1, <1>2, <2>1, <2>4
  <2> QED  BY <1>1, <2>2, <2>5
<1>3. ASSUME s.cut < s.head \/ s.framed PROVE BodyOf(s) \in Seq(Byte)
  BY <1>1, <1>3 DEF BodyOf
<1> QED  BY <1>1, <1>2, <1>3

(* HttpReceiveProofs.tla, about the transfer that this one implements.     *)
Receiving == INSTANCE HttpReceiveProofs
               WITH Bodies <- {BodyOf(s) : s \in Services},
                    body   <- BodyOf(svc),
                    sent   <- Len(got),
                    phase  <- IF code = "OK" THEN "parse"
                              ELSE IF code = "none" /\ result = "OK" THEN "transfer"
                              ELSE "connect_err"

(* It makes no more assumptions than this module.                          *)
LEMMA ReceivingAssumptions ==
  Receiving!CurlReturnAssumption /\ Receiving!BodiesAssumption
<1>1. \A s \in Services : BodyOf(s) \in Seq(Byte)
  BY BodyFacts
<1>2. {BodyOf(s) : s \in Services} \subseteq Seq(Byte)
  BY <1>1
<1> QED
  BY <1>2, CurlReturnAssumption
     DEF Receiving!CurlReturnAssumption, Receiving!BodiesAssumption

(* A callback leaves a buffer in a sound state, a failed one at least a    *)
(* buffer.                                                                 *)
LEMMA BufferKept ==
  ASSUME NEW b \in Buffer, Len(b.str) = b.size,
         NEW c \in Seq(Byte)
  PROVE  /\ Received(b, c) \in Buffer
         /\ Len(Received(b, c).str) = Received(b, c).size
         /\ ReceiveFailed(b) \in Buffer
<1> DEFINE null == << >>
<1>1. b \in Receiving!Buffer
  BY DEF Buffer, Receiving!Buffer, Cell, Receiving!Cell
<1>2. /\ Receiving!Received(b, c) \in Receiving!Buffer
      /\ Len(Receiving!Received(b, c).str) = Receiving!Received(b, c).size
  BY <1>1, Receiving!ReceivedIsSafe, ReceivingAssumptions
<1>3. Receiving!Received(b, c) = Received(b, c)
  BY DEF Receiving!Received, Received, Receiving!Grown, Grown
<1>4. Received(b, c) \in Buffer
  BY <1>2, <1>3 DEF Buffer, Receiving!Buffer, Cell, Receiving!Cell
<1>5. ReceiveFailed(b) \in Buffer
  <2>1. null \in Seq(Cell)
    OBVIOUS
  <2>2. ReceiveFailed(b) = [b EXCEPT !.str = null]
    BY DEF ReceiveFailed
  <2> HIDE DEF null
  <2> QED  BY <2>1, <2>2 DEF Buffer
<1> QED  BY <1>2, <1>3, <1>4, <1>5

(* A fresh buffer is a sound one.                                          *)
LEMMA FreshBuffer == Fresh \in Buffer /\ Len(Fresh.str) = Fresh.size
<1>1. /\ Receiving!Fresh \in Receiving!Buffer
      /\ Len(Receiving!Fresh.str) = Receiving!Fresh.size
  BY Receiving!FreshIsSafe, ReceivingAssumptions
<1>2. Receiving!Fresh = Fresh
  BY DEF Receiving!Fresh, Fresh
<1> QED  BY <1>1, <1>2 DEF Buffer, Receiving!Buffer, Cell, Receiving!Cell

-----------------------------------------------------------------------------
Parsed == HeaderSoFar /\ HeaderSays /\ HeaderSaid /\ PlainBody /\ ChunkedBody

(* A new transfer satisfies the invariant.                                 *)
LEMMA InitInvariant == Init => IInv
<1> SUFFICES ASSUME Init PROVE IInv
  OBVIOUS
<1> DEFINE none == << >>
<1>1. /\ svc \in Services /\ req \in Requests
      /\ req.form \in BOOLEAN /\ req.head \in Nat /\ req.rest \in Nat
      /\ svc.interim + 1 < svc.head
      /\ svc.interim \in Nat /\ svc.head \in Nat /\ svc.cut \in Nat
  BY TokenFacts, TransferAssumption DEF Init, RequestAssumption
<1>2. none \in Seq(Byte)
  OBVIOUS
<1>3. chunk = none /\ got = none
  BY DEF Init
<1> HIDE DEF none
<1>4. /\ mstate = "INIT" /\ result = "OK" /\ code = "none" /\ peer = "none"
      /\ pass = "select" /\ keepon = {} /\ exp100 = "SEND_DATA"
      /\ closing = FALSE /\ read = 0 /\ used = 0 /\ put = 0
      /\ head = req.head /\ rest = req.rest /\ buf = Fresh
      /\ ch = [state |-> "HEX", datasize |-> 0]
      /\ k = [header |-> TRUE, httpcode |-> 0, size |-> -1, ignorecl |-> FALSE,
              chunk |-> FALSE, bytecount |-> 0, headers |-> 0]
  BY DEF Init
<1>5. /\ k.header /\ k.httpcode = 0 /\ k.size = -1 /\ ~k.ignorecl
      /\ ~k.chunk /\ k.bytecount = 0 /\ k.headers = 0
  BY <1>4
<1>6. TypeOK
  <2>1. k \in SingleRequest
    BY <1>4 DEF SingleRequest
  <2>2. ch \in Chunker
    BY <1>4 DEF Chunker
  <2>3. chunk \in Seq(Byte) /\ got \in Seq(Byte)
    BY <1>2, <1>3
  <2>4. /\ mstate \in MStates /\ result \in Errors \cup {"OK"}
        /\ code \in Errors \cup {"OK", "none"} /\ exp100 \in Exp100
        /\ pass \in {"select", "read", "sent"} /\ keepon \subseteq {"recv", "send"}
        /\ peer \in {"none", "open", "fin", "reset"} /\ closing \in BOOLEAN
    BY <1>4 DEF MStates, Exp100
  <2>5. /\ head \in 0 .. req.head /\ rest \in 0 .. req.rest
        /\ put \in 0 .. svc.cut /\ read \in 0 .. put /\ used \in 0 .. read
    BY <1>1, <1>4
  <2> QED  BY <1>1, <1>4, <2>1, <2>2, <2>3, <2>4, <2>5, FreshBuffer DEF TypeOK
<1>7. Untouched /\ Results /\ Ended /\ Refusal
  BY <1>1, <1>4, <1>5, FreshBuffer
     DEF Untouched, Results, Ended, Refusal, Refused
<1>8. HeaderSoFar
  BY <1>1, <1>3, <1>4, <1>5 DEF HeaderSoFar, none
<1>9. HeaderSays
  BY <1>1, <1>4, <1>5 DEF HeaderSays
<1>10. HeaderSaid /\ PlainBody /\ ChunkedBody
  BY <1>5 DEF HeaderSaid, PlainBody, ChunkedBody
<1> QED  BY <1>6, <1>7, <1>8, <1>9, <1>10 DEF IInv

(* What is known of the reply stays true while none of it is used.         *)
LEMMA ParsedKept ==
  ASSUME Parsed, UNCHANGED <<svc, used, k, ch, got, closing>>,
         result' = "OK" => result = "OK",
         "recv" \in keepon' => "recv" \in keepon \/ k.header
  PROVE  Parsed'
<1>1. HeaderSoFar'
  BY DEF Parsed, HeaderSoFar
<1>2. HeaderSays'
  BY DEF Parsed, HeaderSays, Line, NoBody
<1>3. HeaderSaid'
  BY DEF Parsed, HeaderSaid, Says, NoBody
<1>4. PlainBody'
  BY DEF Parsed, PlainBody
<1>5. ChunkedBody'
  BY DEF Parsed, ChunkedBody
<1> QED  BY <1>1, <1>2, <1>3, <1>4, <1>5 DEF Parsed

(* What the service does.                                                  *)
LEMMA ServiceInvariant == IInv /\ Service => IInv'
<1> SUFFICES ASSUME IInv, Service PROVE IInv'
  OBVIOUS
<1>1. /\ UNCHANGED <<req, svc, head, rest, mstate, result, code, pass, keepon,
                     exp100, closing, parser>>
      /\ put' \in 0 .. svc.cut /\ put <= put'
      /\ peer' \in {"none", "open", "fin", "reset"}
      /\ peer' \in {"fin", "reset"} => put' = svc.cut
  <2>1. svc.cut \in Nat /\ put \in 0 .. svc.cut
    BY TokenFacts DEF IInv, TypeOK
  <2>2. CASE ServiceSends
    BY <2>1, <2>2 DEF ServiceSends
  <2>3. CASE ServiceCloses
    BY <2>1, <2>3 DEF ServiceCloses
  <2> QED  BY <2>2, <2>3 DEF Service
<1>2. TypeOK'
  BY <1>1 DEF IInv, TypeOK, parser
<1>3. Untouched' /\ Results' /\ Refusal'
  BY <1>1 DEF IInv, Untouched, Results, Refusal, Refused, parser
<1>4. Ended'
  BY <1>1 DEF IInv, Ended, Partial, parser
<1>5. Parsed'
  BY <1>1, ParsedKept DEF IInv, Parsed, parser
<1> QED  BY <1>2, <1>3, <1>4, <1>5 DEF IInv, Parsed

(* Where the transfer begins: the multi handle, the connection, the        *)
(* request's header.                                                       *)
LEMMA BeginInvariant == IInv /\ code = "none" /\ (Start \/ Connect \/ Do) => IInv'
<1> SUFFICES ASSUME IInv, code = "none", Start \/ Connect \/ Do PROVE IInv'
  OBVIOUS
<1>1. /\ mstate \in {"INIT", "CONNECT", "WAITRESOLVE", "WAITCONNECT", "DO"}
      /\ UNCHANGED <<req, svc, rest, put, code, pass, closing, parser>>
  BY DEF Start, Connect, Do, server
<1>2. /\ keepon = {} /\ exp100 = "SEND_DATA" /\ pass = "select"
      /\ read = 0 /\ used = 0 /\ closing = FALSE /\ result = "OK"
  BY <1>1 DEF IInv, Untouched, Results
<1>3. /\ svc.interim \in Nat /\ svc.interim + 1 < svc.head /\ svc.head \in Nat
      /\ req.form \in BOOLEAN
  BY TokenFacts, TransferAssumption DEF IInv, TypeOK, RequestAssumption
<1>4. k.header
  BY <1>2, <1>3 DEF IInv, HeaderSoFar
<1>5. \/ /\ mstate' = "COMPLETED" /\ result' \in Errors
         /\ UNCHANGED <<head, keepon, exp100, peer>>
      \/ /\ mstate' \in {"CONNECT", "WAITRESOLVE", "WAITCONNECT", "DO"}
         /\ result' = "OK" /\ peer' \in {peer, "open"}
         /\ UNCHANGED <<head, keepon, exp100>>
      \/ /\ mstate' = "PERFORM" /\ result' = "OK" /\ peer' = peer
         /\ "recv" \in keepon' /\ keepon' \subseteq {"recv", "send"}
         /\ head' \in 0 .. head
         /\ exp100' \in Exp100 /\ (~req.form => exp100' = "SEND_DATA")
  <2>1. CASE Start
    BY <1>2, <2>1 DEF Start, Fail, Proceed, Errors, server
  <2>2. CASE Connect
    BY <1>2, <2>2 DEF Connect, Connected, NotConnected, Fail, Proceed, Errors
  <2>3. CASE Do
    <3>1. head \in Nat
      BY <1>3, TransferAssumption DEF IInv, TypeOK, RequestAssumption
    <3>2. CASE Fail("SEND_ERROR") /\ UNCHANGED <<head, keepon, exp100>>
      BY <2>3, <3>2 DEF Do, Fail, Errors, server
    <3>3. CASE /\ \E n \in 0 .. head : head' = head - n
               /\ keepon' = IF head' = 0 THEN {"recv"} ELSE {"recv", "send"}
               /\ exp100' = IF ~req.form THEN "SEND_DATA"
                            ELSE IF head' = 0 THEN "AWAITING_CONTINUE"
                                              ELSE "SENDING_REQUEST"
               /\ Proceed("PERFORM")
      <4>1. head' \in 0 .. head
        BY <3>1, <3>3
      <4>2. mstate' = "PERFORM" /\ result' = "OK" /\ peer' = peer
        BY <1>2, <2>3, <3>3 DEF Do, Proceed, server
      <4>3. "recv" \in keepon' /\ keepon' \subseteq {"recv", "send"}
        BY <3>3
      <4>4. exp100' \in Exp100 /\ (~req.form => exp100' = "SEND_DATA")
        BY <3>3 DEF Exp100
      <4> QED  BY <4>1, <4>2, <4>3, <4>4
    <3> QED  BY <2>3, <3>2, <3>3 DEF Do
  <2> QED  BY <2>1, <2>2, <2>3
<1>6. TypeOK'
  <2>1. head \in 0 .. req.head /\ req.head \in Nat
    BY TransferAssumption DEF IInv, TypeOK, RequestAssumption
  <2>2. head' \in 0 .. req.head
    BY <1>5, <2>1
  <2>3. /\ mstate' \in MStates /\ result' \in Errors \cup {"OK"}
        /\ peer' \in {"none", "open", "fin", "reset"}
        /\ keepon' \subseteq {"recv", "send"} /\ exp100' \in Exp100
    BY <1>5 DEF IInv, TypeOK, MStates
  <2> QED  BY <1>1, <2>2, <2>3 DEF IInv, TypeOK, parser
<1>7. Untouched' /\ Results'
  BY <1>1, <1>2, <1>5 DEF IInv, Untouched, Results, parser, Errors
<1>8. Ended'
  BY <1>1, <1>2, <1>5 DEF Ended, parser, Errors
<1>9. Refusal'
  <2>1. ~Refused'
    BY <1>1, <1>4 DEF Refused, parser
  <2>2. ~req'.form => exp100' = "SEND_DATA"
    BY <1>1, <1>2, <1>5
  <2> QED  BY <2>1, <2>2 DEF Refusal
<1>10. Parsed'
  BY <1>1, <1>2, <1>4, ParsedKept DEF IInv, Parsed, parser
<1> QED  BY <1>6, <1>7, <1>8, <1>9, <1>10 DEF IInv, Parsed

(* A transfer that fails.                                                  *)
LEMMA FailInvariant ==
  ASSUME IInv, NEW e \in Errors, mstate = "PERFORM" \/ mstate = "DONE", Fail(e),
         code = "none",
         UNCHANGED <<req, svc, head, rest, server, code, exp100, closing, parser>>,
         keepon' \subseteq keepon, pass' \in {pass, "select"},
         "recv" \in keepon' /\ pass' = "select" => pass = "select"
  PROVE  IInv'
<1>1. mstate' = "COMPLETED" /\ result' # "OK" /\ result' \in Errors
  BY DEF Fail, Errors
<1>2. TypeOK'
  BY <1>1 DEF IInv, TypeOK, MStates, parser, server
<1>3. Untouched' /\ Results'
  BY <1>1 DEF IInv, Untouched, Results, parser, server
<1>4. Ended'
  BY <1>1 DEF IInv, Ended, parser
<1>5. Refusal'
  BY <1>1 DEF IInv, Refusal, Refused, parser
<1>6. Parsed'
  BY <1>1, ParsedKept DEF IInv, Parsed, parser
<1> QED  BY <1>2, <1>3, <1>4, <1>5, <1>6 DEF IInv, Parsed

(* Something was read, or the connection has ended.                        *)
LEMMA ReadInvariant == IInv /\ (Read \/ ReadEnd) => IInv'
<1> SUFFICES ASSUME IInv, Read \/ ReadEnd PROVE IInv'
  OBVIOUS
<1>1. /\ mstate = "PERFORM" /\ pass = "select" /\ "recv" \in keepon
      /\ pass' = "read" /\ used = read
      /\ UNCHANGED <<req, svc, head, rest, put, peer, mstate, result, code,
                     exp100, closing, used, k, ch, buf, chunk, got>>
  BY DEF Read, ReadEnd, Selecting, parser, server, IInv, Ended
<1>2. \/ keepon' = keepon /\ read' \in read .. put
      \/ keepon' = keepon \ {"recv"} /\ read' = read /\ used = svc.cut
  <2>1. CASE Read
    <3>1. put \in Nat /\ read \in 0 .. put
      BY TokenFacts DEF IInv, TypeOK
    <3> QED  BY <2>1, <3>1 DEF Read
  <2>2. CASE ReadEnd
    BY <1>1, <2>2 DEF ReadEnd, parser, IInv, Results
  <2> QED  BY <2>1, <2>2
<1>3. TypeOK'
  <2>1. /\ put \in Nat /\ read \in 0 .. put /\ used \in 0 .. read
        /\ keepon \subseteq {"recv", "send"}
    BY TokenFacts DEF IInv, TypeOK
  <2>2. read' \in read .. put /\ keepon' \subseteq {"recv", "send"}
    <3>1. read \in read .. put
      BY <2>1
    <3> QED  BY <1>2, <2>1, <3>1
  <2>3. read' \in 0 .. put /\ used \in 0 .. read'
    BY <2>1, <2>2
  <2> QED  BY <1>1, <2>2, <2>3 DEF IInv, TypeOK
<1>4. Untouched' /\ Results'
  BY <1>1 DEF IInv, Untouched, Results
<1>5. Ended'
  BY <1>1, <1>2 DEF IInv, Ended
<1>6. Refusal'
  BY <1>1, <1>2 DEF IInv, Refusal, Refused
<1>7. Parsed'
  BY <1>1, <1>2, ParsedKept DEF IInv, Parsed
<1> QED  BY <1>3, <1>4, <1>5, <1>6, <1>7 DEF IInv, Parsed

(* Something was sent, or the second has passed.                           *)
LEMMA SendInvariant == IInv /\ (Send \/ Expire) => IInv'
<1> SUFFICES ASSUME IInv, Send \/ Expire PROVE IInv'
  OBVIOUS
<1>1. /\ mstate = "PERFORM" /\ pass = "select" /\ pass' = "sent"
      /\ UNCHANGED <<req, svc, put, peer, mstate, result, code, closing, parser>>
      /\ "send" \in keepon \/ exp100 = "AWAITING_CONTINUE"
  BY DEF Send, Expire, Selecting, server
<1>2. ~Refused
  BY <1>1 DEF IInv, Refusal
<1>3. /\ head' \in 0 .. head /\ rest' \in 0 .. rest
      /\ keepon' \subseteq keepon \cup {"send"}
      /\ "recv" \in keepon <=> "recv" \in keepon'
      /\ exp100' \in Exp100
      /\ exp100' # exp100 => req.form
  <2>1. head \in Nat /\ rest \in Nat /\ exp100 \in Exp100
        /\ (~req.form => exp100 = "SEND_DATA")
    BY TransferAssumption DEF IInv, TypeOK, RequestAssumption, Refusal
  <2>2. CASE Send
    BY <2>1, <2>2 DEF Send, Exp100
  <2>3. CASE Expire
    BY <2>1, <2>3 DEF Expire, Exp100
  <2> QED  BY <2>2, <2>3
<1>4. TypeOK'
  <2>1. /\ head \in 0 .. req.head /\ rest \in 0 .. req.rest
        /\ req.head \in Nat /\ req.rest \in Nat
        /\ keepon \subseteq {"recv", "send"}
    BY TransferAssumption DEF IInv, TypeOK, RequestAssumption
  <2>2. head' \in 0 .. req.head /\ rest' \in 0 .. req.rest
        /\ keepon' \subseteq {"recv", "send"}
    BY <1>3, <2>1
  <2> QED  BY <1>1, <1>3, <2>2 DEF IInv, TypeOK, parser
<1>5. Untouched' /\ Results'
  BY <1>1 DEF IInv, Untouched, Results, parser
<1>6. Ended'
  BY <1>1, <1>3 DEF IInv, Ended, parser
<1>7. Refusal'
  <2>1. ~Refused'
    BY <1>1, <1>2 DEF Refused, parser
  <2> QED  BY <1>1, <1>3, <2>1 DEF IInv, Refusal
<1>8. Parsed'
  BY <1>1, <1>3, ParsedKept DEF IInv, Parsed, parser
<1> QED  BY <1>4, <1>5, <1>6, <1>7, <1>8 DEF IInv, Parsed

(* The end of a pass, and of the transfer.                                 *)
LEMMA EndInvariant ==
  IInv /\ (PollFails \/ (code = "none" /\ (PassEnds \/ Done \/ Complete \/ Return)))
    => IInv'
<1> SUFFICES ASSUME IInv,
                    \/ PollFails
                    \/ code = "none" /\ (PassEnds \/ Done \/ Complete \/ Return)
             PROVE  IInv'
  OBVIOUS
<1>1. CASE PassEnds /\ code = "none"
  <2>1. /\ keepon' = LeftToDo /\ pass' = "select" /\ mstate = "PERFORM"
        /\ UNCHANGED <<req, svc, head, rest, server, code, exp100, closing, parser>>
    BY <1>1 DEF PassEnds
  <2>2. /\ LeftToDo \subseteq keepon
        /\ "recv" \in LeftToDo <=> "recv" \in keepon
        /\ pass # "select"
        /\ pass = "read" => used = read \/ "recv" \notin keepon
    BY <1>1 DEF LeftToDo, PassEnds, PassDone
  <2>3. CASE Partial /\ Fail("PARTIAL_FILE")
    <3>1. "PARTIAL_FILE" \in Errors
      BY DEF Errors
    <3> QED
      <4>1. PICK e \in Errors : Fail(e)
        BY <2>3, <3>1
      <4>2. keepon' \subseteq keepon /\ pass' \in {pass, "select"}
        BY <2>1, <2>2
      <4>3. CASE LeftToDo = {}
        <5>1. "recv" \notin keepon'
          BY <2>1, <4>3
        <5> QED  BY <1>1, <2>1, <4>1, <4>2, <5>1, FailInvariant
      <4>4. CASE LeftToDo # {}
        BY <1>1, <2>1, <2>3, <4>4 DEF PassEnds, Fail
      <4> QED  BY <4>3, <4>4
  <2>4. CASE ~Fail("PARTIAL_FILE")
    <3>1. /\ result' = result /\ result = "OK"
          /\ \/ LeftToDo # {} /\ mstate' = "PERFORM"
             \/ LeftToDo = {} /\ ~Partial /\ mstate' = "DONE"
      BY <1>1, <2>1, <2>4 DEF PassEnds, Proceed, IInv, Results
    <3>2. TypeOK'
      BY <2>1, <2>2, <3>1 DEF IInv, TypeOK, MStates, parser, server
    <3>3. Untouched' /\ Results'
      BY <1>1, <2>1, <3>1 DEF IInv, Untouched, Results, parser, server
    <3>4. Ended'
      BY <2>1, <2>2, <3>1 DEF IInv, Ended, Partial, parser
    <3>5. Refusal'
      BY <2>1, <2>2 DEF IInv, Refusal, Refused, parser
    <3>6. Parsed'
      BY <2>1, <2>2, <3>1, ParsedKept DEF IInv, Parsed, parser
    <3> QED  BY <3>2, <3>3, <3>4, <3>5, <3>6 DEF IInv, Parsed
  <2> QED  BY <1>1, <2>1, <2>3, <2>4 DEF PassEnds, Fail, Proceed
<1>2. CASE Done /\ code = "none" /\ k.bytecount + k.headers <= 0
  <2>1. /\ Fail("GOT_NOTHING") /\ mstate = "DONE"
        /\ UNCHANGED <<req, svc, head, rest, server, code, pass, keepon, exp100,
                       closing, parser>>
    BY <1>2 DEF Done
  <2>2. "GOT_NOTHING" \in Errors
    BY DEF Errors
  <2> QED  BY <1>2, <2>1, <2>2, FailInvariant
<1>3. CASE Done /\ code = "none" /\ ~(k.bytecount + k.headers <= 0)
  <2>1. /\ mstate = "DONE" /\ mstate' = "COMPLETED" /\ result' = result
        /\ UNCHANGED <<req, svc, head, rest, server, code, pass, keepon, exp100,
                       closing, parser>>
        /\ k.bytecount + k.headers > 0
    <3>1. k.bytecount + k.headers \in Nat
      BY DEF IInv, TypeOK, SingleRequest
    <3> QED  BY <1>3, <3>1 DEF Done, Proceed
  <2>2. TypeOK'
    BY <2>1 DEF IInv, TypeOK, MStates, parser, server
  <2>3. Untouched' /\ Results'
    BY <2>1 DEF IInv, Untouched, Results, parser, server
  <2>4. Ended'
    BY <2>1 DEF IInv, Ended, Partial, parser
  <2>5. Refusal'
    BY <2>1 DEF IInv, Refusal, Refused, parser
  <2>6. Parsed'
    BY <2>1, ParsedKept DEF IInv, Parsed, parser
  <2> QED  BY <2>2, <2>3, <2>4, <2>5, <2>6 DEF IInv, Parsed
<1>4. CASE (Complete \/ Return \/ PollFails) /\ code = "none"
  <2>1. /\ UNCHANGED <<req, svc, head, rest, put, peer, result, pass, keepon,
                       exp100, closing, parser>>
        /\ \/ mstate = "COMPLETED" /\ mstate' = "MSGSENT" /\ code' = code
           \/ mstate = "MSGSENT" /\ mstate' = mstate /\ code' = result
           \/ mstate' = mstate /\ code' = "RECV_ERROR"
    BY <1>4 DEF Complete, Return, PollFails, Proceed, server
  <2>2. TypeOK'
    BY <2>1 DEF IInv, TypeOK, MStates, Errors, parser
  <2>3. Untouched' /\ Results'
    BY <1>4, <2>1 DEF IInv, Untouched, Results, parser
  <2>4. Ended'
    BY <2>1 DEF IInv, Ended, Partial, parser
  <2>5. Refusal'
    BY <2>1 DEF IInv, Refusal, Refused, parser
  <2>6. Parsed'
    BY <2>1, ParsedKept DEF IInv, Parsed, parser
  <2> QED  BY <2>2, <2>3, <2>4, <2>5, <2>6 DEF IInv, Parsed
<1> QED  BY <1>1, <1>2, <1>3, <1>4 DEF PollFails

-----------------------------------------------------------------------------
(* Where a line of a header is in it: the status line of the interim reply *)
(* or of the reply, a line of either, the blank line of either.            *)
FirstLine == used \in {0, svc.interim} /\ Next1.t = "status"
             /\ (used < svc.interim => Next1.v \in 100 .. 199)
InterimLine == 0 < used /\ used + 1 < svc.interim /\ Next1.t = "line"
InterimBlank == 0 < used /\ used + 1 = svc.interim /\ Next1.t = "blank"
ReplyLine == svc.interim < used /\ used + 1 < svc.head
             /\ Next1.t \in {"length", "chunked", "close", "line"}
ReplyBlank == svc.interim < used /\ used + 1 = svc.head /\ Next1.t = "blank"

LineFacts == /\ used \in Nat /\ read \in Nat /\ used + 1 <= read /\ used + 1 <= svc.head
             /\ svc.interim \in Nat /\ svc.head \in Nat /\ svc.interim + 1 < svc.head
             /\ used + 1 \in 1 .. Len(svc.script)
             /\ Next1.t \in {"status", "length"} => Next1.v \in Nat

(* There is no other place for it.                                         *)
LEMMA HeaderToken ==
  ASSUME IInv, Reading, k.header
  PROVE  /\ LineFacts
         /\ FirstLine \/ InterimLine \/ InterimBlank \/ ReplyLine \/ ReplyBlank
<1> DEFINE i == svc.interim
           t == Next1
<1>1. svc \in Services
  BY DEF IInv, TypeOK
<1>2. /\ ServiceTypes(svc) /\ ServiceHeaders(svc)
      /\ i \in Nat /\ svc.head \in Nat /\ i + 1 < svc.head
      /\ svc.head <= Len(svc.script) /\ Len(svc.script) \in Nat
      /\ svc.cut \in Nat
  BY <1>1, TokenFacts
<1>3. /\ used \in Nat /\ read \in Nat /\ used + 1 <= read /\ used < svc.head
  BY <1>2 DEF IInv, TypeOK, HeaderSoFar, Reading
<1>4. LineFacts
  <2>1. used + 1 \in 1 .. Len(svc.script) /\ used + 1 <= svc.head
    BY <1>2, <1>3
  <2>2. t.t \in {"status", "length"} => t.v \in Nat
    BY <1>2, <2>1 DEF ServiceTypes, Next1
  <2> QED  BY <1>2, <1>3, <2>1, <2>2 DEF LineFacts
<1>5. CASE used < i
  <2>1. /\ svc.script[1].t = "status" /\ svc.script[1].v \in 100 .. 199
        /\ \A l \in 2 .. i - 1 : svc.script[l].t = "line"
        /\ svc.script[i].t = "blank" /\ 1 < i
    <3>1. Header(svc, 0, i, {"line"}) /\ svc.script[1].v \in 100 .. 199
      BY <1>2, <1>3, <1>5 DEF ServiceHeaders
    <3>2. 0 + 1 = 1 /\ 0 + 2 = 2
      OBVIOUS
    <3>3. /\ 0 + 1 < i /\ svc.script[0 + 1].t = "status"
          /\ \A l \in 0 + 2 .. i - 1 : svc.script[l].t = "line"
          /\ svc.script[i].t = "blank"
      BY <3>1 DEF Header
    <3> QED  BY <3>1, <3>2, <3>3
  <2>2. CASE used = 0
    BY <1>2, <1>4, <1>5, <2>1, <2>2 DEF FirstLine, Next1
  <2>3. CASE 0 < used /\ used + 1 < i
    <3>1. used + 1 \in 2 .. i - 1
      BY <1>2, <1>3, <2>3
    <3> QED  BY <1>4, <2>1, <2>3, <3>1 DEF InterimLine, Next1
  <2>4. CASE 0 < used /\ used + 1 = i
    BY <1>4, <2>1, <2>4 DEF InterimBlank, Next1
  <2> QED  BY <1>2, <1>3, <1>4, <1>5, <2>2, <2>3, <2>4
<1>6. CASE ~(used < i)
  <2>1. /\ svc.script[i + 1].t = "status"
        /\ \A l \in i + 2 .. svc.head - 1 :
             svc.script[l].t \in {"length", "chunked", "close", "line"}
        /\ svc.script[svc.head].t = "blank"
    BY <1>2 DEF ServiceHeaders, Header
  <2>2. CASE used = i
    BY <1>2, <1>4, <2>1, <2>2 DEF FirstLine, Next1
  <2>3. CASE i < used /\ used + 1 < svc.head
    <3>1. used + 1 \in i + 2 .. svc.head - 1
      BY <1>2, <1>3, <2>3
    <3> QED  BY <1>4, <2>1, <2>3, <3>1 DEF ReplyLine, Next1
  <2>4. CASE i < used /\ used + 1 = svc.head
    BY <1>4, <2>1, <2>4 DEF ReplyBlank, Next1
  <2> QED  BY <1>2, <1>3, <1>4, <1>6, <2>2, <2>3, <2>4
<1> QED  BY <1>5, <1>6

(* The variables that a token of the header or of the body leaves alone,   *)
(* and what is left to show.                                               *)
LEMMA ReadingKept ==
  ASSUME IInv, Reading,
         UNCHANGED <<req, svc, head, rest, server, code, pass, read>>,
         keepon' \subseteq {"recv", "send"}, exp100' \in Exp100,
         closing' \in BOOLEAN, used' \in 0 .. read, k' \in SingleRequest,
         ch' \in Chunker, buf' \in Buffer,
         chunk' \in Seq(Byte), got' \in Seq(Byte),
         \/ /\ result' = result /\ mstate' = mstate
            /\ Len(buf'.str) = buf'.size
            /\ "recv" \notin keepon' => ~k'.header /\ (k'.size = -1 => k'.chunk)
         \/ result' = "WRITE_ERROR" /\ mstate' = "COMPLETED"
  PROVE  TypeOK' /\ Untouched' /\ Results' /\ Ended'
<1>1. mstate = "PERFORM" /\ pass = "read"
  BY DEF Reading
<1>2. TypeOK'
  <2>1. result' \in Errors \cup {"OK"} /\ mstate' \in MStates
    BY DEF IInv, TypeOK, Errors, MStates
  <2> QED  BY <2>1 DEF IInv, TypeOK, server
<1>3. Untouched' /\ Results'
  BY <1>1 DEF IInv, Untouched, Results, server
<1>4. Ended'
  BY <1>1 DEF Ended
<1> QED  BY <1>2, <1>3, <1>4

(* A header line that says something.                                      *)
LEMMA HeaderLineInvariant == IInv /\ HeaderLine => IInv'
<1> SUFFICES ASSUME IInv, HeaderLine PROVE IInv'
  OBVIOUS
<1> DEFINE i == svc.interim
           t == Next1
<1>1. /\ Reading /\ k.header /\ t.t # "blank" /\ used' = used + 1
      /\ closing' = (closing \/ t.t = "close")
      /\ UNCHANGED <<req, svc, head, rest, put, peer, mstate, result, code, pass,
                     keepon, exp100, read, ch, buf, chunk, got>>
  BY DEF HeaderLine, server
<1>2. k \in SingleRequest /\ closing \in BOOLEAN
  BY DEF IInv, TypeOK
<1>3. /\ k'.header = k.header /\ k'.bytecount = k.bytecount
      /\ k'.headers = k.headers + 1
      /\ k'.httpcode = IF t.t = "status" THEN t.v ELSE k.httpcode
      /\ k'.ignorecl = (k.ignorecl \/ Bodyless)
      /\ k'.size = IF Bodyless THEN 0
                   ELSE IF t.t = "length" /\ ~k.ignorecl THEN t.v ELSE k.size
      /\ k'.chunk = (k.chunk \/ t.t = "chunked")
  BY <1>2 DEF HeaderLine, SingleRequest
<1>4. LineFacts /\ (FirstLine \/ InterimLine \/ ReplyLine)
  BY <1>1, HeaderToken DEF InterimBlank, ReplyBlank
<1>5. used' < svc.head /\ used' > 0 /\ used' # i
  <2>1. used + 1 # i
    <3>1. CASE FirstLine
      <4>1. i > 0 => svc.script[i].t = "blank"
        BY TokenFacts DEF IInv, TypeOK, ServiceHeaders, Header
      <4> QED  BY <1>1, <1>4, <3>1, <4>1 DEF LineFacts, Next1
    <3>2. CASE ~FirstLine
      BY <1>4, <3>2 DEF LineFacts, InterimLine, ReplyLine
    <3> QED  BY <3>1, <3>2
  <2>2. used + 1 # svc.head
    <3>1. svc.script[svc.head].t = "blank"
      BY TokenFacts DEF IInv, TypeOK, ServiceHeaders, Header
    <3> QED  BY <1>1, <3>1 DEF Next1
  <2> QED  BY <1>1, <1>4, <2>1, <2>2 DEF LineFacts
<1>6. k' \in SingleRequest
  <2> DEFINE code1 == IF t.t = "status" THEN t.v ELSE k.httpcode
             size1 == IF Bodyless THEN 0
                      ELSE IF t.t = "length" /\ ~k.ignorecl THEN t.v ELSE k.size
             none1 == k.ignorecl \/ Bodyless
             chunk1 == k.chunk \/ t.t = "chunked"
  <2>1. code1 \in Nat /\ size1 \in Nat \cup {-1} /\ k.headers + 1 \in Nat
    BY <1>2, <1>4 DEF LineFacts, SingleRequest
  <2>2. none1 \in BOOLEAN /\ chunk1 \in BOOLEAN
    OBVIOUS
  <2>3. k' = [k EXCEPT !.headers = k.headers + 1, !.httpcode = code1,
                      !.ignorecl = none1, !.size = size1, !.chunk = chunk1]
    BY DEF HeaderLine
  <2> HIDE DEF code1, size1, none1, chunk1
  <2> QED  BY <1>2, <2>1, <2>2, <2>3 DEF SingleRequest
<1>7. TypeOK' /\ Untouched' /\ Results' /\ Ended'
  <2>1. used' \in 0 .. read
    BY <1>1, <1>4 DEF LineFacts
  <2>2. buf \in Buffer /\ Len(buf.str) = buf.size
    BY <1>1 DEF IInv, TypeOK, Results, Reading
  <2>3. closing' \in BOOLEAN
    BY <1>1
  <2>4. "recv" \in keepon'
    BY <1>1 DEF Reading
  <2> QED  BY <1>1, <1>6, <2>1, <2>2, <2>3, <2>4, ReadingKept DEF IInv, TypeOK, server
<1>8. HeaderSoFar'
  <2>1. used' > 0 /\ used' < i => k'.httpcode \in 100 .. 199
    <3>1. CASE FirstLine
      BY <1>1, <1>3, <1>4, <3>1 DEF LineFacts, FirstLine
    <3>2. CASE ~FirstLine
      BY <1>1, <1>3, <1>4, <3>2 DEF LineFacts, InterimLine, ReplyLine, IInv, HeaderSoFar
    <3> QED  BY <3>1, <3>2
  <2>2. used' > i => k'.httpcode = svc.script[i + 1].v
    <3>1. CASE FirstLine
      BY <1>1, <1>3, <1>4, <3>1 DEF LineFacts, FirstLine, Next1
    <3>2. CASE ~FirstLine
      BY <1>1, <1>3, <1>4, <3>2 DEF LineFacts, InterimLine, ReplyLine, IInv, HeaderSoFar
    <3> QED  BY <3>1, <3>2
  <2>3. k'.header /\ k'.bytecount = 0 /\ got' = << >>
        /\ ch' = [state |-> "HEX", datasize |-> 0]
    BY <1>1, <1>3 DEF IInv, HeaderSoFar
  <2> QED  BY <1>1, <1>5, <2>1, <2>2, <2>3 DEF HeaderSoFar
<1>9. HeaderSays'
  <2>1. /\ \A l \in 1 .. used' : l \in 1 .. used \/ l = used + 1
        /\ \A l \in 1 .. used : l \in 1 .. used'
        /\ used + 1 \in 1 .. used'
    BY <1>1, <1>4 DEF LineFacts
  <2>2. svc' = svc /\ \A l : Line(l, "close")' = Line(l, "close")
    BY <1>1 DEF Line
  <2>3. \A line : Line(used + 1, line) <=> t.t = line
    BY DEF Line, Next1
  <2>4. closing' => \E l \in 1 .. used' : Line(l, "close")'
    BY <1>1, <2>1, <2>3 DEF IInv, HeaderSays, Line
  <2>5. k'.chunk <=> \E l \in 1 .. used' : Line(l, "chunked")'
    BY <1>1, <1>3, <2>1, <2>3 DEF IInv, HeaderSays, Line
  <2>6. k'.ignorecl <=> used' > i /\ NoBody(svc)
    <3>1. k.ignorecl <=> used > i /\ NoBody(svc)
      BY <1>1 DEF IInv, HeaderSays
    <3>2. CASE FirstLine
      <4>1. Bodyless => used = i /\ NoBody(svc)
        <5> SUFFICES ASSUME Bodyless PROVE used = i /\ NoBody(svc)
          OBVIOUS
        <5>1. t.v \in {204, 304} /\ t.v \notin 100 .. 199
          BY DEF Bodyless
        <5>2. ~(used < i)
          BY <3>2, <5>1 DEF FirstLine
        <5>3. used \in {0, i} /\ i \in Nat
          BY <1>4, <3>2 DEF FirstLine, LineFacts
        <5>4. used = i
          BY <5>2, <5>3
        <5> QED  BY <5>1, <5>4 DEF NoBody, Next1
      <4>2. used = i /\ NoBody(svc) => Bodyless
        BY <3>2 DEF FirstLine, Bodyless, NoBody, Next1
      <4>3. (used' > i <=> used = i) /\ ~(used > i)
        BY <1>1, <1>4, <3>2 DEF LineFacts, FirstLine
      <4>4. k'.ignorecl <=> Bodyless
        BY <1>3, <3>1, <4>3
      <4> QED  BY <4>1, <4>2, <4>3, <4>4
    <3>3. CASE ~FirstLine
      <4>1. ~Bodyless
        BY <1>4, <3>3 DEF Bodyless, InterimLine, ReplyLine
      <4>2. used' > i <=> used > i
        BY <1>1, <1>4, <1>5, <3>3 DEF LineFacts, InterimLine, ReplyLine
      <4> QED  BY <1>3, <3>1, <4>1, <4>2
    <3> QED  BY <3>2, <3>3
  <2>7. k'.ignorecl => k'.size = 0
    BY <1>1, <1>3 DEF IInv, HeaderSays
  <2>8. ASSUME ~k'.ignorecl
        PROVE  \/ k'.size = -1 /\ \A l \in 1 .. used' : ~Line(l, "length")'
               \/ \E l \in 1 .. used' : Line(l, "length")' /\ k'.size = svc.script[l].v
    <3>1. ~k.ignorecl /\ ~Bodyless
      BY <1>3, <2>8
    <3>2. CASE t.t = "length"
      BY <1>3, <2>1, <2>3, <3>1, <3>2, <1>1 DEF Next1, Line
    <3>3. CASE t.t # "length"
      <4>1. k'.size = k.size
        BY <1>3, <3>1, <3>3
      <4>2. \/ k.size = -1 /\ \A l \in 1 .. used : ~Line(l, "length")
            \/ \E l \in 1 .. used : Line(l, "length") /\ k.size = svc.script[l].v
        BY <1>1, <3>1 DEF IInv, HeaderSays
      <4> QED  BY <1>1, <2>1, <2>3, <3>3, <4>1, <4>2 DEF Line
    <3> QED  BY <3>2, <3>3
  <2>9. NoBody(svc)' <=> NoBody(svc)
    BY <1>1 DEF NoBody
  <2> QED  BY <1>1, <2>4, <2>5, <2>6, <2>7, <2>8, <2>9 DEF HeaderSays
<1>10. HeaderSaid' /\ PlainBody' /\ ChunkedBody'
  BY <1>1, <1>3 DEF HeaderSaid, PlainBody, ChunkedBody
<1>11. Refusal'
  BY <1>1, <1>3 DEF IInv, Refusal, Refused
<1> QED  BY <1>7, <1>8, <1>9, <1>10, <1>11 DEF IInv

(* The blank line of an interim reply.                                     *)
LEMMA InterimEndInvariant == IInv /\ InterimEnd => IInv'
<1> SUFFICES ASSUME IInv, InterimEnd PROVE IInv'
  OBVIOUS
<1> DEFINE i == svc.interim
<1>1. /\ Reading /\ k.header /\ Next1.t = "blank" /\ Interim /\ used' = used + 1
      /\ UNCHANGED <<req, svc, head, rest, put, peer, mstate, result, code, pass,
                     closing, read, ch, buf, chunk, got>>
  BY DEF InterimEnd, server
<1>2. k \in SingleRequest /\ keepon \subseteq {"recv", "send"} /\ exp100 \in Exp100
  BY DEF IInv, TypeOK
<1>3. /\ k'.header = k.header /\ k'.bytecount = k.bytecount /\ k'.headers = 0
      /\ k'.httpcode = k.httpcode /\ k'.ignorecl = k.ignorecl
      /\ k'.size = k.size /\ k'.chunk = k.chunk
      /\ k' \in SingleRequest
  BY <1>2 DEF InterimEnd, SingleRequest
<1>4. /\ exp100' \in {exp100, "SEND_DATA"}
      /\ keepon' \subseteq {"recv", "send"}
      /\ "recv" \in keepon'
  BY <1>1, <1>2 DEF InterimEnd, Reading
<1>5. LineFacts /\ InterimBlank
  <2>1. LineFacts /\ (InterimBlank \/ ReplyBlank)
    BY <1>1, HeaderToken DEF FirstLine, InterimLine, ReplyLine
  <2>2. ASSUME ReplyBlank PROVE FALSE
    <3>1. k.httpcode = svc.script[i + 1].v
      BY <2>1, <2>2 DEF ReplyBlank, LineFacts, IInv, HeaderSoFar
    <3>2. svc.script[i + 1].v \notin 100 .. 199
      BY TokenFacts DEF IInv, TypeOK, ServiceHeaders
    <3> QED  BY <1>1, <3>1, <3>2 DEF Interim
  <2> QED  BY <2>1, <2>2
<1>6. TypeOK' /\ Untouched' /\ Results' /\ Ended'
  <2>1. used' \in 0 .. read
    BY <1>1, <1>5 DEF LineFacts
  <2>2. buf \in Buffer /\ Len(buf.str) = buf.size
    BY <1>1 DEF IInv, TypeOK, Results, Reading
  <2>3. exp100' \in Exp100
    BY <1>2, <1>4 DEF Exp100
  <2> QED
    BY <1>1, <1>3, <1>4, <2>1, <2>2, <2>3, ReadingKept DEF IInv, TypeOK, server
<1>7. used' = i /\ used < i /\ used' < svc.head /\ used \in Nat
  BY <1>1, <1>5 DEF LineFacts, InterimBlank
<1>8. HeaderSoFar'
  BY <1>1, <1>3, <1>7 DEF IInv, HeaderSoFar
<1>9. HeaderSays'
  <2>1. /\ \A l \in 1 .. used' : l \in 1 .. used \/ l = used + 1
        /\ \A l \in 1 .. used : l \in 1 .. used'
    BY <1>1, <1>7
  <2>2. \A line : Line(used + 1, line) => line = "blank"
    BY <1>1 DEF Line, Next1
  <2>3. ~k.ignorecl
    BY <1>1, <1>7 DEF IInv, HeaderSays
  <2>4. \A l, line : Line(l, line)' <=> Line(l, line)
    BY <1>1 DEF Line
  <2>5. closing => \E l \in 1 .. used' : Line(l, "close")'
    BY <1>1, <2>1, <2>4 DEF IInv, HeaderSays
  <2>6. k.chunk <=> \E l \in 1 .. used' : Line(l, "chunked")'
    BY <1>1, <2>1, <2>2, <2>4 DEF IInv, HeaderSays
  <2>7. \/ k.size = -1 /\ \A l \in 1 .. used' : ~Line(l, "length")'
        \/ \E l \in 1 .. used' : Line(l, "length")' /\ k.size = svc.script[l].v
    BY <1>1, <2>1, <2>2, <2>3, <2>4 DEF IInv, HeaderSays
  <2> QED  BY <1>1, <1>3, <1>7, <2>3, <2>5, <2>6, <2>7 DEF HeaderSays
<1>10. HeaderSaid' /\ PlainBody' /\ ChunkedBody'
  BY <1>1, <1>3 DEF HeaderSaid, PlainBody, ChunkedBody
<1>11. Refusal'
  BY <1>1, <1>3, <1>4 DEF IInv, Refusal, Refused
<1> QED  BY <1>6, <1>8, <1>9, <1>10, <1>11 DEF IInv

(* The blank line of the reply: libcurl now knows how the body ends.       *)
LEMMA HeaderEndInvariant == IInv /\ HeaderEnd => IInv'
<1> SUFFICES ASSUME IInv, HeaderEnd PROVE IInv'
  OBVIOUS
<1> DEFINE i == svc.interim
           none == << >>
<1>1. /\ Reading /\ k.header /\ Next1.t = "blank" /\ ~Interim /\ used' = used + 1
      /\ closing' = (closing \/ EndsWithConnection \/ Refusing)
      /\ exp100' = IF Refusing /\ req.form THEN "FAILED" ELSE exp100
      /\ keepon' = (keepon \ IF Refusing THEN {"send"} ELSE {})
                           \ IF ~k.chunk /\ k.size = 0 THEN {"recv"} ELSE {}
      /\ UNCHANGED <<req, svc, head, rest, put, peer, mstate, result, code, pass,
                     read, ch, buf, chunk, got>>
  BY DEF HeaderEnd, server
<1>2. /\ k \in SingleRequest /\ keepon \subseteq {"recv", "send"} /\ exp100 \in Exp100
      /\ closing \in BOOLEAN /\ svc \in Services
  BY DEF IInv, TypeOK
<1>3. /\ ~k'.header /\ k'.bytecount = k.bytecount /\ k'.headers = k.headers + 1
      /\ k'.httpcode = k.httpcode /\ k'.ignorecl = k.ignorecl
      /\ k'.size = IF k.chunk THEN -1 ELSE k.size
      /\ k'.chunk = k.chunk
      /\ k' \in SingleRequest
  <2> DEFINE size1 == IF k.chunk THEN -1 ELSE k.size
  <2>1. size1 \in Nat \cup {-1} /\ k.headers + 1 \in Nat
    BY <1>2 DEF SingleRequest
  <2>2. k' = [k EXCEPT !.header = FALSE, !.headers = k.headers + 1, !.size = size1]
    BY DEF HeaderEnd
  <2> HIDE DEF size1
  <2>3. /\ ~k'.header /\ k'.bytecount = k.bytecount /\ k'.headers = k.headers + 1
        /\ k'.httpcode = k.httpcode /\ k'.ignorecl = k.ignorecl
        /\ k'.size = size1 /\ k'.chunk = k.chunk /\ k' \in SingleRequest
    BY <1>2, <2>1, <2>2 DEF SingleRequest
  <2> QED  BY <2>3 DEF size1
<1>4. LineFacts /\ ReplyBlank
  <2>1. LineFacts /\ (InterimBlank \/ ReplyBlank)
    BY <1>1, HeaderToken DEF FirstLine, InterimLine, ReplyLine
  <2>2. ASSUME InterimBlank PROVE FALSE
    <3>1. used > 0 /\ used < i
      BY <2>1, <2>2 DEF InterimBlank, LineFacts
    <3> QED  BY <1>1, <3>1 DEF Interim, IInv, HeaderSoFar
  <2> QED  BY <2>1, <2>2
<1>5. /\ used' = svc.head /\ used \in Nat /\ used > i /\ i \in Nat /\ svc.head \in Nat
      /\ used' > i /\ used' # 0
  BY <1>1, <1>4 DEF ReplyBlank, LineFacts
<1>6. result = "OK" /\ k.bytecount = 0 /\ got = none
      /\ ch = [state |-> "HEX", datasize |-> 0]
  BY <1>1 DEF IInv, HeaderSoFar, Results, Reading
<1> HIDE DEF none
<1>7. HeaderSoFar'
  <2>1. ~(used' < svc'.head) /\ used' \notin {0, svc'.interim}
    BY <1>1, <1>5
  <2>2. k'.httpcode = svc'.script[svc'.interim + 1].v
    BY <1>1, <1>3, <1>5 DEF IInv, HeaderSoFar
  <2>3. ~(used' < svc'.interim)
    BY <1>1, <1>5
  <2> QED  BY <1>3, <2>1, <2>2, <2>3 DEF HeaderSoFar
<1>8. /\ \A l \in 1 .. svc.head : l \in 1 .. used \/ l = used + 1
      /\ \A l \in 1 .. used : l \in 1 .. svc.head
      /\ \A line : Line(used + 1, line) => line = "blank"
  BY <1>1, <1>5 DEF Line, Next1
<1>9. /\ k.chunk <=> Says(svc, "chunked")
      /\ k.ignorecl <=> NoBody(svc)
      /\ k.ignorecl => k.size = 0
      /\ ~k.ignorecl =>
           \/ k.size = -1 /\ ~Says(svc, "length")
           \/ \E l \in 1 .. svc.head : svc.script[l].t = "length"
                                     /\ k.size = svc.script[l].v
  <2>1. k.chunk <=> Says(svc, "chunked")
    BY <1>1, <1>8 DEF IInv, HeaderSays, Says, Line
  <2>2. (k.ignorecl <=> NoBody(svc)) /\ (k.ignorecl => k.size = 0)
    BY <1>1, <1>5 DEF IInv, HeaderSays
  <2>3. ~k.ignorecl =>
           \/ k.size = -1 /\ ~Says(svc, "length")
           \/ \E l \in 1 .. svc.head : svc.script[l].t = "length"
                                     /\ k.size = svc.script[l].v
    BY <1>1, <1>8 DEF IInv, HeaderSays, Says, Line
  <2> QED  BY <2>1, <2>2, <2>3
<1>10. HeaderSaid'
  <2>1. ASSUME ~Says(svc, "chunked"), ~NoBody(svc), Says(svc, "length")
        PROVE  k.size = Len(svc.body)
    <3>1. \A l \in 1 .. svc.head :
             svc.script[l].t = "length" => svc.script[l].v = Len(svc.body)
      BY <1>2, <2>1, TokenFacts DEF ServiceBody
    <3> QED  BY <1>9, <2>1, <3>1
  <2>2. ASSUME ~Says(svc, "chunked"), ~NoBody(svc), ~Says(svc, "length")
        PROVE  k.size = -1
    BY <1>9, <2>2 DEF Says
  <2>3. k'.chunk <=> Says(svc, "chunked")
    BY <1>3, <1>9
  <2>4. k'.size = IF Says(svc, "chunked") THEN -1
                  ELSE IF NoBody(svc) THEN 0
                  ELSE IF Says(svc, "length") THEN Len(svc.body) ELSE -1
    BY <1>3, <1>9, <2>1, <2>2
  <2> QED  BY <1>1, <2>3, <2>4 DEF HeaderSaid, Says, NoBody
<1>11. PlainBody'
  <2>1. svc.body \in Seq(Byte)
    BY <1>2, BodyFacts
  <2>2. SubSeq(svc.body, 1, 0) = none /\ 0 <= Len(svc.body)
    BY <2>1 DEF none
  <2>3. "recv" \in keepon' /\ ~k'.chunk /\ k'.size # -1 => 0 < k'.size
    BY <1>1, <1>2, <1>3 DEF SingleRequest
  <2>4. k'.bytecount = 0 /\ got' = none /\ svc' = svc /\ used' = svc.head + 0
    BY <1>1, <1>3, <1>5, <1>6
  <2> QED  BY <2>2, <2>3, <2>4 DEF PlainBody
<1>12. ChunkedBody'
  <2>1. used' - svc.head = 0 /\ svc' = svc
    BY <1>1, <1>5
  <2>2. Dechunked(svc)[0] = [state |-> "HEX", datasize |-> 0, bytes |-> none]
    BY <1>2, DechunkedFacts DEF none
  <2>3. ch'.state = "HEX" /\ ch'.datasize = 0 /\ got' = none
    BY <1>1, <1>6
  <2> QED  BY <2>1, <2>2, <2>3 DEF ChunkedBody
<1>13. TypeOK' /\ Untouched' /\ Results' /\ Ended'
  <2>1. used' \in 0 .. read
    BY <1>1, <1>4 DEF LineFacts
  <2>2. buf \in Buffer /\ Len(buf.str) = buf.size
    BY <1>6 DEF IInv, TypeOK, Results
  <2>3. keepon' \subseteq {"recv", "send"} /\ closing' \in BOOLEAN /\ exp100' \in Exp100
    BY <1>1, <1>2 DEF Exp100
  <2>4. "recv" \notin keepon' => ~k'.header /\ (k'.size = -1 => k'.chunk)
    BY <1>1, <1>3 DEF Reading
  <2> QED
    BY <1>1, <1>3, <2>1, <2>2, <2>3, <2>4, ReadingKept DEF IInv, TypeOK, server
<1>14. Refusal'
  <2>1. ~req.form => exp100 = "SEND_DATA"
    BY DEF IInv, Refusal
  <2>2. ASSUME Refused' PROVE Refusing
    <3>1. /\ k.httpcode >= 300 /\ svc.framed
          /\ \A l \in 1 .. svc.head : svc.script[l].t # "close"
      BY <1>1, <1>3, <2>2 DEF Refused
    <3>2. ~closing
      BY <1>1, <1>8, <3>1 DEF IInv, HeaderSays, Line
    <3>3. Says(svc, "chunked") \/ NoBody(svc) \/ Says(svc, "length")
      BY <1>2, <3>1, TokenFacts DEF ServiceBody
    <3>4. ~EndsWithConnection
      <4>1. CASE Says(svc, "chunked")
        BY <1>9, <4>1 DEF EndsWithConnection
      <4>2. CASE NoBody(svc)
        BY <1>9, <4>2 DEF EndsWithConnection
      <4>3. CASE ~Says(svc, "chunked") /\ ~NoBody(svc) /\ Says(svc, "length")
        <5>1. k'.size = Len(svc.body) /\ k'.size = k.size
          BY <1>1, <1>3, <1>9, <1>10, <4>3 DEF HeaderSaid, Says, NoBody
        <5>2. Len(svc.body) \in Nat
          BY <1>2, BodyFacts
        <5> QED  BY <5>1, <5>2 DEF EndsWithConnection
      <4> QED  BY <3>3, <4>1, <4>2, <4>3
    <3> QED  BY <3>1, <3>2, <3>4 DEF Refusing
  <2>3. Refused' => "send" \notin keepon' /\ exp100' # "AWAITING_CONTINUE"
    BY <1>1, <2>1, <2>2
  <2>4. ~req'.form => exp100' = "SEND_DATA"
    BY <1>1, <2>1
  <2> QED  BY <2>3, <2>4 DEF Refusal
<1>15. HeaderSays'
  BY <1>3 DEF HeaderSays
<1> QED  BY <1>7, <1>10, <1>11, <1>12, <1>13, <1>14, <1>15 DEF IInv

-----------------------------------------------------------------------------
(* What is appended to the beginning of a sequence is the part behind it.  *)
LEMMA BeginsPart ==
  ASSUME NEW S, NEW x \in Seq(S), NEW b \in Seq(S), NEW y \in Seq(S),
         Begins(x \o b, y)
  PROVE  /\ Len(x) + Len(b) <= Len(y)
         /\ b = SubSeq(y, Len(x) + 1, Len(x) + Len(b))
<1> DEFINE z == x \o b
           p == SubSeq(y, Len(x) + 1, Len(x) + Len(b))
<1>1. /\ z \in Seq(S) /\ Len(z) = Len(x) + Len(b)
      /\ \A i \in 1 .. Len(b) : z[Len(x) + i] = b[i]
  BY ConcatFacts
<1> HIDE DEF z
<1>2. Len(x) + Len(b) <= Len(y) /\ \A i \in 1 .. Len(z) : z[i] = y[i]
  BY <1>1 DEF Begins, z
<1>3. p \in Seq(S) /\ Len(p) = Len(b) /\ \A i \in 1 .. Len(b) : p[i] = y[Len(x) + i]
  BY <1>2, PartFacts
<1> HIDE DEF p
<1>4. \A i \in 1 .. Len(b) : Len(x) + i \in 1 .. Len(z)
  BY <1>1
<1>5. \A i \in 1 .. Len(b) : b[i] = p[i]
  BY <1>1, <1>2, <1>3, <1>4
<1> QED  BY <1>2, <1>3, <1>5, SameSequence DEF p

(* The beginning of a sequence and the elements behind it are a longer     *)
(* beginning.                                                              *)
LEMMA PartBegins ==
  ASSUME NEW S, NEW b \in Seq(S), NEW y \in Seq(S), NEW c \in Nat,
         c + Len(b) <= Len(y), \A i \in 1 .. Len(b) : b[i] = y[c + i]
  PROVE  /\ SubSeq(y, 1, c) \o b = SubSeq(y, 1, c + Len(b))
         /\ SubSeq(y, 1, c) \in Seq(S) /\ Len(SubSeq(y, 1, c)) = c
<1> DEFINE x == SubSeq(y, 1, c)
           z == x \o b
           p == SubSeq(y, 1, c + Len(b))
<1>1. /\ x \in Seq(S) /\ Len(x) = c
      /\ \A i \in 1 .. c : x[i] = y[i]
      /\ p \in Seq(S) /\ Len(p) = c + Len(b)
      /\ \A i \in 1 .. c + Len(b) : p[i] = y[i]
  OBVIOUS
<1> HIDE DEF x, p
<1>2. /\ z \in Seq(S) /\ Len(z) = c + Len(b)
      /\ \A i \in 1 .. c : z[i] = x[i]
      /\ \A i \in 1 .. Len(b) : z[c + i] = b[i]
  <2>1. /\ z \in Seq(S) /\ Len(z) = Len(x) + Len(b)
        /\ \A i \in 1 .. Len(x) : z[i] = x[i]
        /\ \A i \in 1 .. Len(b) : z[Len(x) + i] = b[i]
    BY <1>1, ConcatFacts
  <2> HIDE DEF z
  <2> QED  BY <1>1, <2>1
<1> HIDE DEF z
<1>3. ASSUME NEW i \in 1 .. c + Len(b) PROVE z[i] = p[i]
  <2>1. CASE i <= c
    BY <1>1, <1>2, <2>1
  <2>2. CASE ~(i <= c)
    <3>1. i - c \in 1 .. Len(b) /\ c + (i - c) = i
      BY <2>2
    <3>2. z[i] = b[i - c] /\ b[i - c] = y[i]
      BY <1>2, <3>1
    <3> QED  BY <1>1, <3>2
  <2> QED  BY <2>1, <2>2
<1>4. z = p
  BY <1>1, <1>2, <1>3, SameSequence
<1> QED  BY <1>1, <1>4 DEF x, z, p

(* The beginning of a sequence begins it, and a shorter one the longer.    *)
LEMMA PartIsBeginning ==
  ASSUME NEW S, NEW y \in Seq(S), NEW i \in Nat, NEW j \in Nat,
         i <= j, j <= Len(y)
  PROVE  Begins(SubSeq(y, 1, i), y) /\ Begins(SubSeq(y, 1, i), SubSeq(y, 1, j))
<1> QED  BY DEF Begins

-----------------------------------------------------------------------------
(* How many bytes libcurl gives to the callback at once.                   *)
Piece(n) ==
  \/ ~k.chunk /\ n = PlainSize
  \/ /\ k.chunk /\ ch.state = "DATA"
     /\ n = IF ch.datasize >= read - used THEN read - used ELSE ch.datasize

Counts == /\ used \in Nat /\ read \in Nat /\ svc.head \in Nat /\ svc.cut \in Nat
          /\ svc.interim \in Nat
          /\ svc.interim + 1 < svc.head /\ svc.head <= used /\ used + 1 <= read
          /\ read <= svc.cut /\ svc.cut <= Len(svc.script) /\ Len(svc.script) \in Nat

(* Behind the header, while there is something to read.                    *)
LEMMA BodyCounts ==
  ASSUME IInv, Reading, ~k.header
  PROVE  /\ Counts /\ result = "OK" /\ svc \in Services
         /\ k \in SingleRequest /\ ch \in Chunker /\ got \in Seq(Byte)
<1>1. svc \in Services /\ k \in SingleRequest /\ ch \in Chunker /\ got \in Seq(Byte)
  BY DEF IInv, TypeOK
<1>2. result = "OK"
  BY DEF IInv, Results, Reading
<1>3. Counts
  BY <1>1, TokenFacts DEF Counts, IInv, TypeOK, HeaderSoFar, Reading
<1> QED  BY <1>1, <1>2, <1>3

(* A piece of a body that is not chunked.                                  *)
LEMMA PlainPiece ==
  ASSUME IInv, Reading, ~k.header, ~k.chunk
  PROVE  /\ PlainSize \in Nat \ {0} /\ used + PlainSize <= read
         /\ k.size = -1 => PlainSize = read - used
         /\ k.size # -1 => PlainSize = read - used \/ k.bytecount + PlainSize = k.size
         /\ Bytes(PlainSize) \in Seq(Byte) /\ Len(Bytes(PlainSize)) = PlainSize
         /\ k.bytecount + PlainSize <= Len(svc.body)
         /\ got \o Bytes(PlainSize) = SubSeq(svc.body, 1, k.bytecount + PlainSize)
         /\ Begins(got \o Bytes(PlainSize), BodyOf(svc))
<1> DEFINE n == PlainSize
           c == k.bytecount
           b == Bytes(PlainSize)
           y == svc.body
<1>1. /\ Counts /\ result = "OK" /\ svc \in Services
      /\ k \in SingleRequest /\ got \in Seq(Byte)
  BY BodyCounts
<1>2. /\ c \in Nat /\ c <= Len(y) /\ got = SubSeq(y, 1, c)
      /\ used = svc.head + c
      /\ k.size \in Nat \cup {-1} /\ (k.size # -1 => c < k.size)
      /\ y \in Seq(Byte)
  BY <1>1, BodyFacts DEF IInv, PlainBody, Reading, SingleRequest
<1>3. /\ ~Says(svc, "chunked")
      /\ k.size = IF NoBody(svc) THEN 0
                  ELSE IF Says(svc, "length") THEN Len(y) ELSE -1
  BY DEF IInv, HeaderSaid
<1>4. /\ n \in Nat \ {0} /\ used + n <= read
      /\ k.size = -1 => n = read - used
      /\ k.size # -1 => n <= k.size - c
      /\ k.size # -1 => n = read - used \/ c + n = k.size
  <2>1. used \in Nat /\ read \in Nat /\ used + 1 <= read
    BY <1>1 DEF Counts
  <2>2. CASE k.size = -1
    <3>1. n = read - used
      BY <2>2 DEF PlainSize
    <3> HIDE DEF n, c
    <3> QED  BY <2>1, <2>2, <3>1
  <2>3. CASE k.size # -1
    <3>1. n = IF read - used <= k.size - c THEN read - used ELSE k.size - c
      BY <2>3 DEF PlainSize
    <3>2. k.size \in Nat /\ c < k.size
      BY <1>2, <2>3
    <3> DEFINE z == k.size
    <3> HIDE DEF n, c, z
    <3>3. z \in Nat /\ c < z /\ n = IF read - used <= z - c THEN read - used ELSE z - c
      BY <3>1, <3>2 DEF z
    <3>4. n \in Nat \ {0} /\ used + n <= read /\ n <= z - c
          /\ (n = read - used \/ c + n = z)
      BY <1>2, <2>1, <3>3
    <3> QED  BY <2>3, <3>4 DEF z
  <2> QED  BY <2>2, <2>3
<1> DEFINE cut == svc.cut
           hd == svc.head
           N == Len(svc.script)
<1>5. /\ used \in Nat /\ read \in Nat /\ hd \in Nat /\ cut \in Nat /\ N \in Nat
      /\ read <= cut /\ cut <= N /\ used = hd + c /\ c \in Nat
      /\ n \in Nat /\ n >= 1 /\ used + n <= read
  BY <1>1, <1>2, <1>4 DEF Counts
<1> HIDE DEF n
<1>6. ServiceBody(svc)
  BY <1>1, TokenFacts
<1>7. /\ b \in Seq(Byte) /\ Len(b) = n
      /\ \A i \in 1 .. n : b[i] = ByteOf(svc.script[svc.head + (c + i)])
  <2>1. Bytes(n) = [i \in 1 .. n |-> ByteOf(svc.script[used + i])]
    BY DEF Bytes
  <2>2. \A i \in 1 .. n : used + i \in 1 .. Len(svc.script)
                         /\ used + i = svc.head + (c + i)
    <3> HIDE DEF c, cut, hd, N
    <3>1. \A i \in 1 .. n : used + i \in 1 .. N /\ used + i = hd + (c + i)
      BY <1>5
    <3> QED  BY <3>1 DEF N, hd
  <2>3. \A i \in 1 .. n : ByteOf(svc.script[used + i]) \in Byte
    BY <1>1, <2>2, TokenFacts
  <2>4. Bytes(n) \in [1 .. n -> Byte]
    BY <2>1, <2>3
  <2>5. \A i \in 1 .. n : Bytes(n)[i] = ByteOf(svc.script[svc.head + (c + i)])
    BY <2>1, <2>2
  <2>6. Bytes(n) \in Seq(Byte) /\ Len(Bytes(n)) = n
    BY <1>4, <2>4
  <2> QED  BY <2>5, <2>6 DEF n
<1> HIDE DEF b
<1>8. CASE k.size # -1
  <2>1. /\ ~NoBody(svc) /\ Says(svc, "length") /\ k.size = Len(y)
    BY <1>2, <1>3, <1>8
  <2>2. /\ svc.framed
        /\ \A i \in 1 .. Len(y) :
             svc.head + i <= Len(svc.script) => y[i] = ByteOf(svc.script[svc.head + i])
    BY <1>3, <1>6, <2>1 DEF ServiceBody
  <2>3. c + n <= Len(y)
    BY <1>2, <1>4, <1>8, <2>1
  <2>4. ASSUME NEW i \in 1 .. n PROVE b[i] = y[c + i]
    <3>1. c + i \in 1 .. Len(y) /\ svc.head + (c + i) <= Len(svc.script)
      <4> HIDE DEF c, cut, hd, N, y
      <4>1. Len(y) \in Nat
        BY <1>2
      <4>2. c + i \in 1 .. Len(y) /\ hd + (c + i) <= N
        BY <1>5, <2>3, <4>1
      <4> QED  BY <4>2 DEF N, hd
    <3> QED  BY <1>7, <2>2, <3>1
  <2>5. got \o b = SubSeq(y, 1, c + n)
    BY <1>2, <1>7, <2>3, <2>4, PartBegins
  <2>6. BodyOf(svc) = y
    BY <1>1, <2>2 DEF BodyOf, Counts
  <2>7. Begins(SubSeq(y, 1, c + n), y)
    BY <1>2, <1>4, <2>3, PartIsBeginning
  <2> QED  BY <1>4, <1>7, <2>3, <2>5, <2>6, <2>7 DEF n, b
<1>9. CASE k.size = -1
  <2>1. ~NoBody(svc) /\ ~Says(svc, "length")
    BY <1>2, <1>3, <1>9
  <2>2. /\ ~svc.framed
        /\ y = [i \in 1 .. Len(svc.script) - svc.head |-> ByteOf(svc.script[svc.head + i])]
    BY <1>3, <1>6, <2>1 DEF ServiceBody
  <2>3. /\ Len(y) = Len(svc.script) - svc.head
        /\ \A i \in 1 .. Len(y) : y[i] = ByteOf(svc.script[svc.head + i])
    <3> DEFINE M == Len(svc.script) - svc.head
               f == [i \in 1 .. M |-> ByteOf(svc.script[svc.head + i])]
    <3>1. DOMAIN f = 1 .. M /\ \A i \in 1 .. M : f[i] = ByteOf(svc.script[svc.head + i])
      OBVIOUS
    <3> HIDE DEF f
    <3>2. y = f /\ M \in Nat
      BY <1>1, <2>2 DEF f, Counts
    <3> HIDE DEF M
    <3>3. Len(y) = M
      BY <1>2, <3>1, <3>2
    <3> QED  BY <3>1, <3>2, <3>3 DEF M
  <2>4. c + n <= svc.cut - svc.head /\ svc.cut - svc.head <= Len(y)
        /\ svc.cut - svc.head \in Nat /\ c + n \in Nat /\ c + n <= Len(y)
    <3>1. n = read - used /\ Len(y) = N - hd
      BY <1>4, <1>9, <2>3
    <3> HIDE DEF c, cut, hd, N, y
    <3>2. /\ c + n <= cut - hd /\ cut - hd <= Len(y)
          /\ cut - hd \in Nat /\ c + n \in Nat /\ c + n <= Len(y)
      BY <1>5, <3>1
    <3> QED  BY <3>2 DEF cut, hd
  <2>5. ASSUME NEW i \in 1 .. n PROVE b[i] = y[c + i]
    <3>1. c + i \in 1 .. Len(y)
      BY <1>2, <1>4, <2>4
    <3> QED  BY <1>7, <2>3, <3>1
  <2>6. got \o b = SubSeq(y, 1, c + n)
    BY <1>2, <1>7, <2>4, <2>5, PartBegins
  <2>7. BodyOf(svc) = SubSeq(y, 1, svc.cut - svc.head)
    BY <1>1, <2>2 DEF BodyOf, Counts
  <2>8. Begins(SubSeq(y, 1, c + n), SubSeq(y, 1, svc.cut - svc.head))
    BY <1>2, <2>4, PartIsBeginning
  <2> QED  BY <1>4, <1>7, <2>4, <2>6, <2>7, <2>8 DEF n, b
<1> QED  BY <1>8, <1>9

(* A body that is chunked says where it ends: it is what the decoder makes *)
(* of all its tokens.                                                      *)
LEMMA ChunkedBodyOf ==
  ASSUME NEW s \in Services, Says(s, "chunked"), s.head <= s.cut
  PROVE  /\ s.framed /\ BodyOf(s) = s.body
         /\ s.body = Dechunked(s)[Len(s.script) - s.head].bytes
<1>1. s.head \in Nat /\ s.cut \in Nat
  BY TokenFacts
<1>2. s.framed /\ s.body = Dechunked(s)[Len(s.script) - s.head].bytes
  BY TokenFacts DEF ServiceBody
<1> QED  BY <1>1, <1>2 DEF BodyOf

(* A piece of the data of a chunk.                                         *)
LEMMA ChunkPiece ==
  ASSUME IInv, Reading, ~k.header, k.chunk, ch.state = "DATA",
         NEW n \in 1 .. read - used, n <= ch.datasize
  PROVE  /\ Bytes(n) \in Seq(Byte) /\ Len(Bytes(n)) = n
         /\ Dechunked(svc)[used + n - svc.head] =
              [state    |-> IF ch.datasize = n THEN "POSTLF" ELSE "DATA",
               datasize |-> ch.datasize - n,
               bytes    |-> got \o Bytes(n)]
         /\ Begins(got \o Bytes(n), BodyOf(svc))
<1> DEFINE m == used - svc.head
           b == Bytes(n)
           d == Dechunked(svc)
           N == Len(svc.script) - svc.head
<1>1. /\ Counts /\ result = "OK" /\ svc \in Services /\ ch \in Chunker
      /\ got \in Seq(Byte)
  BY BodyCounts
<1>2. /\ m \in Nat /\ n \in Nat /\ svc.head + m = used /\ svc.head + m + n <= Len(svc.script)
      /\ used + n - svc.head = m + n /\ N \in Nat /\ m + n <= N /\ m + n \in Nat
      /\ (m + n) + (N - (m + n)) = N /\ N - (m + n) \in Nat
      /\ svc.head + (m + n) + (N - (m + n)) = Len(svc.script)
      /\ svc.head <= svc.cut
  <2> DEFINE h == svc.head
             L == Len(svc.script)
  <2>1. /\ used \in Nat /\ read \in Nat /\ h \in Nat /\ svc.cut \in Nat
        /\ h <= used /\ used + 1 <= read /\ read <= svc.cut /\ svc.cut <= L /\ L \in Nat
    BY <1>1 DEF Counts
  <2> HIDE DEF h, L
  <2>2. n \in Nat /\ used + n <= L
    BY <2>1
  <2>3. /\ used - h \in Nat /\ h + (used - h) = used /\ h + (used - h) + n <= L
        /\ used + n - h = (used - h) + n /\ L - h \in Nat /\ (used - h) + n <= L - h
        /\ h <= svc.cut
    BY <2>1, <2>2
  <2>4. /\ m \in Nat /\ N \in Nat /\ m + n <= N
    BY <2>3 DEF h, L
  <2> HIDE DEF m, N
  <2>5. m + n \in Nat /\ (m + n) + (N - (m + n)) = N /\ N - (m + n) \in Nat
    BY <2>2, <2>4
  <2>6. h + (m + n) + (N - (m + n)) = L
    BY <2>1, <2>5 DEF N, h, L
  <2> QED  BY <2>2, <2>3, <2>4, <2>5, <2>6 DEF h, L, m, N
<1>3. d[m] = [state |-> ch.state, datasize |-> ch.datasize, bytes |-> got]
  BY <1>1 DEF IInv, ChunkedBody
<1>4. d[m].state = "DATA" /\ d[m].datasize = ch.datasize /\ d[m].bytes = got
  BY <1>3
<1>5. b = BytesOf(svc, m, n)
  <2>1. \A i \in 1 .. n : svc.head + m + i = used + i
    BY <1>2
  <2> HIDE DEF m
  <2> QED  BY <2>1 DEF Bytes, BytesOf
<1>6. b \in Seq(Byte) /\ Len(b) = n
  <2> HIDE DEF m, N
  <2> QED  BY <1>1, <1>2, <1>5, BytesFacts
<1> HIDE DEF m, b, N
<1>7. /\ d[m + n].state = IF n = d[m].datasize THEN "POSTLF" ELSE "DATA"
      /\ d[m + n].datasize = d[m].datasize - n
      /\ d[m + n].bytes = d[m].bytes \o BytesOf(svc, m, n)
  <2>1. n <= d[m].datasize
    BY <1>4
  <2>2. svc \in Services /\ m \in Nat /\ n \in Nat /\ svc.head + m + n <= Len(svc.script)
        /\ d[m].state = "DATA"
    BY <1>1, <1>2, <1>4
  <2> QED  BY <2>1, <2>2, ChunkDataRun
<1> HIDE DEF d
<1>8. /\ d[m + n].state = IF ch.datasize = n THEN "POSTLF" ELSE "DATA"
      /\ d[m + n].datasize = ch.datasize - n
      /\ d[m + n].bytes = got \o b
  BY <1>4, <1>5, <1>7
<1>9. d[m + n] = [state    |-> IF ch.datasize = n THEN "POSTLF" ELSE "DATA",
                  datasize |-> ch.datasize - n,
                  bytes    |-> got \o b]
  <2>1. m + n \in 0 .. Len(svc.script) - svc.head
    BY <1>2 DEF N
  <2>2. d[m + n] \in Decoder
    BY <1>1, <2>1, DechunkedFacts DEF d
  <2>3. d[m + n] = [state |-> d[m + n].state, datasize |-> d[m + n].datasize,
                   bytes |-> d[m + n].bytes]
    BY <2>2 DEF Decoder
  <2> QED  BY <1>8, <2>3
<1>10. Begins(got \o b, BodyOf(svc))
  <2>1. Says(svc, "chunked")
    BY DEF IInv, HeaderSaid
  <2>2. BodyOf(svc) = d[N].bytes
    BY <1>1, <1>2, <2>1, ChunkedBodyOf DEF d, N
  <2>3. svc.head + (m + n) + (N - (m + n)) <= Len(svc.script)
    <3>1. Len(svc.script) \in Nat
      BY <1>1 DEF Counts
    <3> QED  BY <1>2, <3>1
  <2>4. Begins(d[m + n].bytes, d[(m + n) + (N - (m + n))].bytes)
    BY <1>1, <1>2, <2>3, DechunkedGrows DEF d
  <2> QED  BY <1>2, <1>8, <2>2, <2>4
<1> QED  BY <1>2, <1>6, <1>9, <1>10 DEF b, d

(* What libcurl knows of the header it keeps while it reads the body.      *)
LEMMA HeaderKept ==
  ASSUME IInv, ~k.header, used' \in Nat, used <= used',
         UNCHANGED <<svc, req, exp100, closing>>, keepon' \subseteq keepon,
         k'.header = k.header, k'.httpcode = k.httpcode, k'.size = k.size,
         k'.chunk = k.chunk
  PROVE  HeaderSoFar' /\ HeaderSays' /\ HeaderSaid' /\ Refusal'
<1>1. /\ svc.head \in Nat /\ svc.interim \in Nat /\ svc.interim + 1 < svc.head
      /\ used \in Nat /\ ~(used < svc.head)
  BY TokenFacts DEF IInv, TypeOK, HeaderSoFar
<1>2. ~(used' < svc.head) /\ used' > svc.interim /\ used' # 0 /\ used > svc.interim
      /\ ~(used' < svc.interim) /\ used' # svc.interim
  BY <1>1
<1>3. HeaderSoFar'
  BY <1>2 DEF IInv, HeaderSoFar
<1>4. HeaderSays'
  BY DEF HeaderSays
<1>5. HeaderSaid'
  BY DEF IInv, HeaderSaid, Says, NoBody
<1>6. Refusal'
  BY DEF IInv, Refusal, Refused
<1> QED  BY <1>3, <1>4, <1>5, <1>6

(* The callback takes a piece, or it runs out of memory.                   *)
LEMMA ClientWriteFacts ==
  ASSUME IInv, Reading, NEW n \in Nat, Bytes(n) \in Seq(Byte), ClientWrite(n)
  PROVE  /\ chunk' \in Seq(Byte) /\ got' \in Seq(Byte) /\ buf' \in Buffer
         /\ \/ /\ got' = got \o Bytes(n) /\ mstate' = mstate /\ result' = result
               /\ Len(buf'.str) = buf'.size
            \/ /\ got' = got /\ mstate' = "COMPLETED" /\ result' = "WRITE_ERROR"
<1> DEFINE b == Bytes(n)
<1>1. buf \in Buffer /\ Len(buf.str) = buf.size /\ got \in Seq(Byte)
  BY DEF IInv, TypeOK, Results, Reading
<1>2. /\ chunk' = b
      /\ \/ buf' = Received(buf, b) /\ got' = got \o b /\ UNCHANGED <<mstate, result>>
         \/ buf' = ReceiveFailed(buf) /\ Fail("WRITE_ERROR") /\ got' = got
  BY DEF ClientWrite
<1> HIDE DEF b
<1>3. b \in Seq(Byte)
  BY DEF b
<1>4. /\ Received(buf, b) \in Buffer /\ ReceiveFailed(buf) \in Buffer
      /\ Len(Received(buf, b).str) = Received(buf, b).size
  BY <1>1, <1>3, BufferKept
<1>5. got \o b \in Seq(Byte)
  BY <1>1, <1>3
<1> QED  BY <1>1, <1>2, <1>3, <1>4, <1>5 DEF Fail, b

(* A piece of a body that is not chunked.                                  *)
LEMMA PlainInvariant == IInv /\ Plain => IInv'
<1> SUFFICES ASSUME IInv, Plain PROVE IInv'
  OBVIOUS
<1> DEFINE n == PlainSize
           c == k.bytecount
<1>1. /\ Reading /\ ~k.header /\ ~k.chunk /\ ClientWrite(n) /\ used' = read
      /\ k' = [k EXCEPT !.bytecount = c + n]
      /\ keepon' = IF k.size # -1 /\ k'.bytecount >= k.size THEN keepon \ {"recv"}
                                                            ELSE keepon
      /\ UNCHANGED <<req, svc, head, rest, put, peer, code, pass, exp100, closing, read, ch>>
  BY DEF Plain, server
<1>2. /\ Counts /\ result = "OK" /\ svc \in Services /\ k \in SingleRequest
      /\ ch \in Chunker /\ got \in Seq(Byte) /\ "recv" \in keepon
  BY <1>1, BodyCounts DEF Reading
<1>3. /\ n \in Nat \ {0} /\ used + n <= read
      /\ k.size = -1 => n = read - used
      /\ k.size # -1 => n = read - used \/ c + n = k.size
      /\ Bytes(n) \in Seq(Byte)
      /\ c + n <= Len(svc.body)
      /\ got \o Bytes(n) = SubSeq(svc.body, 1, c + n)
  BY <1>1, PlainPiece
<1> HIDE DEF n
<1>4. /\ chunk' \in Seq(Byte) /\ got' \in Seq(Byte) /\ buf' \in Buffer
      /\ \/ /\ got' = got \o Bytes(n) /\ mstate' = mstate /\ result' = result
            /\ Len(buf'.str) = buf'.size
         \/ /\ got' = got /\ mstate' = "COMPLETED" /\ result' = "WRITE_ERROR"
  BY <1>1, <1>3, ClientWriteFacts
<1>5. /\ k' \in SingleRequest /\ k'.header = k.header /\ k'.httpcode = k.httpcode
      /\ k'.size = k.size /\ k'.chunk = k.chunk /\ k'.bytecount = c + n
  <2>1. c + n \in Nat
    <3>1. c \in Nat
      BY <1>2 DEF SingleRequest
    <3> HIDE DEF c
    <3> QED  BY <1>3, <3>1
  <2> HIDE DEF c
  <2> QED  BY <1>1, <1>2, <2>1 DEF SingleRequest
<1>6. used' \in Nat /\ used <= used' /\ used' \in 0 .. read
  BY <1>1, <1>2 DEF Counts
<1>7. keepon' \subseteq keepon
  BY <1>1
<1>8. HeaderSoFar' /\ HeaderSays' /\ HeaderSaid' /\ Refusal'
  BY <1>1, <1>5, <1>6, <1>7, HeaderKept
<1>9. TypeOK' /\ Untouched' /\ Results' /\ Ended'
  <2>1. keepon' \subseteq {"recv", "send"} /\ exp100' \in Exp100 /\ closing' \in BOOLEAN
        /\ ch' \in Chunker
    BY <1>1, <1>2 DEF IInv, TypeOK
  <2>2. "recv" \notin keepon' => ~k'.header /\ (k'.size = -1 => k'.chunk)
    BY <1>1, <1>2, <1>5
  <2> QED
    BY <1>1, <1>4, <1>5, <1>6, <2>1, <2>2, ReadingKept DEF server
<1>10. PlainBody'
  <2> SUFFICES ASSUME result' = "OK"
               PROVE  /\ k'.bytecount <= Len(svc.body)
                      /\ got' = SubSeq(svc.body, 1, k'.bytecount)
                      /\ "recv" \in keepon' \/ k'.size = -1 => used' = svc.head + k'.bytecount
                      /\ "recv" \in keepon' /\ k'.size # -1 => k'.bytecount < k'.size
    BY <1>1 DEF PlainBody
  <2>1. got' = SubSeq(svc.body, 1, c + n)
    BY <1>3, <1>4
  <2>2. used = svc.head + c /\ c \in Nat /\ k.size \in Nat \cup {-1}
    BY <1>1, <1>2 DEF IInv, PlainBody, SingleRequest
  <2>3. "recv" \in keepon' /\ k.size # -1 => ~(c + n >= k.size)
    BY <1>1, <1>5
  <2>4. "recv" \in keepon' /\ k.size # -1 => c + n < k.size
    <3> HIDE DEF c
    <3> QED  BY <1>3, <2>2, <2>3
  <2>5. "recv" \in keepon' \/ k.size = -1 => n = read - used
    <3>1. CASE k.size = -1
      BY <1>3, <3>1
    <3>2. CASE k.size # -1 /\ "recv" \in keepon'
      <4>1. c + n # k.size
        <5> HIDE DEF c
        <5> QED  BY <1>3, <2>2, <2>4, <3>2
      <4> QED  BY <1>3, <3>2, <4>1
    <3> QED  BY <3>1, <3>2
  <2>6. n = read - used => used' = svc.head + (c + n)
    <3>1. used \in Nat /\ read \in Nat /\ svc.head \in Nat
      BY <1>2 DEF Counts
    <3> HIDE DEF c
    <3> QED  BY <1>1, <2>2, <3>1
  <2> QED  BY <1>3, <1>5, <2>1, <2>4, <2>5, <2>6
<1>11. ChunkedBody'
  BY <1>1, <1>5 DEF ChunkedBody
<1> QED  BY <1>8, <1>9, <1>10, <1>11 DEF IInv

(* A piece of a chunk.                                                     *)
LEMMA ChunkDataInvariant == IInv /\ ChunkData => IInv'
<1> SUFFICES ASSUME IInv, ChunkData PROVE IInv'
  OBVIOUS
<1>1. /\ Reading /\ ~k.header /\ k.chunk /\ ch.state = "DATA"
      /\ UNCHANGED <<req, svc, head, rest, put, peer, code, pass, keepon, exp100,
                     closing, read>>
  BY DEF ChunkData, Dechunking, server
<1>2. PICK n \in 1 .. read - used :
        /\ n = IF ch.datasize >= read - used THEN read - used ELSE ch.datasize
        /\ ClientWrite(n)
        /\ used' = used + n
        /\ k' = [k EXCEPT !.bytecount = @ + n]
        /\ ch' = [state    |-> IF ch.datasize = n THEN "POSTLF" ELSE "DATA",
                  datasize |-> ch.datasize - n]
  BY DEF ChunkData
<1>3. /\ Counts /\ result = "OK" /\ svc \in Services /\ k \in SingleRequest
      /\ ch \in Chunker /\ got \in Seq(Byte) /\ "recv" \in keepon
  BY <1>1, BodyCounts DEF Reading
<1>4. n \in Nat /\ n <= ch.datasize /\ ch.datasize - n \in Nat /\ used + n <= read
      /\ used \in Nat
  BY <1>2, <1>3 DEF Chunker, Counts
<1>5. /\ Bytes(n) \in Seq(Byte)
      /\ Dechunked(svc)[used + n - svc.head] =
              [state    |-> IF ch.datasize = n THEN "POSTLF" ELSE "DATA",
               datasize |-> ch.datasize - n,
               bytes    |-> got \o Bytes(n)]
  BY <1>1, <1>4, ChunkPiece
<1>6. /\ chunk' \in Seq(Byte) /\ got' \in Seq(Byte) /\ buf' \in Buffer
      /\ \/ /\ got' = got \o Bytes(n) /\ mstate' = mstate /\ result' = result
            /\ Len(buf'.str) = buf'.size
         \/ /\ got' = got /\ mstate' = "COMPLETED" /\ result' = "WRITE_ERROR"
  BY <1>1, <1>2, <1>4, <1>5, ClientWriteFacts
<1>7. /\ k' \in SingleRequest /\ k'.header = k.header /\ k'.httpcode = k.httpcode
      /\ k'.size = k.size /\ k'.chunk = k.chunk
  BY <1>2, <1>3, <1>4 DEF SingleRequest
<1>8. used' \in Nat /\ used <= used' /\ used' \in 0 .. read
  BY <1>2, <1>4
<1>9. HeaderSoFar' /\ HeaderSays' /\ HeaderSaid' /\ Refusal'
  BY <1>1, <1>7, <1>8, HeaderKept
<1>10. TypeOK' /\ Untouched' /\ Results' /\ Ended'
  <2>1. keepon' \subseteq {"recv", "send"} /\ exp100' \in Exp100 /\ closing' \in BOOLEAN
    BY <1>1 DEF IInv, TypeOK
  <2>2. ch' \in Chunker
    BY <1>2, <1>4 DEF Chunker
  <2>3. "recv" \in keepon'
    BY <1>1, <1>3
  <2> QED
    BY <1>1, <1>6, <1>7, <1>8, <2>1, <2>2, <2>3, ReadingKept DEF server
<1>11. PlainBody'
  BY <1>1, <1>7 DEF PlainBody
<1>12. ChunkedBody'
  <2> SUFFICES ASSUME result' = "OK"
               PROVE  Dechunked(svc)[used' - svc.head] =
                        [state |-> ch'.state, datasize |-> ch'.datasize, bytes |-> got']
    BY <1>1 DEF ChunkedBody
  <2>1. got' = got \o Bytes(n)
    BY <1>6
  <2> DEFINE state == IF ch.datasize = n THEN "POSTLF" ELSE "DATA"
  <2>2. ch'.state = state /\ ch'.datasize = ch.datasize - n
    BY <1>2
  <2>3. Dechunked(svc)[used' - svc.head] =
          [state |-> state, datasize |-> ch.datasize - n, bytes |-> got \o Bytes(n)]
    <3>1. used' - svc.head = used + n - svc.head
      <4>1. used' = used + n
        BY <1>2
      <4>2. svc.head \in Nat
        BY <1>3 DEF Counts
      <4> QED  BY <1>4, <1>8, <4>1, <4>2
    <3>2. Dechunked(svc)[used + n - svc.head] =
            [state |-> state, datasize |-> ch.datasize - n, bytes |-> got \o Bytes(n)]
      BY <1>5
    <3> HIDE DEF state
    <3> QED  BY <3>1, <3>2
  <2> HIDE DEF state
  <2> QED  BY <2>1, <2>2, <2>3
<1> QED  BY <1>9, <1>10, <1>11, <1>12 DEF IInv

(* A line of the encoding.                                                 *)
LEMMA ChunkLineInvariant == IInv /\ ChunkLine => IInv'
<1> SUFFICES ASSUME IInv, ChunkLine PROVE IInv'
  OBVIOUS
<1> DEFINE m == used - svc.head
           d == Dechunked(svc)
           t == Next1
<1>1. /\ Reading /\ ~k.header /\ k.chunk /\ used' = used + 1
      /\ UNCHANGED <<req, svc, head, rest, put, peer, mstate, result, code, pass, exp100,
                     closing, read, k, buf, chunk, got>>
  BY DEF ChunkLine, Dechunking, server
<1>2. /\ Counts /\ result = "OK" /\ svc \in Services /\ k \in SingleRequest
      /\ ch \in Chunker /\ got \in Seq(Byte) /\ "recv" \in keepon
  BY <1>1, BodyCounts DEF Reading
<1>3. /\ used \in Nat /\ used' \in 0 .. read /\ used <= used'
      /\ m \in 0 .. Len(svc.script) - svc.head
      /\ m + 1 \in 1 .. Len(svc.script) - svc.head /\ (m + 1) - 1 = m
      /\ svc.head + (m + 1) = used + 1 /\ used + 1 \in 1 .. Len(svc.script)
      /\ used' - svc.head = m + 1
  <2> DEFINE h == svc.head
             L == Len(svc.script)
  <2>1. /\ used \in Nat /\ read \in Nat /\ h \in Nat /\ svc.cut \in Nat
        /\ h <= used /\ used + 1 <= read /\ read <= svc.cut /\ svc.cut <= L /\ L \in Nat
    BY <1>2 DEF Counts
  <2> HIDE DEF h, L
  <2>2. used' = used + 1 /\ used' \in 0 .. read /\ used <= used' /\ used + 1 \in 1 .. L
    BY <1>1, <2>1
  <2>3. /\ used - h \in 0 .. L - h /\ (used - h) + 1 \in 1 .. L - h
        /\ ((used - h) + 1) - 1 = used - h /\ h + ((used - h) + 1) = used + 1
        /\ used' - h = (used - h) + 1
    BY <2>1, <2>2
  <2> QED  BY <2>1, <2>2, <2>3 DEF h, L
<1>4. d[m] = [state |-> ch.state, datasize |-> ch.datasize, bytes |-> got]
  BY <1>1, <1>2 DEF IInv, ChunkedBody
<1>5. d[m + 1] = Dechunk(d[m], t)
  <2> HIDE DEF m
  <2>1. d[m + 1] = Dechunk(d[(m + 1) - 1], svc.script[svc.head + (m + 1)])
    BY <1>2, <1>3, DechunkedFacts
  <2> HIDE DEF d
  <2> QED  BY <1>3, <2>1 DEF Next1
<1>6. t.t = "size" => t.v \in Nat
  BY <1>2, <1>3, TokenFacts DEF ServiceTypes, Next1
<1>7. ch.state \in {"HEX", "DATA", "POSTLF", "TRAILER", "STOP"} /\ ch.datasize \in Nat
      /\ ch = [state |-> ch.state, datasize |-> ch.datasize]
  BY <1>2 DEF Chunker
<1>8. /\ ch' \in Chunker
      /\ keepon' \subseteq keepon
      /\ d[m + 1] = [state |-> ch'.state, datasize |-> ch'.datasize, bytes |-> got]
  <2> DEFINE a == d[m]
             e == d[m + 1]
  <2>1. a = [state |-> ch.state, datasize |-> ch.datasize, bytes |-> got] /\ e = Dechunk(a, t)
    BY <1>4, <1>5
  <2> HIDE DEF a, e, t
  <2>2. a.state = ch.state /\ a.datasize = ch.datasize /\ a.bytes = got
    BY <2>1
  <2>3. CASE ch.state = "HEX" /\ t.t = "size"
    <3> DEFINE state == IF t.v = 0 THEN "TRAILER" ELSE "DATA"
    <3>1. e = [a EXCEPT !.state = state, !.datasize = t.v]
      BY <2>1, <2>2, <2>3 DEF Dechunk
    <3>2. ch' = [state |-> state, datasize |-> t.v] /\ keepon' = keepon
      BY <2>3 DEF ChunkLine, t
    <3>3. state \in {"TRAILER", "DATA"}
      OBVIOUS
    <3> HIDE DEF state
    <3>4. e = [state |-> state, datasize |-> t.v, bytes |-> got]
      BY <2>1, <3>1
    <3> QED  BY <1>6, <2>3, <3>2, <3>3, <3>4 DEF Chunker, e, t
  <2>4. CASE ch.state = "POSTLF" /\ t.t = "lf"
    <3>1. e = [a EXCEPT !.state = "HEX", !.datasize = 0]
      BY <2>1, <2>2, <2>4 DEF Dechunk
    <3>2. ch' = [state |-> "HEX", datasize |-> 0] /\ keepon' = keepon
      BY <2>4 DEF ChunkLine, t
    <3>3. e = [state |-> "HEX", datasize |-> 0, bytes |-> got]
      BY <2>1, <3>1
    <3> QED  BY <3>2, <3>3 DEF Chunker, e
  <2>5. CASE \/ ch.state = "POSTLF" /\ t.t = "cr"
             \/ ch.state = "TRAILER" /\ t.t \notin {"cr", "lf"}
    <3>1. e = a
      BY <2>1, <2>2, <2>5 DEF Dechunk
    <3>2. ch' = ch /\ keepon' = keepon
      BY <2>5 DEF ChunkLine, t
    <3> QED  BY <1>2, <2>1, <3>1, <3>2 DEF e
  <2>6. CASE \/ ch.state = "TRAILER" /\ t.t \in {"cr", "lf"}
             \/ ch.state = "STOP" /\ t.t = "lf"
    <3>1. e = [a EXCEPT !.state = "STOP"]
      BY <2>1, <2>2, <2>6 DEF Dechunk
    <3>2. ch' = [ch EXCEPT !.state = "STOP"] /\ keepon' \subseteq keepon
      BY <2>6 DEF ChunkLine, t
    <3>3. ch' = [state |-> "STOP", datasize |-> ch.datasize]
      BY <1>7, <3>2
    <3>4. e = [state |-> "STOP", datasize |-> ch.datasize, bytes |-> got]
      BY <2>1, <3>1
    <3> QED  BY <1>7, <3>2, <3>3, <3>4 DEF Chunker, e
  <2> QED  BY <2>3, <2>4, <2>5, <2>6 DEF ChunkLine, t
<1> HIDE DEF m, d, t
<1>9. HeaderSoFar' /\ HeaderSays' /\ HeaderSaid' /\ Refusal'
  <2>1. used' \in Nat
    BY <1>1, <1>3
  <2> QED  BY <1>1, <1>3, <1>8, <2>1, HeaderKept
<1>10. TypeOK' /\ Untouched' /\ Results' /\ Ended'
  <2>1. keepon' \subseteq {"recv", "send"} /\ exp100' \in Exp100 /\ closing' \in BOOLEAN
    BY <1>1, <1>8 DEF IInv, TypeOK
  <2>2. ~k'.header /\ k'.chunk
    BY <1>1
  <2>3. buf' \in Buffer /\ Len(buf'.str) = buf'.size /\ chunk' \in Seq(Byte) /\ got' \in Seq(Byte)
    BY <1>1, <1>2 DEF IInv, TypeOK, Results
  <2> QED
    BY <1>1, <1>2, <1>3, <1>8, <2>1, <2>2, <2>3, ReadingKept DEF server
<1>11. PlainBody'
  BY <1>1 DEF PlainBody
<1>12. ChunkedBody'
  BY <1>1, <1>3, <1>8 DEF ChunkedBody, d, m
<1> QED  BY <1>9, <1>10, <1>11, <1>12 DEF IInv

(* Every step of client and service keeps the invariant.                   *)
LEMMA StepInvariant == IInv /\ [Next]_vars => IInv'
<1> SUFFICES ASSUME IInv, [Next]_vars PROVE IInv'
  OBVIOUS
<1>1. CASE Service
  BY <1>1, ServiceInvariant
<1>2. CASE code = "none" /\ (Start \/ Connect \/ Do)
  BY <1>2, BeginInvariant
<1>3. CASE code = "none" /\ (ReadError \/ SendError \/ ChunkError)
  <2>1. /\ mstate = "PERFORM"
        /\ Fail("RECV_ERROR") \/ Fail("SEND_ERROR")
        /\ UNCHANGED <<req, svc, head, rest, server, code, pass, keepon, exp100,
                       closing, parser>>
    BY <1>3 DEF ReadError, SendError, ChunkError, Selecting, Dechunking, Reading
  <2>2. "RECV_ERROR" \in Errors /\ "SEND_ERROR" \in Errors
    BY DEF Errors
  <2> QED  BY <1>3, <2>1, <2>2, FailInvariant
<1>4. CASE Read \/ ReadEnd
  BY <1>4, ReadInvariant
<1>5. CASE Send \/ Expire
  BY <1>5, SendInvariant
<1>6. CASE HeaderLine \/ InterimEnd \/ HeaderEnd
  BY <1>6, HeaderLineInvariant, InterimEndInvariant, HeaderEndInvariant
<1>7. CASE Plain \/ ChunkData \/ ChunkLine
  BY <1>7, PlainInvariant, ChunkDataInvariant, ChunkLineInvariant
<1>8. CASE PollFails \/ (code = "none" /\ (PassEnds \/ Done \/ Complete \/ Return))
  BY <1>8, EndInvariant
<1>9. CASE UNCHANGED vars
  <2>1. /\ UNCHANGED <<req, svc, head, rest, put, peer, mstate, result, code, pass,
                       keepon, exp100, closing, read, used, k, ch, buf, chunk, got>>
    BY <1>9 DEF vars, server, parser
  <2>2. TypeOK'
    BY <2>1 DEF IInv, TypeOK
  <2>3. Untouched' /\ Results' /\ Refusal'
    BY <2>1 DEF IInv, Untouched, Results, Refusal, Refused
  <2>4. Ended'
    BY <2>1 DEF IInv, Ended, Partial
  <2>5. Parsed'
    BY <2>1, ParsedKept DEF IInv, Parsed
  <2> QED  BY <2>2, <2>3, <2>4, <2>5 DEF IInv, Parsed
<1> QED  BY <1>1, <1>2, <1>3, <1>4, <1>5, <1>6, <1>7, <1>8, <1>9
            DEF Next, Client, Perform

(* The invariant holds throughout a transfer.                              *)
LEMMA SpecInvariant == Spec => []IInv
<1> QED  BY InitInvariant, StepInvariant, PTL DEF Spec

(* Every variable of a transfer keeps its type: none of libcurl's counters *)
(* leaves its bounds, and nothing is used that has not been read, or read  *)
(* that has not been sent.                                                 *)
THEOREM TypeCorrect == Spec => []TypeOK
<1>1. IInv => TypeOK
  BY DEF IInv
<1> QED  BY <1>1, SpecInvariant, PTL

(* A transfer that succeeds has given the callback the body that           *)
(* HttpReceive.tla delivers.                                               *)
LEMMA SuccessIsTheBody ==
  ASSUME IInv, result = "OK", mstate = "MSGSENT"
  PROVE  got = BodyOf(svc)
<1> DEFINE y == svc.body
           none == << >>
<1>1. /\ svc \in Services /\ k \in SingleRequest /\ ch \in Chunker /\ got \in Seq(Byte)
      /\ y \in Seq(Byte)
  BY BodyFacts DEF IInv, TypeOK
<1>2. ~Partial /\ "recv" \notin keepon
  BY DEF IInv, Ended
<1>3. ServiceBody(svc)
  BY <1>1, TokenFacts
<1>4. /\ svc.head \in Nat /\ svc.cut \in Nat /\ Len(svc.script) \in Nat
      /\ used \in Nat /\ used <= svc.cut /\ svc.cut <= Len(svc.script)
      /\ k.header <=> used < svc.head
  BY <1>1, TokenFacts DEF IInv, TypeOK, HeaderSoFar
<1>5. CASE k.header
  <2>1. used = svc.cut /\ got = none
    BY <1>2, <1>5 DEF IInv, Ended, HeaderSoFar
  <2> QED  BY <1>4, <1>5, <2>1 DEF BodyOf
<1>6. CASE ~k.header /\ k.chunk
  <2> DEFINE m == used - svc.head
             n == Len(svc.script) - used
             d == Dechunked(svc)
  <2>1. d[m] = [state |-> ch.state, datasize |-> ch.datasize, bytes |-> got]
    BY <1>6 DEF IInv, ChunkedBody
  <2>2. ch.state = "STOP"
    BY <1>2, <1>6 DEF Partial
  <2>3. d[m].state = "STOP" /\ d[m].bytes = got
    BY <2>1, <2>2
  <2>4. /\ m \in Nat /\ n \in Nat /\ svc.head + m + n <= Len(svc.script)
        /\ m + n = Len(svc.script) - svc.head /\ svc.head <= svc.cut
    <3> DEFINE h == svc.head
               L == Len(svc.script)
               cut == svc.cut
    <3>1. h \in Nat /\ L \in Nat /\ used \in Nat /\ cut \in Nat /\ h <= used
          /\ used <= cut /\ cut <= L
      BY <1>4, <1>6
    <3> HIDE DEF h, L, cut
    <3>2. /\ used - h \in Nat /\ L - used \in Nat /\ h + (used - h) + (L - used) <= L
          /\ (used - h) + (L - used) = L - h /\ h <= cut
      BY <3>1
    <3> QED  BY <3>2 DEF h, L, cut
  <2> HIDE DEF m, n
  <2>5. d[m + n].bytes = got
    BY <1>1, <2>3, <2>4, DechunkedGrows
  <2>6. Says(svc, "chunked")
    BY <1>6 DEF IInv, HeaderSaid
  <2>7. BodyOf(svc) = d[Len(svc.script) - svc.head].bytes
    BY <1>1, <2>4, <2>6, ChunkedBodyOf
  <2> QED  BY <2>4, <2>5, <2>7
<1>7. CASE ~k.header /\ ~k.chunk
  <2>1. /\ ~Says(svc, "chunked")
        /\ k.size = IF NoBody(svc) THEN 0
                    ELSE IF Says(svc, "length") THEN Len(y) ELSE -1
    BY <1>7 DEF IInv, HeaderSaid
  <2>2. k.bytecount <= Len(y) /\ got = SubSeq(y, 1, k.bytecount)
    BY <1>7 DEF IInv, PlainBody
  <2>3. k.size # -1 => k.bytecount = k.size
    BY <1>2 DEF Partial
  <2>4. ~(svc.cut < svc.head)
    BY <1>4, <1>7
  <2>5. CASE NoBody(svc)
    <3>1. y = none /\ svc.framed
      BY <1>3, <2>1, <2>5 DEF ServiceBody
    <3>2. k.bytecount = 0
      BY <2>1, <2>3, <2>5
    <3>3. SubSeq(y, 1, 0) = none
      BY <1>1
    <3> QED  BY <2>2, <2>4, <3>1, <3>2, <3>3 DEF BodyOf
  <2>6. CASE ~NoBody(svc) /\ Says(svc, "length")
    <3>1. svc.framed
      BY <1>3, <2>1, <2>6 DEF ServiceBody
    <3>2. k.bytecount = Len(y)
      BY <1>1, <2>1, <2>3, <2>6
    <3>3. SubSeq(y, 1, Len(y)) = y
      BY <1>1
    <3> QED  BY <2>2, <2>4, <3>1, <3>2, <3>3 DEF BodyOf
  <2>7. CASE ~NoBody(svc) /\ ~Says(svc, "length")
    <3>1. ~svc.framed /\ k.size = -1
      BY <1>3, <2>1, <2>7 DEF ServiceBody
    <3>2. used = svc.cut
      BY <1>2, <1>7, <3>1 DEF IInv, Ended
    <3>3. used = svc.head + k.bytecount
      BY <1>7, <3>1 DEF IInv, PlainBody
    <3>4. k.bytecount = svc.cut - svc.head
      <4> DEFINE h == svc.head
                 c == k.bytecount
      <4>1. h \in Nat /\ c \in Nat /\ used = h + c /\ used \in Nat
        BY <1>1, <1>4, <3>3 DEF SingleRequest
      <4> HIDE DEF h, c
      <4>2. c = used - h
        BY <4>1
      <4> QED  BY <3>2, <4>2 DEF h, c
    <3> QED  BY <2>2, <2>4, <3>1, <3>4 DEF BodyOf
  <2> QED  BY <2>5, <2>6, <2>7
<1> QED  BY <1>5, <1>6, <1>7

(* If curl_easy_perform says CURLE_OK of a reply that says where its body  *)
(* ends, and libcurl has seen the end of its header, then the callback has *)
(* been given the whole body.                                              *)
THEOREM SuccessIsTheWholeReply == Spec => []WholeReply
<1>1. IInv => WholeReply
  <2> SUFFICES ASSUME IInv, code = "OK", svc.framed, ~k.header PROVE got = svc.body
    BY DEF WholeReply
  <2>1. result = "OK" /\ mstate = "MSGSENT"
    BY DEF IInv, Results
  <2>2. ~(svc.cut < svc.head)
    BY TokenFacts DEF IInv, TypeOK, HeaderSoFar
  <2> QED  BY <2>1, <2>2, SuccessIsTheBody DEF BodyOf
<1> QED  BY <1>1, SpecInvariant, PTL

(* CURLE_OK is never said of a connection that closed before the first     *)
(* line of an answer, nor of one that closed behind "100 Continue".        *)
THEOREM SuccessHasAnAnswer == Spec => []AnswerIsReal
<1>1. IInv => AnswerIsReal
  <2> SUFFICES ASSUME IInv, code = "OK", used \in {0, svc.interim} PROVE FALSE
    BY DEF AnswerIsReal
  <2>1. k.bytecount + k.headers > 0
    BY DEF IInv, Results, Ended
  <2>2. used < svc.head
    BY TokenFacts DEF IInv, TypeOK
  <2>3. k.headers = 0 /\ k.bytecount = 0
    BY <2>2 DEF IInv, HeaderSoFar
  <2> QED  BY <2>1, <2>3
<1> QED  BY <1>1, SpecInvariant, PTL

(* A request that the service has refused is sent no further.              *)
THEOREM RefusedBodiesStay == Spec => RefusedBodyStays
<1>1. IInv /\ [Next]_vars => [Refused => UNCHANGED rest]_vars
  <2> SUFFICES ASSUME IInv, Next, Refused PROVE rest' = rest
    OBVIOUS
  <2>1. ~Send
    BY DEF IInv, Refusal, Send
  <2>2. CASE Service \/ PollFails
    BY <2>2 DEF Service, ServiceSends, ServiceCloses, PollFails
  <2>3. CASE Start \/ Connect \/ Do \/ Done \/ Complete \/ Return
    BY <2>3 DEF Start, Connect, Do, Done, Complete, Return
  <2>4. CASE Read \/ ReadEnd \/ ReadError \/ SendError \/ Expire \/ PassEnds
    BY <2>4 DEF Read, ReadEnd, ReadError, SendError, Expire, PassEnds
  <2>5. CASE HeaderLine \/ InterimEnd \/ HeaderEnd
    BY <2>5 DEF HeaderLine, InterimEnd, HeaderEnd
  <2>6. CASE Plain \/ ChunkData \/ ChunkLine \/ ChunkError
    BY <2>6 DEF Plain, ChunkData, ChunkLine, ChunkError
  <2> QED  BY <2>1, <2>2, <2>3, <2>4, <2>5, <2>6 DEF Next, Client, Perform
<1> QED  BY <1>1, SpecInvariant, PTL DEF Spec, RefusedBodyStays

-----------------------------------------------------------------------------
(* A new transfer is one of HttpReceive.tla.                               *)
LEMMA ReceiveInit == Init => Receive!Init
<1> SUFFICES ASSUME Init PROVE Receive!Init
  OBVIOUS
<1>1. svc \in Services /\ code = "none" /\ result = "OK" /\ buf = Fresh
      /\ got = << >> /\ chunk = << >>
  BY DEF Init
<1>2. Len(got) = 0
  BY <1>1
<1> QED  BY <1>1, <1>2 DEF Receive!Init, Receive!Fresh, Fresh

(* A step that neither touches the buffer nor ends the transfer is none    *)
(* there ...                                                               *)
LEMMA ReceiveStutters ==
  ASSUME UNCHANGED <<svc, got, buf, chunk>>,
         \/ UNCHANGED <<code, result>>
         \/ code = "none" /\ result # "OK" /\ code' \notin {"none", "OK"}
  PROVE  UNCHANGED Receive!vars
<1> QED  BY DEF Receive!vars

(* ... one that ends it with an error breaks it ...                        *)
LEMMA ReceiveBreaks ==
  ASSUME UNCHANGED <<svc, got, buf, chunk>>, code = "none", result = "OK",
         \/ code' = "none" /\ result' # "OK"
         \/ code' = "RECV_ERROR"
  PROVE  Receive!Break
<1> QED  BY DEF Receive!Break

(* ... and a piece of the body is a call of the callback.                  *)
LEMMA ReceiveDelivers ==
  ASSUME IInv, Reading, code = "none", NEW n \in Nat \ {0},
         Bytes(n) \in Seq(Byte), Len(Bytes(n)) = n,
         Begins(got \o Bytes(n), BodyOf(svc)),
         ClientWrite(n), UNCHANGED <<svc, code>>
  PROVE  Receive!Next
<1> DEFINE b == Bytes(n)
           y == BodyOf(svc)
<1>1. got \in Seq(Byte) /\ y \in Seq(Byte) /\ result = "OK"
  BY BodyFacts DEF IInv, TypeOK, Results, Reading
<1>2. /\ chunk' = b
      /\ \/ buf' = Received(buf, b) /\ got' = got \o b /\ UNCHANGED <<mstate, result>>
         \/ NeedsMemory(buf, n) /\ buf' = ReceiveFailed(buf) /\ result' = "WRITE_ERROR"
            /\ got' = got
  BY DEF ClientWrite, Fail
<1>3. BodyOf(svc)' = y
  BY DEF BodyOf
<1> HIDE DEF b, y
<1>4. b \in Seq(Byte) /\ Len(b) = n
  BY DEF b
<1>5. Len(got) + n <= Len(y) /\ b = SubSeq(y, Len(got) + 1, Len(got) + n)
  <2>1. Begins(got \o b, y)
    BY DEF b, y
  <2> QED  BY <1>1, <1>4, <2>1, BeginsPart
<1>6. n \in 1 .. Len(y) - Len(got)
  BY <1>1, <1>4, <1>5
<1>7. n \in Receive!ChunkSizes /\ b = Receive!NextChunk(n)
  BY <1>5, <1>6 DEF Receive!ChunkSizes, Receive!NextChunk, y
<1>8. CASE buf' = Received(buf, b) /\ got' = got \o b /\ UNCHANGED <<mstate, result>>
  <2>1. Len(got') = Len(got) + n
    BY <1>1, <1>4, <1>8, ConcatFacts
  <2>2. buf' = Receive!Received(buf, b)
    BY <1>8 DEF Received, Grown, Receive!Received, Receive!Grown
  <2>3. Receive!Deliver
    BY <1>1, <1>2, <1>3, <1>7, <1>8, <2>1, <2>2 DEF Receive!Deliver, y
  <2> QED  BY <2>3 DEF Receive!Next
<1>9. CASE NeedsMemory(buf, n) /\ buf' = ReceiveFailed(buf) /\ result' = "WRITE_ERROR"
           /\ got' = got
  <2>1. Receive!NeedsMemory(buf, n) /\ buf' = Receive!ReceiveFailed(buf)
    BY <1>9 DEF NeedsMemory, ReceiveFailed, Receive!NeedsMemory, Receive!ReceiveFailed
  <2>2. Receive!DeliverNoMemory
    BY <1>1, <1>2, <1>3, <1>7, <1>9, <2>1 DEF Receive!DeliverNoMemory, y
  <2> QED  BY <2>2 DEF Receive!Next
<1> QED  BY <1>2, <1>8, <1>9

(* Every step of libcurl and of the service is a step of HttpReceive.tla   *)
(* or none.                                                                *)
LEMMA ReceiveStep == IInv /\ [Next]_vars => [Receive!Next]_(Receive!vars)
<1> SUFFICES ASSUME IInv, [Next]_vars PROVE Receive!Next \/ UNCHANGED Receive!vars
  OBVIOUS
<1>1. CASE UNCHANGED vars \/ Service
  <2>1. UNCHANGED <<svc, got, buf, chunk, code, result>>
    BY <1>1 DEF vars, parser, Service, ServiceSends, ServiceCloses
  <2> QED  BY <2>1, ReceiveStutters
<1>2. CASE code = "none" /\ (Start \/ Connect \/ Do \/ PassEnds \/ Done
                            \/ ReadError \/ SendError \/ ChunkError)
  <2>1. UNCHANGED <<svc, got, buf, chunk, code>>
    BY <1>2 DEF Start, Connect, Do, PassEnds, Done, ReadError, SendError, ChunkError, parser
  <2>2. mstate \notin {"COMPLETED", "MSGSENT"}
    BY <1>2 DEF Start, Connect, Do, PassEnds, Done, ReadError, SendError, ChunkError,
                Selecting, Dechunking, Reading
  <2>3. result = "OK"
    BY <2>2 DEF IInv, Results
  <2>4. CASE result' = "OK"
    BY <2>1, <2>3, <2>4, ReceiveStutters
  <2>5. CASE result' # "OK"
    BY <1>2, <2>1, <2>3, <2>5, ReceiveBreaks DEF Receive!Next
  <2> QED  BY <2>4, <2>5
<1>3. CASE Read \/ ReadEnd \/ Send \/ Expire \/ HeaderLine \/ InterimEnd \/ HeaderEnd
           \/ ChunkLine \/ Complete
  <2>1. UNCHANGED <<svc, got, buf, chunk, code, result>>
    BY <1>3 DEF Read, ReadEnd, Send, Expire, HeaderLine, InterimEnd, HeaderEnd, ChunkLine,
                Complete, Proceed, parser
  <2> QED  BY <2>1, ReceiveStutters
<1>4. CASE code = "none" /\ Plain
  <2>1. /\ Reading /\ ~k.header /\ ~k.chunk /\ ClientWrite(PlainSize)
        /\ UNCHANGED <<svc, code>>
    BY <1>4 DEF Plain
  <2>2. /\ PlainSize \in Nat \ {0}
        /\ Bytes(PlainSize) \in Seq(Byte) /\ Len(Bytes(PlainSize)) = PlainSize
        /\ Begins(got \o Bytes(PlainSize), BodyOf(svc))
    BY <2>1, PlainPiece
  <2> QED  BY <1>4, <2>1, <2>2, ReceiveDelivers
<1>5. CASE code = "none" /\ ChunkData
  <2>1. /\ Reading /\ ~k.header /\ k.chunk /\ ch.state = "DATA"
        /\ UNCHANGED <<svc, code>>
    BY <1>5 DEF ChunkData, Dechunking
  <2>2. PICK n \in 1 .. read - used :
          /\ n = IF ch.datasize >= read - used THEN read - used ELSE ch.datasize
          /\ ClientWrite(n)
    BY <1>5 DEF ChunkData
  <2>3. n \in Nat \ {0} /\ n <= ch.datasize
    <3>1. used \in Nat /\ read \in Nat /\ ch.datasize \in Nat
      BY <2>1, BodyCounts DEF Counts, Chunker
    <3> QED  BY <2>2, <3>1
  <2>4. /\ Bytes(n) \in Seq(Byte) /\ Len(Bytes(n)) = n
        /\ Begins(got \o Bytes(n), BodyOf(svc))
    BY <2>1, <2>3, ChunkPiece
  <2> QED  BY <1>5, <2>1, <2>2, <2>3, <2>4, ReceiveDelivers
<1>6. CASE code = "none" /\ Return
  <2>1. /\ UNCHANGED <<svc, got, buf, chunk, result>> /\ code' = result
        /\ mstate = "MSGSENT" /\ result \in Errors \cup {"OK"}
    BY <1>6 DEF Return, parser, IInv, TypeOK
  <2>2. CASE result = "OK"
    <3>1. Len(got) = Len(BodyOf(svc))
      BY <2>1, <2>2, SuccessIsTheBody
    <3>2. BodyOf(svc)' = BodyOf(svc)
      BY <2>1 DEF BodyOf
    <3>3. Receive!Finish
      BY <1>6, <2>1, <2>2, <3>1, <3>2 DEF Receive!Finish
    <3> QED  BY <3>3 DEF Receive!Next
  <2>3. CASE result # "OK"
    <3>1. code' \notin {"none", "OK"}
      BY <2>1, <2>3 DEF Errors
    <3> QED  BY <1>6, <2>1, <2>3, <3>1, ReceiveStutters
  <2> QED  BY <2>2, <2>3
<1>7. CASE PollFails
  <2>1. UNCHANGED <<svc, got, buf, chunk, result>> /\ code = "none" /\ code' = "RECV_ERROR"
    BY <1>7 DEF PollFails, parser
  <2>2. CASE result = "OK"
    BY <2>1, <2>2, ReceiveBreaks DEF Receive!Next
  <2>3. CASE result # "OK"
    BY <2>1, <2>3, ReceiveStutters
  <2> QED  BY <2>2, <2>3
<1> QED  BY <1>1, <1>2, <1>3, <1>4, <1>5, <1>6, <1>7 DEF Next, Client, Perform

(* One curl_easy_perform of the vendored libcurl is a transfer as          *)
(* HttpReceive.tla describes it: the body comes in order, in pieces, once, *)
(* and success is its end.                                                 *)
THEOREM TransferIsAReceive == Spec => Receive!Init /\ [][Receive!Next]_(Receive!vars)
<1> QED  BY ReceiveInit, SpecInvariant, ReceiveStep, PTL DEF Spec

(* What HttpReceiveProofs.tla proves of the buffer holds for libcurl's own *)
(* calls of the callback: it writes within its memory, the NULL of a       *)
(* failed realloc is not used, and the text that an API function parses is *)
(* the end of this reply's body.                                           *)
THEOREM CallbackIsSafe ==
  Spec => [](Receive!BufferSafe /\ Receive!NullIsNeverUsed /\ Receive!ParsedIsTail)
<1>1. Receive!Init => Receiving!IInv
  <2>1. Receive!Init => Receiving!Init
    BY DEF Receive!Init, Receiving!Init, Receive!Fresh, Receiving!Fresh
  <2> QED  BY <2>1, Receiving!InitInvariant, ReceivingAssumptions
<1>2. Receiving!IInv /\ [Receive!Next]_(Receive!vars) => Receiving!IInv'
  <2>1. Receive!Next => Receiving!Next
    <3>1. Receive!Deliver => Receiving!Deliver
      BY DEF Receive!Deliver, Receiving!Deliver, Receive!ChunkSizes, Receiving!ChunkSizes,
             Receive!NextChunk, Receiving!NextChunk, Receive!Received, Receiving!Received,
             Receive!Grown, Receiving!Grown
    <3>2. Receive!DeliverNoMemory => Receiving!DeliverNoMemory
      BY DEF Receive!DeliverNoMemory, Receiving!DeliverNoMemory,
             Receive!ChunkSizes, Receiving!ChunkSizes, Receive!NextChunk, Receiving!NextChunk,
             Receive!NeedsMemory, Receiving!NeedsMemory,
             Receive!ReceiveFailed, Receiving!ReceiveFailed
    <3>3. Receive!Break => Receiving!Break
      BY DEF Receive!Break, Receiving!Break
    <3>4. Receive!Finish => Receiving!Finish
      BY DEF Receive!Finish, Receiving!Finish
    <3> QED  BY <3>1, <3>2, <3>3, <3>4 DEF Receive!Next, Receiving!Next
  <2>2. UNCHANGED Receive!vars => UNCHANGED Receiving!vars
    BY DEF Receive!vars, Receiving!vars
  <2> QED  BY <2>1, <2>2, Receiving!StepInvariant, ReceivingAssumptions
<1>3. Receiving!IInv => Receive!BufferSafe /\ Receive!NullIsNeverUsed
  BY DEF Receiving!IInv, Receiving!BufferSafe, Receive!BufferSafe,
         Receiving!NullIsNeverUsed, Receive!NullIsNeverUsed, Receiving!IsNull, Receive!IsNull
<1>4. Receiving!IInv => Receive!ParsedIsTail
  <2>1. Receiving!IInv => Receiving!ParsedIsTail
    BY Receiving!InvariantParsesATail, ReceivingAssumptions
  <2>2. Receiving!ParsedIsTail => Receive!ParsedIsTail
    BY DEF Receiving!ParsedIsTail, Receive!ParsedIsTail, Receiving!IsCString, Receive!IsCString
  <2> QED  BY <2>1, <2>2
<1> QED  BY <1>1, <1>2, <1>3, <1>4, TransferIsAReceive, PTL
=============================================================================
