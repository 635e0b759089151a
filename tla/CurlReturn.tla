----------------------------- MODULE CurlReturn -----------------------------
(***************************************************************************)
(* struct curl_return_str (src/src/xbusiness_misc.h) and the libcurl write *)
(* callback _recive_data_from_http_api (src/src/xbusiness_misc.c), as a    *)
(* data structure: a module of operators and no variables.                 *)
(*                                                                         *)
(* A buffer is a record [str, len, size].  str is the memory the pointer   *)
(* refers to, cell by cell: str[1] is C's str[0].  A NULL pointer refers   *)
(* to no cell and is the empty sequence.  The bytes themselves matter only *)
(* through three classes: a byte of a body (Byte), the terminator (Nul)    *)
(* and a cell realloc added and nobody wrote yet (Junk).                   *)
(***************************************************************************)
EXTENDS Naturals, Sequences

CONSTANTS
  Byte,          \* the bytes a response body is made of
  Nul,           \* '\0'
  Junk,          \* a cell whose content is indeterminate
  InitialSize    \* the calloc'ed size: 1024 in every API function

ASSUME CurlReturnAssumption ==
  /\ InitialSize \in Nat \ {0}
  /\ Nul \notin Byte
  /\ Junk \notin Byte
  /\ Nul # Junk

Cell == Byte \cup {Nul, Junk}

Buffer == [str : Seq(Cell), len : Nat, size : Nat]

IsNull(b) == b.str = << >>

(* What every API function sets up before it starts a transfer:            *)
(* len = 0; size = 1024; str = calloc(1, 1024).                            *)
Fresh == [str  |-> [i \in 1 .. InitialSize |-> Nul],
          len  |-> 0,
          size |-> InitialSize]

(* Variant: the room for the terminator is forgotten.                      *)
GrownTooLate(b, n) ==
  IF b.size < n
  THEN [b EXCEPT !.size = n,
                 !.str = [i \in 1 .. n |-> IF i <= Len(b.str)
                                            THEN b.str[i] ELSE Junk]]
  ELSE b

(* The realloc at the top of the callback: it happens only when a chunk of *)
(* n bytes and its terminator do not fit, and it keeps the old content.    *)
Grown(b, n) ==
  IF b.size < n + 1
  THEN [b EXCEPT !.size = n + 1,
                 !.str = [i \in 1 .. n + 1 |-> IF i <= Len(b.str)
                                                THEN b.str[i] ELSE Junk]]
  ELSE b

(* Variant: no terminator behind the chunk.                                *)
ReceivedUnterminated(b, chunk) ==
  LET g == Grown(b, Len(chunk))
  IN  [g EXCEPT !.len = Len(chunk),
                !.str = [i \in 1 .. Len(g.str) |->
                           IF i <= Len(chunk) THEN chunk[i] ELSE g.str[i]]]

(* Variant: the character '0' instead of '\0'.                             *)
ReceivedCharZero(b, chunk) ==
  [ReceivedUnterminated(b, chunk) EXCEPT !.str[Len(chunk) + 1] = 0]

(* One call of the callback that returns what libcurl expects: the chunk   *)
(* goes to the START of the buffer, whatever an earlier call left there.   *)
Received(b, chunk) ==
  LET n == Len(chunk)
      g == Grown(b, n)
  IN  [g EXCEPT !.len = n,
                !.str = [i \in 1 .. Len(g.str) |->
                           IF i <= n THEN chunk[i]
                           ELSE IF i = n + 1 THEN Nul ELSE g.str[i]]]

(* The call whose realloc fails: str is overwritten with NULL before the   *)
(* early return, size and len keep their old values, and the callback      *)
(* returns 0.                                                              *)
NeedsMemory(b, n) == b.size < n + 1

ReceiveFailed(b) == [b EXCEPT !.str = << >>]

(***************************************************************************)
(* What a reader of the C string sees: the cells before the first Nul.     *)
(***************************************************************************)
IsCString(b, s) ==
  /\ Len(s) < Len(b.str)
  /\ b.str[Len(s) + 1] = Nul
  /\ \A i \in 1 .. Len(s) : s[i] \in Byte /\ b.str[i] = s[i]
=============================================================================
