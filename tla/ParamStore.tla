----------------------------- MODULE ParamStore -----------------------------
(***************************************************************************)
(* The parameters of xvpr_global_setparam (src/src/xbusiness_vpr.c): one   *)
(* character array each, and the number "type".  Operators only.           *)
(***************************************************************************)
EXTENDS Integers, Sequences

CONSTANTS
  ParamSize,    \* the size of each array: 64, 64, 64, 8 and 2 in the code
  ParamChar,    \* the characters of values
  ParamNul      \* '\0'

TextParams == {"accesskey", "secretkey", "host", "port", "version"}

ASSUME ParamAssumption ==
  /\ ParamSize \in [TextParams -> Nat \ {0}]
  /\ ParamNul \notin ParamChar

(* Cell i of an array as strncpy(array, value, size) leaves it: behind the *)
(* value it is padded, but a value without room for one has no terminator. *)
Copied(value, i) == IF i <= Len(value) THEN value[i] ELSE ParamNul

(* Variant: no padding behind the value.                                   *)
StrncpyBare(cells, size, value) ==
  [i \in 1 .. size |-> IF i <= Len(value) THEN value[i] ELSE cells[i]]

Strncpy(cells, size, value) == [i \in 1 .. size |-> Copied(value, i)]

(* xvpr_param_type = atoi(param), an INT8.                                 *)
Int8(n) == ((n + 128) % 256) - 128

(* What setparam makes of the store; a key it does not know changes        *)
(* nothing.                                                                *)
Set(store, key, value) ==
  CASE key \in TextParams ->
         [store EXCEPT ![key] = Strncpy(store[key], ParamSize[key], value)]
    [] key = "type" -> [store EXCEPT !["type"] = Int8(value)]
    [] OTHER        -> store

(* What printf("%s", array) would read, if it stays in the array.          *)
ReadsAs(cells, value) ==
  /\ Len(value) < Len(cells)
  /\ cells[Len(value) + 1] = ParamNul
  /\ \A i \in 1 .. Len(value) : cells[i] = value[i] /\ value[i] # ParamNul
=============================================================================
