---------------------------- MODULE JsonGrammar ----------------------------
(***************************************************************************)
(* What the tokener of JsonTokener.tla should return: the value that a     *)
(* text s begins with, told by the text alone, and the value that a node   *)
(* of the memory h stands for, told by the nodes alone.                    *)
(*                                                                         *)
(* A value is <<"leaf", unit>>, <<"null">>, <<"array", list of values>> or *)
(* <<"object", list of fields>>, a field <<name, value>>.                  *)
(***************************************************************************)
EXTENDS JsonTokener

(* The units of a text, its end included, without the ends of lines.       *)
Positions(s) == 1 .. Len(s) + 1

At(s, i) == IF i > Len(s) THEN "nul" ELSE s[i]

From(s, i) == CHOOSE j \in i .. Len(s) + 1 :
                At(s, j) # "nl" /\ \A k \in i .. j - 1 : At(s, k) = "nl"

Behind(s, i) == From(s, i + 1)

(* What may begin at a position is told by a function: v is what does, and *)
(* next the position behind it.                                            *)
NoValue == [v |-> << >>, next |-> 0]

Nothing(s) == [i \in Positions(s) |-> NoValue]
-----------------------------------------------------------------------------
(* The elements of an array or an object, if V are the values.             *)
Open(type) == IF type = "array" THEN "[" ELSE "{"
Close(type) == IF type = "array" THEN "]" ELSE "}"
Comma == ","
Colon == ":"

FieldAt(s, V, i) ==
  LET x == V[Behind(s, Behind(s, i))]
  IN  IF At(s, i) \in Key /\ At(s, Behind(s, i)) = Colon /\ x # NoValue
      THEN [v |-> <<At(s, i), x.v>>, next |-> x.next]
      ELSE NoValue

Elements(s, type, V) ==
  IF type = "array" THEN V ELSE [i \in Positions(s) |-> FieldAt(s, V, i)]

(* Of the fields of one name the last one counts.                          *)
Without(list, key) ==
  LET I == {i \in DOMAIN list : list[i][1] = key}
  IN  IF I = {} THEN list ELSE RemoveAt(list, CHOOSE i \in I : TRUE)

WithElement(type, list, x) ==
  Append(IF type = "array" THEN list ELSE Without(list, x[1]), x)

(* A list b with one element of E more; a comma or the closing bracket has *)
(* to follow, or both.                                                     *)
Longer(s, type, E, b) ==
  LET x    == E[b.next]
      list == WithElement(type, b.v, x.v)
  IN  IF b = NoValue \/ x = NoValue THEN NoValue
      ELSE CASE At(s, x.next) = Comma       ->
                  [v |-> list, next |-> Behind(s, x.next)]
             [] At(s, x.next) = Close(type) -> [v |-> list, next |-> x.next]
             [] OTHER                       -> NoValue

(* The lists of 0, 1, 2 ... elements from i on.                            *)
Lists(s, type, E, i) ==
  LET L[n \in 0 .. Len(s)] ==
        IF n = 0 THEN [v |-> << >>, next |-> i]
                 ELSE Longer(s, type, E, L[n - 1])
  IN  L

Enclosed(s, type, V, i) ==
  LET L == Lists(s, type, Elements(s, type, V), Behind(s, i))
      N == {n \in 0 .. Len(s) : /\ L[n] # NoValue
                                /\ At(s, L[n].next) = Close(type)}
      b == L[CHOOSE n \in N : TRUE]
  IN  IF N = {} THEN NoValue
      ELSE [v |-> <<type, b.v>>, next |-> Behind(s, b.next)]

(* The values with the values V inside, and those of at most h levels.     *)
ValueAt(s, V, i) ==
  CASE At(s, i) = Open("array")   -> Enclosed(s, "array", V, i)
    [] At(s, i) = Open("object")  -> Enclosed(s, "object", V, i)
    [] At(s, i) \in Atom \cup Key -> [v    |-> <<"leaf", At(s, i)>>,
                                      next |-> Behind(s, i)]
    [] At(s, i) = "null"          -> [v |-> <<"null">>, next |-> Behind(s, i)]
    [] OTHER                      -> NoValue

Nested(s) ==
  LET V[h \in 0 .. MaxDepth] ==
        IF h = 0 THEN Nothing(s)
                 ELSE [i \in Positions(s) |-> ValueAt(s, V[h - 1], i)]
  IN  V

FirstValue(s) == Nested(s)[MaxDepth][From(s, 1)]
-----------------------------------------------------------------------------
(* The value of the node n, if those of the others are M, and of all.      *)
Told(h, M, n) ==
  CASE h[n].type = "leaf"  -> <<"leaf", h[n].val>>
    [] h[n].type = "array" ->
         <<"array", [i \in DOMAIN h[n].val |-> M[h[n].val[i]]]>>
    [] OTHER ->
         LET f == Fields(h[n].val)
         IN  <<"object", [i \in DOMAIN f |-> <<f[i].k, M[f[i].v]>>]>>

Meaning(h) ==
  LET M[n \in 0 .. Len(h)] == IF n = Null THEN <<"null">> ELSE Told(h, M, n)
  IN  M

(* The result is the first value of the text: a text cut anywhere, or one  *)
(* with a wrong mark anywhere in the first value, gives no value, and what *)
(* comes behind the first value does not matter.  For texts without        *)
(* comments: an unfinished comment ends the text in good order, and behind *)
(* a value inside another the tokener then returns the inner one.          *)
NoComment == "slash" \notin ToSet(text)

ResultIsTheFirstValue ==
  phase = "done" /\ NoComment =>
    LET x == FirstValue(text)
    IN  IF x = NoValue THEN err # "success" /\ ret = Null
                       ELSE err = "success" /\ Meaning(heap)[ret] = x.v
=============================================================================
