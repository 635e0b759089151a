----------------------------- MODULE JsonTokener -----------------------------
(***************************************************************************)
(* json_tokener_parse of the bundled json-c (json/src/json_tokener.c) and  *)
(* the objects it builds (json_object.c, linkhash.c, arraylist.c): what an *)
(* API function does with the text it received.                            *)
(*                                                                         *)
(* The text is a sequence of lexical units, each of which stands for the   *)
(* characters that the states null, boolean, number, string, ... of the    *)
(* tokener take one by one: a bracket, comma or colon; a number or literal *)
(* (Atom), "null"; a quoted string (Key), a quoted string without an end   *)
(* ("open"), characters that begin no value ("word"); "slash" and "star"   *)
(* for comments, "nl" for the end of a line.  "nul" is the terminator.     *)
(*                                                                         *)
(* The memory is a sequence of nodes, Null is no node.  That there is      *)
(* enough of it is assumed: json_object_new's callers never ask.           *)
(***************************************************************************)
EXTENDS Linkhash

CONSTANTS
  Atom,         \* numbers, true and false
  MaxDepth,     \* JSON_TOKENER_MAX_DEPTH: 32
  Texts         \* the texts to parse

Mark == {"{", "}", "[", "]", ",", ":", "null", "open", "word",
         "slash", "star", "nl"}

Char == Mark \cup Atom \cup Key

(* What a unit is shows in its first characters.                           *)
ASSUME TokenerAssumption ==
  /\ MaxDepth \in Nat \ {0}
  /\ Texts \subseteq Seq(Char)
  /\ (Mark \cup {"nul"}) \cap (Atom \cup Key) = {}

Null == 0

VARIABLES
  text, pos,    \* the text and where the tokener is in it
  stack,        \* tok->stack[0 .. tok->depth]
  obj,          \* the value that is on its way from a level to the one below
  heap,         \* every node that was ever made
  err,          \* tok->err
  ret,          \* what json_tokener_parse returns, Null if err says why not
  phase         \* "parse", "out" (behind the loop), "done"

vars == <<text, pos, stack, obj, heap, err, ret, phase>>

States == {"eatws", "start", "finish", "comment_start", "comment",
           "comment_eol", "comment_end", "array", "array_add", "array_sep",
           "object_field_start", "object_field_end", "object_value",
           "object_value_add", "object_sep"}

Errors == {"success", "depth", "eof", "unexpected", "array", "key_name",
           "key_sep", "value_sep", "comment"}

c == IF pos > Len(text) THEN "nul" ELSE text[pos]
top == stack[Len(stack)]
depth == Len(stack) - 1

NewLevel == [state |-> "eatws", saved |-> "start", current |-> Null,
             name |-> "none"]

Init ==
  /\ text \in Texts /\ pos = 1
  /\ stack = <<NewLevel>> /\ obj = Null /\ heap = << >>
  /\ err = "success" /\ ret = Null /\ phase = "parse"
-----------------------------------------------------------------------------
(* Nodes: [type, val, refs]; refs 0 is freed memory.                       *)
Node(type, val) == [type |-> type, val |-> val, refs |-> 1]

Children(node) ==
  CASE node.type = "array"  -> node.val
    [] node.type = "object" -> [n \in ToSet(node.val.order) |->
                                  node.val.slot[n].v]
    [] OTHER                -> << >>

(* json_object_get and json_object_put, the latter for a list of nodes:    *)
(* whoever loses the last reference is freed and puts its children.        *)
Get(h, n) == IF n = Null THEN h ELSE [h EXCEPT ![n].refs = @ + 1]

Places(f, n) == {i \in DOMAIN f : f[i] = n}

(* n's references that are given up when those in work are and the nodes   *)
(* of F are freed.                                                         *)
Lost(h, work, F, n) ==
  Cardinality(Places(work, n))
  + Cardinality(UNION {{m} \X Places(Children(h[m]), n) : m \in F})

Freed(h, work) ==
  LET F[i \in 0 .. Len(h)] ==
        IF i = 0 THEN {}
        ELSE {n \in DOMAIN h : h[n].refs \in 1 .. Lost(h, work, F[i - 1], n)}
  IN  F[Len(h)]

Puts(h, work) ==
  LET F == Freed(h, work)
  IN  [n \in DOMAIN h |-> [h[n] EXCEPT !.refs = @ - Lost(h, work, F, n)]]

Put(h, n) == Puts(h, <<n>>)

(* Variant: the field that was there first stays.                          *)
ObjectAddOnly(h, o, key, v) ==
  [h EXCEPT ![o].val = IF Has(@, key) THEN @ ELSE Insert(@, key, v)]

(* json_object_object_add with the memory: the value that the key had is   *)
(* put.                                                                    *)
ObjectAddTo(h, o, key, v) ==
  LET old == ObjectGet(h[o].val, key)
  IN  [Puts(h, old) EXCEPT ![o].val = ObjectAdd(@, key, v)]
-----------------------------------------------------------------------------
(* What an iteration of the loop does with the level on top, ...           *)
Level(l) == stack' = [stack EXCEPT ![Len(stack)] = l]

To(state) == Level([top EXCEPT !.state = state])

SpaceThen(state) == Level([top EXCEPT !.state = "eatws", !.saved = state])

Value(n) == Level([top EXCEPT !.state = "eatws", !.saved = "finish",
                              !.current = n])

(* ... and how it ends: with the next character (the terminator is the     *)
(* last), with the same one again (redo_char) or with an error.            *)
Break ==
  IF c # "nul"
  THEN pos' = pos + 1 /\ UNCHANGED <<err, phase>>
  ELSE /\ err' = IF stack'[Len(stack')].saved = "finish" THEN err ELSE "eof"
       /\ phase' = "out"
       /\ UNCHANGED pos

Redo == UNCHANGED <<pos, err, phase>>

Fail(e) == err' = e /\ phase' = "out" /\ UNCHANGED <<pos, stack>>

In(state) == phase = "parse" /\ top.state = state

Same == UNCHANGED <<text, obj, heap, ret>>
-----------------------------------------------------------------------------
Eatws ==
  /\ In("eatws")
  /\ CASE c = "nl"    -> Break /\ UNCHANGED stack
       [] c = "slash" -> To("comment_start") /\ Break
       [] OTHER       -> To(top.saved) /\ Redo
  /\ Same

Comment ==
  /\ \/ /\ In("comment_start")
        /\ CASE c = "star"  -> To("comment") /\ Break
             [] c = "slash" -> To("comment_eol") /\ Break
             [] OTHER       -> Fail("comment")
     \/ /\ In("comment")
        /\ To(IF c = "star" THEN "comment_end" ELSE "comment") /\ Break
     \/ /\ In("comment_end")
        /\ To(IF c = "slash" THEN "eatws" ELSE "comment") /\ Break
     \/ /\ In("comment_eol")
        /\ To(IF c = "nl" THEN "eatws" ELSE "comment_eol") /\ Break
  /\ Same

(* A value begins: an object or array, or all of anything else.            *)
NewNode(node) == heap' = Append(heap, node)
NewId == Len(heap) + 1

Start ==
  /\ In("start")
  /\ \/ /\ c \in {"{", "["}
        /\ NewNode(IF c = "{" THEN Node("object", NewTable(DefEntries))
                              ELSE Node("array", << >>))
        /\ Level([top EXCEPT !.state = "eatws",
                             !.saved = IF c = "{" THEN "object_field_start"
                                                  ELSE "array",
                             !.current = NewId])
        /\ Break
     \/ /\ c \in Atom \cup Key
        /\ NewNode(Node("leaf", c))
        /\ Value(NewId) /\ Break
     \/ /\ c = "null"
        /\ Value(Null) /\ Break
        /\ UNCHANGED heap
     \/ /\ c \notin {"{", "[", "null"} \cup Atom \cup Key
        /\ Fail(IF c = "open" THEN "eof" ELSE "unexpected")
        /\ UNCHANGED heap
  /\ UNCHANGED <<text, obj, ret>>

(* A value is complete: out of the loop, or to the level below, which      *)
(* takes over the reference.                                               *)
(* Variant: without the reference for the way.                             *)
FinishLent ==
  /\ In("finish")
  /\ IF depth = 0
     THEN phase' = "out" /\ UNCHANGED <<stack, obj, heap>>
     ELSE /\ obj' = top.current
          /\ heap' = Put(heap, top.current)
          /\ stack' = Front(stack)
          /\ UNCHANGED phase
  /\ UNCHANGED <<text, pos, err, ret>>

(* Variant: the level stays.                                               *)
FinishInPlace ==
  /\ In("finish")
  /\ IF depth = 0
     THEN phase' = "out" /\ UNCHANGED <<stack, obj, heap>>
     ELSE /\ obj' = top.current
          /\ UNCHANGED <<heap, stack, phase>>
  /\ UNCHANGED <<text, pos, err, ret>>

Finish ==
  /\ In("finish")
  /\ IF depth = 0
     THEN phase' = "out" /\ UNCHANGED <<stack, obj, heap>>
     ELSE /\ obj' = top.current
          /\ heap' = Put(Get(heap, top.current), top.current)
          /\ stack' = Front(stack)
          /\ UNCHANGED phase
  /\ UNCHANGED <<text, pos, err, ret>>

(* Variant: one level more than the stack has.                             *)
TooDeepLate == depth >= MaxDepth

TooDeep == depth >= MaxDepth - 1

Deeper(state) ==
  IF TooDeep
  THEN Fail("depth")
  ELSE /\ stack' = Append([stack EXCEPT ![Len(stack)].state = state], NewLevel)
       /\ Redo

Array ==
  /\ \/ /\ In("array")
        /\ IF c = "]" THEN SpaceThen("finish") /\ Break ELSE Deeper("array_add")
        /\ UNCHANGED heap
     \/ /\ In("array_add")
        /\ heap' = [heap EXCEPT ![top.current].val = Append(@, obj)]
        /\ SpaceThen("array_sep") /\ Redo
     \/ /\ In("array_sep")
        /\ CASE c = "]" -> SpaceThen("finish") /\ Break
             [] c = "," -> SpaceThen("array") /\ Break
             [] OTHER   -> Fail("array")
        /\ UNCHANGED heap
  /\ UNCHANGED <<text, obj, ret>>

(* The name of a field (the state object_field takes it character by       *)
(* character), the colon, the value, the comma.                            *)
Object ==
  /\ \/ /\ In("object_field_start")
        /\ CASE c = "}"    -> SpaceThen("finish") /\ Break
             [] c \in Key  -> /\ Level([top EXCEPT !.state = "eatws",
                                                   !.saved = "object_field_end",
                                                   !.name = c])
                              /\ Break
             [] c = "open" -> Fail("eof")
             [] OTHER      -> Fail("key_name")
        /\ UNCHANGED heap
     \/ /\ In("object_field_end")
        /\ IF c = ":" THEN SpaceThen("object_value") /\ Break
                      ELSE Fail("key_sep")
        /\ UNCHANGED heap
     \/ /\ In("object_value")
        /\ Deeper("object_value_add")
        /\ UNCHANGED heap
     \/ /\ In("object_value_add")
        /\ heap' = ObjectAddTo(heap, top.current, top.name, obj)
        /\ Level([top EXCEPT !.state = "eatws", !.saved = "object_sep",
                             !.name = "none"])
        /\ Redo
     \/ /\ In("object_sep")
        /\ CASE c = "}" -> SpaceThen("finish") /\ Break
             [] c = "," -> SpaceThen("object_field_start") /\ Break
             [] OTHER   -> Fail("value_sep")
        /\ UNCHANGED heap
  /\ UNCHANGED <<text, obj, ret>>

(* out: the caller's reference to the current value, or none; then         *)
(* json_tokener_free puts what every level holds, the top one first.       *)
Return ==
  /\ phase = "out"
  /\ ret' = IF err = "success" THEN top.current ELSE Null
  /\ heap' = Puts(Get(heap, ret'), [i \in DOMAIN stack |->
                                       Reverse(stack)[i].current])
  /\ stack' = << >>
  /\ phase' = "done"
  /\ UNCHANGED <<text, pos, obj, err>>

Next == Eatws \/ Comment \/ Start \/ Finish \/ Array \/ Object \/ Return

(* The parser runs alone until it returns.                                 *)
Spec == Init /\ [][Next]_vars /\ WF_vars(Next)
-----------------------------------------------------------------------------
TypeOK ==
  /\ text \in Texts /\ pos \in 1 .. Len(text) + 1
  /\ Len(stack) <= MaxDepth
  /\ \A i \in DOMAIN stack :
       /\ stack[i].state \in States /\ stack[i].saved \in States
       /\ stack[i].current \in 0 .. Len(heap)
       /\ stack[i].name \in Key \cup {"none"}
  /\ obj \in 0 .. Len(heap) /\ ret \in 0 .. Len(heap)
  /\ \A n \in DOMAIN heap : /\ heap[n].type \in {"leaf", "array", "object"}
                            /\ heap[n].refs \in Nat
  /\ err \in Errors /\ phase \in {"parse", "out", "done"}

(* The reference counts are the references: a node that is owned is never  *)
(* freed and a node that nobody owns never stays.  In the end the caller   *)
(* has the one reference to what it got, and everything in memory is that  *)
(* or inside of something made before it; with no result, that is nothing, *)
(* wherever the text stopped being JSON.                                   *)
Live == {n \in DOMAIN heap : heap[n].refs > 0}

OnItsWay == phase = "parse" /\ top.state \in {"array_add", "object_value_add"}

RefsAreOwners ==
  /\ \A n \in DOMAIN heap :
       heap[n].refs =
         Cardinality({i \in DOMAIN stack : stack[i].current = n})
         + Cardinality(UNION {{m} \X Places(Children(heap[m]), n) : m \in Live})
         + (IF OnItsWay /\ obj = n THEN 1 ELSE 0)
         + (IF ret = n THEN 1 ELSE 0)
  /\ phase = "done" =>
       \A n \in Live \ {ret} :
         \E m \in Live : m < n /\ Places(Children(heap[m]), n) # {}

(* Whatever fields an object has been given, how often and in which order, *)
(* asking for any name ends, there is no freed slot in the way, and the    *)
(* list has every field once.                                              *)
Searchable(t) ==
  /\ \A key \in Key : LookupEnds(t, key)
  /\ \A n \in DOMAIN t.slot : t.slot[n] # FREED
  /\ ToSet(t.order) = {n \in DOMAIN t.slot : IsEntry(t, n)}
  /\ \A n \in ToSet(t.order) : LookupSlot(t, t.slot[n].k) = n
  /\ IsInjective(t.order)

TablesAreSearchable ==
  \A n \in Live : heap[n].type = "object" => Searchable(heap[n].val)

(* The redo of a character never goes round in a circle.                   *)
ParseReturns == <>(phase = "done")
=============================================================================
