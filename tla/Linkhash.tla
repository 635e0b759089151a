------------------------------ MODULE Linkhash ------------------------------
(***************************************************************************)
(* The hash table of the bundled json-c (json/src/linkhash.c), with linear *)
(* probing, markers for freed slots and a list through the entries in the  *)
(* order of their insertion; and how an object uses it                     *)
(* (json/src/json_object.c).  Operators only.                              *)
(*                                                                         *)
(* A table is [size, slot, order]: order lists the slots from t->head to   *)
(* t->tail, so its length is t->count.                                     *)
(***************************************************************************)
EXTENDS Integers, SequencesExt

CONSTANTS
  Key,            \* the field names
  Hash,           \* lh_char_hash: Key -> Nat
  EMPTY, FREED,   \* LH_EMPTY and LH_FREED
  DefEntries      \* JSON_OBJECT_DEF_HASH_ENTIRES: 16

Entry == [k : Key, v : Nat]     \* struct lh_entry; a value is a node's place

(* A table of two slots would be filled before it grows.                   *)
ASSUME LinkhashAssumption ==
  /\ Hash \in [Key -> Nat]
  /\ DefEntries \in Nat \ (0 .. 2)
  /\ EMPTY # FREED /\ EMPTY \notin Entry /\ FREED \notin Entry

NewTable(size) ==
  [size |-> size, slot |-> [n \in 0 .. size - 1 |-> EMPTY], order |-> << >>]

IsEntry(t, n) == t.slot[n] \notin {EMPTY, FREED}

(* The i-th slot that a search for key looks at, and the first of them     *)
(* among the slots of a set.                                               *)
Probe(t, key, i) == (Hash[key] + i) % t.size

FirstProbe(t, key, S) ==
  LET i == CHOOSE i \in 0 .. t.size - 1 :
             /\ Probe(t, key, i) \in S
             /\ \A j \in 0 .. i - 1 : Probe(t, key, j) \notin S
  IN  Probe(t, key, i)

(* lh_table_lookup_entry ends at the key or at an empty slot, and with     *)
(* neither in the table not at all.                                        *)
LookupStops(t, key) ==
  {n \in DOMAIN t.slot : \/ t.slot[n] = EMPTY
                         \/ IsEntry(t, n) /\ t.slot[n].k = key}

LookupEnds(t, key) == LookupStops(t, key) # {}

LookupSlot(t, key) == FirstProbe(t, key, LookupStops(t, key))

Has(t, key) == t.slot[LookupSlot(t, key)] # EMPTY

(* lh_table_delete: the slot is marked, the entry leaves the list.         *)
Delete(t, key) ==
  LET n == LookupSlot(t, key)
      i == CHOOSE i \in DOMAIN t.order : t.order[i] = n
  IN  IF Has(t, key)
      THEN [t EXCEPT !.slot[n] = FREED, !.order = RemoveAt(@, i)]
      ELSE t

(* The loop of lh_table_insert: the first slot without an entry; the entry *)
(* goes to the end of the list.                                            *)
Place(t, key, v) ==
  LET n == FirstProbe(t, key, {m \in DOMAIN t.slot : ~IsEntry(t, m)})
  IN  [t EXCEPT !.slot[n] = [k |-> key, v |-> v], !.order = Append(@, n)]

(* lh_table_resize inserts the entries in the order of the list.           *)
Resize(t, size) ==
  LET new[i \in 0 .. Len(t.order)] ==
        IF i = 0 THEN NewTable(size)
        ELSE LET e == t.slot[t.order[i]] IN Place(new[i - 1], e.k, e.v)
  IN  new[Len(t.order)]

(* Variant: a table grows when it is full.                                 *)
CrowdedWhenFull(t) == Len(t.order) > t.size

(* t->count > t->size * 0.66                                               *)
Crowded(t) == 100 * Len(t.order) > 66 * t.size

Insert(t, key, v) ==
  Place(IF Crowded(t) THEN Resize(t, 2 * t.size) ELSE t, key, v)

(* json_object_object_add and json_object_object_get.                      *)
ObjectAdd(t, key, v) == Insert(Delete(t, key), key, v)

ObjectGet(t, key) ==
  IF Has(t, key) THEN <<t.slot[LookupSlot(t, key)].v>> ELSE << >>

(* The fields in the order of the list.                                    *)
Fields(t) == [i \in DOMAIN t.order |-> t.slot[t.order[i]]]
=============================================================================
