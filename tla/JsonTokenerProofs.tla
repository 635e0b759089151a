
------------------------- MODULE JsonTokenerProofs -------------------------
(***************************************************************************)
(* Proofs about JsonTokener and its tables (Linkhash.tla) for any texts,   *)
(* any depth, any names and any hash function.                             *)
(*                                                                         *)
(* First the tables: a table can be searched as long as it has an empty    *)
(* slot, no freed one and its list has every entry once (Good), and        *)
(* json_object_object_add keeps that.  Then the memory: whoever gives      *)
(* references up leaves the counts right (Balanced), whatever is freed.    *)
(* Then the tokener: its invariant IInv, action by action, and that a      *)
(* value is younger than what it is put into and that a level alone refers *)
(* to what it has (OrderInv), so that nothing holds itself in memory.      *)
(*                                                                         *)
(* Last the result.  The grammar of JsonGrammar.tla: what bounds a value,  *)
(* how a list goes on and where there is none.  The nodes: a node that     *)
(* gains an element means the list with one element more.  The tokener:    *)
(* every level stands at a place of the grammar, and what its node means   *)
(* is what has been read of it so far (ReadsInv).                          *)
(***************************************************************************)
EXTENDS JsonGrammar, FiniteSetTheorems, WellFoundedInduction, TLAPS
-----------------------------------------------------------------------------
(* Every set of numbers has a least one ...                                *)
LEMMA Least ==
  ASSUME NEW S \in SUBSET Nat, S # {}
  PROVE  \E m \in S : \A n \in S : m <= n
<1> DEFINE R == OpToRel(<, Nat)
<1>1. IsWellFoundedOn(R, Nat)  BY NatLessThanWellFounded
<1>2. \A x, y \in Nat : x < y => <<x, y>> \in R  BY DEF OpToRel
<1> HIDE DEF R
<1>3. PICK m \in S : \A y \in S : ~(<<y, m>> \in R)  BY <1>1, WFMin
<1>4. \A n \in S : ~(n < m)  BY <1>2, <1>3
<1> QED BY <1>3, <1>4

(* ... so that a set is all numbers if it has 0 and every next number.     *)
LEMMA SetInduction ==
  ASSUME NEW S, 0 \in S, \A n \in Nat : n \in S => n + 1 \in S
  PROVE  Nat \subseteq S
<1> DEFINE T == Nat \ S
<1>1. ASSUME T # {} PROVE FALSE
  <2>1. PICK m \in T : \A n \in T : m <= n  BY <1>1, Least
  <2>2. m # 0 /\ m - 1 \in Nat /\ m - 1 \notin T  BY <2>1
  <2> QED BY <2>1, <2>2
<1> QED BY <1>1

(* f begins with a, and F makes each of the m next values from the one     *)
(* before.                                                                 *)
Follows(f, a, F, m) ==
  f[0] = a /\ \A n \in 1 .. m : f[n] = F[<<n, f[n - 1]>>]

(* Such a function can be told its next value.                             *)
LEMMA RecursionStep ==
  ASSUME NEW S, NEW N \in Nat, NEW a \in S, NEW F \in [(1 .. N) \X S -> S],
         NEW m \in Nat, m + 1 <= N,
         NEW f \in [0 .. m -> S],
         Follows(f, a, F, m)
  PROVE  \E g \in [0 .. m + 1 -> S] : Follows(g, a, F, m + 1)
<1> USE DEF Follows
<1>1. PICK v \in S : v = F[<<m + 1, f[m]>>]
  <2>1. m + 1 \in 1 .. N /\ f[m] \in S  OBVIOUS
  <2>2. <<m + 1, f[m]>> \in (1 .. N) \X S  BY <2>1
  <2>3. F[<<m + 1, f[m]>>] \in S  BY <2>2
  <2> QED BY <2>3
<1>2. PICK g \in [0 .. m + 1 -> S] :
             g[m + 1] = v /\ \A n \in 0 .. m : g[n] = f[n]
  <2> DEFINE g == [n \in 0 .. m + 1 |-> IF n = m + 1 THEN v ELSE f[n]]
  <2>1. \A n \in 0 .. m + 1 : n # m + 1 => n \in 0 .. m  OBVIOUS
  <2>2. m + 1 \in 0 .. m + 1 /\ \A n \in 0 .. m : n \in 0 .. m + 1 /\ n # m + 1
    OBVIOUS
  <2>3. g \in [0 .. m + 1 -> S]  BY <2>1
  <2>4. g[m + 1] = v /\ \A n \in 0 .. m : g[n] = f[n]  BY <2>2
  <2> QED BY <2>3, <2>4
<1>3. ASSUME NEW n \in 1 .. m + 1 PROVE g[n] = F[<<n, g[n - 1]>>]
  <2>1. n - 1 \in 0 .. m  OBVIOUS
  <2>2. g[n - 1] = f[n - 1]  BY <1>2, <2>1
  <2>3. CASE n = m + 1
    <3>1. n - 1 = m  BY <2>3
    <3> QED BY <1>1, <1>2, <2>2, <2>3, <3>1
  <2>4. CASE n # m + 1
    <3>1. n \in 1 .. m /\ n \in 0 .. m  BY <2>4
    <3> QED BY <1>2, <2>2, <3>1
  <2> QED BY <2>3, <2>4
<1>4. 0 \in 0 .. m  OBVIOUS
<1> QED BY <1>2, <1>3, <1>4

(* A function may be defined by what its first value is and how each value *)
(* follows from the one before.                                            *)
LEMMA RecursionExists ==
  ASSUME NEW S, NEW N \in Nat, NEW a \in S, NEW F \in [(1 .. N) \X S -> S]
  PROVE  \E f \in [0 .. N -> S] : Follows(f, a, F, N)
<1> DEFINE Upto(m) == \E f \in [0 .. m -> S] : Follows(f, a, F, m)
           T == {m \in Nat : m <= N => Upto(m)}
<1>1. Upto(0)
  <2> DEFINE g == [n \in 0 .. 0 |-> a]
  <2>1. g \in [0 .. 0 -> S] /\ g[0] = a /\ \A n \in 1 .. 0 : FALSE  OBVIOUS
  <2> HIDE DEF g
  <2> QED BY <2>1 DEF Follows
<1>2. ASSUME NEW m \in Nat, m + 1 <= N, Upto(m) PROVE Upto(m + 1)
  <2>1. PICK f \in [0 .. m -> S] : Follows(f, a, F, m)  BY <1>2
  <2> QED BY <1>2, <2>1, RecursionStep
<1> HIDE DEF Upto
<1>3. 0 \in T  BY <1>1
<1>4. ASSUME NEW m \in Nat, m \in T PROVE m + 1 \in T  BY <1>2, <1>4
<1>5. N \in T
  <2> HIDE DEF T
  <2> QED BY <1>3, <1>4, SetInduction
<1> QED BY <1>5 DEF Upto
-----------------------------------------------------------------------------
(* The tables of json-c between two operations on them.                    *)
Slots(size) == 0 .. size - 1

Tables(size) == [size  : {size},
                 slot  : [Slots(size) -> Entry \cup {EMPTY, FREED}],
                 order : Seq(Slots(size))]

Table == UNION {Tables(size) : size \in Nat \ (0 .. 2)}

Good(t) == t \in Table /\ Searchable(t) /\ Len(t.order) < t.size

(* What a table is made of.                                                *)
LEMMA TableFacts ==
  ASSUME NEW t \in Table
  PROVE  /\ t = [size |-> t.size, slot |-> t.slot, order |-> t.order]
         /\ t.size \in Nat /\ t.size >= 3
         /\ t.slot \in [0 .. t.size - 1 -> Entry \cup {EMPTY, FREED}]
         /\ DOMAIN t.slot = 0 .. t.size - 1
         /\ t.order \in Seq(0 .. t.size - 1)
         /\ Len(t.order) \in Nat /\ DOMAIN t.order = 1 .. Len(t.order)
         /\ \A n \in 0 .. t.size - 1 : IsEntry(t, n) <=> t.slot[n] \in Entry
<1>1. PICK size \in Nat \ (0 .. 2) : t \in Tables(size)  BY DEF Table
<1>2. /\ t.size = size /\ size >= 3
      /\ t = [size |-> t.size, slot |-> t.slot, order |-> t.order]
      /\ t.slot \in [0 .. size - 1 -> Entry \cup {EMPTY, FREED}]
      /\ t.order \in Seq(0 .. size - 1)
  BY <1>1 DEF Tables, Slots
<1>3. \A n \in 0 .. t.size - 1 : IsEntry(t, n) <=> t.slot[n] \in Entry
  <2>1. \A n \in 0 .. t.size - 1 : t.slot[n] \in Entry \cup {EMPTY, FREED}
    BY <1>2
  <2> QED BY <2>1, LinkhashAssumption DEF IsEntry
<1> QED BY <1>1, <1>2, <1>3

(* And the other way round.                                                *)
LEMMA MakesTable ==
  ASSUME NEW size \in Nat, size >= 3,
         NEW slot \in [0 .. size - 1 -> Entry \cup {EMPTY, FREED}],
         NEW order \in Seq(0 .. size - 1)
  PROVE  [size |-> size, slot |-> slot, order |-> order] \in Table
<1>1. size \in Nat \ (0 .. 2)  OBVIOUS
<1>2. [size |-> size, slot |-> slot, order |-> order] \in Tables(size)
  BY DEF Tables, Slots
<1> QED BY <1>1, <1>2 DEF Table

(* ... and in the end at every one.                                        *)
LEMMA Remainder ==
  ASSUME NEW h \in Nat, NEW s \in Nat \ {0}, NEW n \in 0 .. s - 1
  PROVE  \E i \in 0 .. s - 1 : (h + i) % s = n
<1> DEFINE q == h \div s
           r == h % s
<1>1. /\ h = s * q + r /\ q \in Int /\ r \in 0 .. s - 1  OBVIOUS
<1> HIDE DEF q, r
<1> DEFINE i == IF r <= n THEN n - r ELSE (n - r) + s
           p == IF r <= n THEN q ELSE q + 1
           g == h + i
           a == g % s
           b == g \div s
<1>2. i \in 0 .. s - 1 /\ g \in Nat  BY <1>1
<1>3. g = s * p + n /\ p \in Int
  <2>1. CASE r <= n  BY <1>1, <2>1
  <2>2. CASE ~(r <= n)
    <3>1. s * (q + 1) = s * q + s  BY <1>1
    <3> QED BY <1>1, <2>2, <3>1
  <2> QED BY <2>1, <2>2
<1>4. g = s * b + a /\ b \in Int /\ a \in 0 .. s - 1
  <2> HIDE DEF g
  <2> QED BY <1>2
<1>5. a = n
  <2> HIDE DEF g, a, b, p, i
  <2>1. s * (b - p) = n - a /\ b - p \in Int
    <3>1. s * (b - p) = s * b - s * p  BY <1>3, <1>4
    <3> QED BY <1>3, <1>4, <3>1
  <2>2. n - a > -s /\ n - a < s  BY <1>4
  <2>3. b - p = 0
    <3> DEFINE d == b - p
    <3>1. d \in Int /\ s * d > -s /\ s * d < s  BY <2>1, <2>2
    <3> HIDE DEF d
    <3>2. ~(d >= 1)  BY <3>1
    <3>3. ~(d <= -1)  BY <3>1
    <3> QED BY <3>1, <3>2, <3>3 DEF d
  <2> QED BY <1>4, <2>1, <2>3
<1> QED BY <1>2, <1>5

(* The slots that a search for key looks at.                               *)
LEMMA ProbeReaches ==
  ASSUME NEW t \in Table, NEW key \in Key, NEW n \in 0 .. t.size - 1
  PROVE  \E i \in 0 .. t.size - 1 : Probe(t, key, i) = n
<1>1. Hash[key] \in Nat /\ t.size \in Nat \ {0}
  BY TableFacts, LinkhashAssumption
<1> QED BY <1>1, Remainder DEF Probe

(* The i-th slot of the search is the first that is in S.                  *)
FirstAt(t, key, S, i) ==
  /\ i \in 0 .. t.size - 1
  /\ Probe(t, key, i) \in S
  /\ \A j \in 0 .. i - 1 : Probe(t, key, j) \notin S

(* There is only one, ...                                                  *)
LEMMA FirstIs ==
  ASSUME NEW t \in Table, NEW key \in Key, NEW S, NEW i, FirstAt(t, key, S, i)
  PROVE  FirstProbe(t, key, S) = Probe(t, key, i)
<1>1. t.size \in Nat  BY TableFacts
<1> DEFINE P(j) == /\ Probe(t, key, j) \in S
                   /\ \A l \in 0 .. j - 1 : Probe(t, key, l) \notin S
           i0 == CHOOSE j \in 0 .. t.size - 1 : P(j)
<1>2. i \in 0 .. t.size - 1 /\ P(i)  BY DEF FirstAt
<1>3. i0 \in 0 .. t.size - 1 /\ P(i0)
  <2> HIDE DEF P
  <2> QED BY <1>2
<1>4. i0 = i
  <2> HIDE DEF i0
  <2>1. ~(i0 < i)
    <3>1. i0 < i => i0 \in 0 .. i - 1  BY <1>1, <1>2, <1>3
    <3> QED BY <1>2, <1>3, <3>1
  <2>2. ~(i < i0)
    <3>1. i < i0 => i \in 0 .. i0 - 1  BY <1>1, <1>2, <1>3
    <3> QED BY <1>2, <1>3, <3>1
  <2> QED BY <1>1, <1>2, <1>3, <2>1, <2>2
<1>5. FirstProbe(t, key, S) = Probe(t, key, i0)  BY DEF FirstProbe
<1> QED BY <1>4, <1>5

(* ... and there is one if S has a slot.                                   *)
LEMMA FirstExists ==
  ASSUME NEW t \in Table, NEW key \in Key, NEW S, NEW n \in S,
         n \in 0 .. t.size - 1
  PROVE  \E i : FirstAt(t, key, S, i)
<1> DEFINE T == {i \in 0 .. t.size - 1 : Probe(t, key, i) \in S}
<1>1. t.size \in Nat  BY TableFacts
<1>2. T # {} /\ T \subseteq Nat  BY <1>1, ProbeReaches
<1>3. PICK m \in T : \A i \in T : m <= i  BY <1>2, Least
<1>4. ASSUME NEW j \in 0 .. m - 1 PROVE Probe(t, key, j) \notin S
  <2>1. j \in 0 .. t.size - 1 /\ ~(m <= j)  BY <1>1, <1>3
  <2> QED BY <1>3, <2>1
<1> QED BY <1>3, <1>4 DEF FirstAt
-----------------------------------------------------------------------------
(* The slots without an entry, of which there is one while the list is     *)
(* shorter than the table.                                                 *)
Vacant(t) == {m \in DOMAIN t.slot : ~IsEntry(t, m)}

(* The numbers up to n.                                                    *)
LEMMA CountUpTo ==
  ASSUME NEW n \in Nat
  PROVE  /\ IsFiniteSet(1 .. n) /\ Cardinality(1 .. n) = n
         /\ IsFiniteSet(0 .. n - 1) /\ Cardinality(0 .. n - 1) = n
<1>1. /\ IsFiniteSet(1 .. n)
      /\ Cardinality(1 .. n) = IF 1 > n THEN 0 ELSE n - 1 + 1
  <2>1. 1 \in Int /\ n \in Int  OBVIOUS
  <2> QED BY <2>1, FS_Interval
<1>2. /\ IsFiniteSet(0 .. n - 1)
      /\ Cardinality(0 .. n - 1) = IF 0 > n - 1 THEN 0 ELSE (n - 1) - 0 + 1
  <2>1. 0 \in Int /\ n - 1 \in Int  OBVIOUS
  <2> QED BY <2>1, FS_Interval
<1> QED BY <1>1, <1>2

LEMMA RoomForMore ==
  ASSUME NEW t \in Table, Len(t.order) < t.size
  PROVE  \E n \in 0 .. t.size - 1 : n \notin ToSet(t.order)
<1> DEFINE S == 0 .. t.size - 1
           D == 1 .. Len(t.order)
<1>1. /\ t.size \in Nat /\ t.order \in [D -> S]
      /\ DOMAIN t.order = D /\ Len(t.order) \in Nat
  BY TableFacts
<1>2. ASSUME \A n \in S : n \in ToSet(t.order) PROVE FALSE
  <2>1. \A n \in S : \E i \in D : t.order[i] = n  BY <1>1, <1>2 DEF ToSet
  <2>2. t.order \in Surjection(D, S)  BY <1>1, <2>1 DEF Surjection
  <2>3. IsFiniteSet(D) /\ Cardinality(D) = Len(t.order)  BY <1>1, CountUpTo
  <2>4. Cardinality(S) <= Cardinality(D)  BY <2>2, <2>3, FS_Surjection
  <2>5. Cardinality(S) = t.size  BY <1>1, CountUpTo
  <2> QED BY <1>1, <2>3, <2>4, <2>5
<1> QED BY <1>2

(* A search in a good table ends, at the key or at an empty slot.          *)
LEMMA LookupFacts ==
  ASSUME NEW t, Good(t), NEW key \in Key
  PROVE  /\ LookupSlot(t, key) \in LookupStops(t, key)
         /\ LookupSlot(t, key) \in 0 .. t.size - 1
         /\ \E i : /\ FirstAt(t, key, LookupStops(t, key), i)
                   /\ LookupSlot(t, key) = Probe(t, key, i)
<1>1. t \in Table /\ LookupStops(t, key) # {}
  BY DEF Good, Searchable, LookupEnds
<1>2. LookupStops(t, key) \subseteq 0 .. t.size - 1
  BY <1>1, TableFacts DEF LookupStops
<1>3. PICK i : FirstAt(t, key, LookupStops(t, key), i)
  BY <1>1, <1>2, FirstExists
<1>4. LookupSlot(t, key) = Probe(t, key, i)
  BY <1>1, <1>3, FirstIs DEF LookupSlot
<1> QED BY <1>2, <1>3, <1>4 DEF FirstAt

(* Each key is in one slot, where the search finds it.                     *)
LEMMA KeyIsFound ==
  ASSUME NEW t, Good(t), NEW key \in Key
  PROVE  /\ \A n \in ToSet(t.order) :
              /\ n \in 0 .. t.size - 1 /\ t.slot[n] \in Entry
              /\ t.slot[n].k = key <=> n = LookupSlot(t, key) /\ Has(t, key)
         /\ Has(t, key) => /\ LookupSlot(t, key) \in ToSet(t.order)
                           /\ t.slot[LookupSlot(t, key)].k = key
         /\ ~Has(t, key) => t.slot[LookupSlot(t, key)] = EMPTY
         /\ LookupStops(t, key) =
              Vacant(t) \cup (IF Has(t, key) THEN {LookupSlot(t, key)} ELSE {})
<1> DEFINE d == LookupSlot(t, key)
<1>1. /\ t \in Table /\ DOMAIN t.slot = 0 .. t.size - 1
      /\ d \in 0 .. t.size - 1 /\ d \in LookupStops(t, key)
      /\ \A n \in 0 .. t.size - 1 : IsEntry(t, n) <=> t.slot[n] \in Entry
  BY LookupFacts, TableFacts DEF Good
<1>2. /\ ToSet(t.order) = {n \in DOMAIN t.slot : IsEntry(t, n)}
      /\ \A n \in ToSet(t.order) : LookupSlot(t, t.slot[n].k) = n
      /\ \A n \in DOMAIN t.slot : t.slot[n] # FREED
  BY DEF Good, Searchable
<1>3. /\ Has(t, key) => IsEntry(t, d) /\ t.slot[d].k = key
      /\ ~Has(t, key) => t.slot[d] = EMPTY
  BY <1>1 DEF LookupStops, Has
<1>4. ASSUME NEW n \in ToSet(t.order)
      PROVE  /\ n \in 0 .. t.size - 1 /\ t.slot[n] \in Entry
             /\ t.slot[n].k = key <=> n = d /\ Has(t, key)
  <2>1. n \in 0 .. t.size - 1 /\ t.slot[n] \in Entry /\ IsEntry(t, n)
    BY <1>1, <1>2
  <2>2. t.slot[n].k = key => n = d  BY <1>2
  <2>3. n = d => Has(t, key)  BY <2>1 DEF Has, IsEntry
  <2> QED BY <1>3, <2>1, <2>2, <2>3
<1>5. \A n \in DOMAIN t.slot : t.slot[n] = EMPTY <=> ~IsEntry(t, n)
  BY <1>2 DEF IsEntry
<1>6. LookupStops(t, key) = Vacant(t) \cup (IF Has(t, key) THEN {d} ELSE {})
  <2>1. ASSUME NEW n \in DOMAIN t.slot
        PROVE  (t.slot[n] = EMPTY \/ (IsEntry(t, n) /\ t.slot[n].k = key))
                 <=> (~IsEntry(t, n) \/ (Has(t, key) /\ n = d))
    <3>1. IsEntry(t, n) => n \in ToSet(t.order)  BY <1>2
    <3> QED BY <1>3, <1>4, <1>5, <3>1
  <2>2. LookupStops(t, key) \subseteq DOMAIN t.slot /\ Vacant(t) \subseteq DOMAIN t.slot
        /\ d \in DOMAIN t.slot
    BY <1>1 DEF LookupStops, Vacant
  <2>3. \A n \in DOMAIN t.slot :
          n \in LookupStops(t, key) <=> n \in Vacant(t) \cup (IF Has(t, key) THEN {d} ELSE {})
    BY <2>1 DEF LookupStops, Vacant
  <2> QED BY <2>2, <2>3
<1> QED BY <1>1, <1>2, <1>3, <1>4, <1>6

(* A good table stays good when the slot where the search for key ends     *)
(* gets an entry for key.                                                  *)
LEMMA SlotTaken ==
  ASSUME NEW t, Good(t), NEW key \in Key, NEW v \in Nat, NEW u \in Table,
         u.size = t.size, Len(u.order) < u.size, IsInjective(u.order),
         u.slot = [t.slot EXCEPT ![LookupSlot(t, key)] = [k |-> key, v |-> v]],
         ToSet(u.order) = ToSet(t.order) \cup {LookupSlot(t, key)}
  PROVE  Good(u)
<1> DEFINE d == LookupSlot(t, key)
           e == [k |-> key, v |-> v]
<1>1. /\ t \in Table /\ DOMAIN t.slot = 0 .. t.size - 1
      /\ DOMAIN u.slot = 0 .. t.size - 1
      /\ d \in 0 .. t.size - 1 /\ e \in Entry
      /\ \A n \in 0 .. t.size - 1 : IsEntry(t, n) <=> t.slot[n] \in Entry
      /\ \A n \in 0 .. t.size - 1 : IsEntry(u, n) <=> u.slot[n] \in Entry
      /\ \A k2 \in Key : \A i : Probe(u, k2, i) = Probe(t, k2, i)
  BY LookupFacts, TableFacts DEF Good, Entry, Probe
<1>2. u.slot[d] = e /\ \A n \in 0 .. t.size - 1 : n # d => u.slot[n] = t.slot[n]
  BY <1>1
<1>3. /\ ToSet(t.order) = {n \in 0 .. t.size - 1 : IsEntry(t, n)}
      /\ \A n \in ToSet(t.order) : LookupSlot(t, t.slot[n].k) = n
      /\ \A n \in 0 .. t.size - 1 : t.slot[n] # FREED
  BY <1>1 DEF Good, Searchable
<1>4. \A n \in 0 .. t.size - 1 : u.slot[n] # FREED
  BY <1>1, <1>2, <1>3, LinkhashAssumption
<1>5. ToSet(u.order) = {n \in DOMAIN u.slot : IsEntry(u, n)}
  <2>1. \A n \in 0 .. t.size - 1 : IsEntry(u, n) <=> n = d \/ IsEntry(t, n)
    BY <1>1, <1>2
  <2> QED BY <1>1, <1>3, <2>1
<1>6. \A k2 \in Key : LookupEnds(u, k2)
  <2>1. PICK n \in 0 .. t.size - 1 : n \notin ToSet(u.order)  BY RoomForMore
  <2>2. u.slot[n] = EMPTY  BY <1>1, <1>4, <1>5, <2>1 DEF IsEntry
  <2> QED BY <1>1, <2>2 DEF LookupEnds, LookupStops
<1>7. ASSUME NEW n \in ToSet(u.order) PROVE LookupSlot(u, u.slot[n].k) = n
  <2>1. CASE n = d
    <3>1. LookupStops(u, key) = LookupStops(t, key)
      <4>1. d \in LookupStops(u, key) /\ d \in LookupStops(t, key)
        BY <1>1, <1>2, <1>5, <1>7, <2>1, LookupFacts DEF LookupStops
      <4>2. \A m \in 0 .. t.size - 1 :
              m # d => (m \in LookupStops(u, key) <=> m \in LookupStops(t, key))
        BY <1>1, <1>2 DEF LookupStops
      <4>3. LookupStops(u, key) \subseteq 0 .. t.size - 1
            /\ LookupStops(t, key) \subseteq 0 .. t.size - 1
        BY <1>1 DEF LookupStops
      <4> QED BY <4>1, <4>2, <4>3
    <3>2. PICK i : FirstAt(t, key, LookupStops(t, key), i) /\ d = Probe(t, key, i)
      BY LookupFacts
    <3>3. FirstAt(u, key, LookupStops(u, key), i) /\ d = Probe(u, key, i)
      BY <1>1, <3>1, <3>2 DEF FirstAt
    <3>4. LookupSlot(u, key) = d  BY <3>3, FirstIs DEF LookupSlot
    <3> QED BY <1>2, <2>1, <3>4
  <2>2. CASE n # d
    <3>1. n \in ToSet(t.order)  BY <2>2, <1>7
    <3>2. t.slot[n] \in Entry /\ n \in 0 .. t.size - 1  BY <1>1, <1>3, <3>1
    <3>3. PICK k2 \in Key : k2 = t.slot[n].k  BY <3>2 DEF Entry
    <3>4. k2 # key /\ LookupSlot(t, k2) = n  BY <1>3, <2>2, <3>1, <3>3
    <3>5. LookupStops(u, k2) = LookupStops(t, k2) \ {d}
      <4>1. d \notin LookupStops(u, k2)
        BY <1>1, <1>2, <3>4, LinkhashAssumption DEF LookupStops
      <4>2. \A m \in 0 .. t.size - 1 :
              m # d => (m \in LookupStops(u, k2) <=> m \in LookupStops(t, k2))
        BY <1>1, <1>2 DEF LookupStops
      <4>3. LookupStops(u, k2) \subseteq 0 .. t.size - 1
            /\ LookupStops(t, k2) \subseteq 0 .. t.size - 1
        BY <1>1 DEF LookupStops
      <4> QED BY <4>1, <4>2, <4>3
    <3>6. PICK i : FirstAt(t, k2, LookupStops(t, k2), i) /\ n = Probe(t, k2, i)
      BY <3>4, LookupFacts
    <3>7. FirstAt(u, k2, LookupStops(u, k2), i) /\ n = Probe(u, k2, i)
      BY <1>1, <2>2, <3>5, <3>6 DEF FirstAt
    <3>8. LookupSlot(u, k2) = n  BY <3>7, FirstIs DEF LookupSlot
    <3>9. u.slot[n].k = k2  BY <1>2, <2>2, <3>2, <3>3
    <3> QED BY <3>8, <3>9
  <2> QED BY <2>1, <2>2
<1> QED BY <1>1, <1>4, <1>5, <1>6, <1>7 DEF Good, Searchable
-----------------------------------------------------------------------------
(* What a table holds.                                                     *)
Contents(t) == {t.slot[n] : n \in ToSet(t.order)}

(* A list that may be put into a new table.                                *)
Listed(t) ==
  /\ t \in Table
  /\ \A n \in ToSet(t.order) : t.slot[n] \in Entry
  /\ IsInjective(t.order)
  /\ \A m, n \in ToSet(t.order) : t.slot[m].k = t.slot[n].k => m = n

(* A table that can be searched is one of these.                           *)
LEMMA GoodIsListed ==
  ASSUME NEW t, Good(t)
  PROVE  /\ Listed(t)
         /\ \A key \in Key : Has(t, key) <=> \E e \in Contents(t) : e.k = key
<1>1. \A n \in ToSet(t.order) : /\ LookupSlot(t, t.slot[n].k) = n
                                /\ t.slot[n] \in Entry
  <2>1. \A n \in ToSet(t.order) : n \in DOMAIN t.slot /\ IsEntry(t, n)
    BY DEF Good, Searchable
  <2> QED BY <2>1, TableFacts DEF Good, Searchable
<1>2. Listed(t)  BY <1>1 DEF Good, Searchable, Listed
<1>3. ASSUME NEW key \in Key
      PROVE  Has(t, key) <=> \E e \in Contents(t) : e.k = key
  BY KeyIsFound DEF Contents
<1> QED BY <1>2, <1>3

(* A new table has nothing.                                                *)
LEMMA NewTableGood ==
  ASSUME NEW size \in Nat, size >= 3
  PROVE  /\ Good(NewTable(size)) /\ Contents(NewTable(size)) = {}
         /\ NewTable(size).size = size /\ Len(NewTable(size).order) = 0
<1> DEFINE none == << >>
           slot == [n \in 0 .. size - 1 |-> EMPTY]
           t == [size |-> size, slot |-> slot, order |-> none]
<1>1. /\ slot \in [0 .. size - 1 -> Entry \cup {EMPTY, FREED}]
      /\ \A n \in 0 .. size - 1 : slot[n] = EMPTY
      /\ none \in Seq(0 .. size - 1) /\ Len(none) = 0 /\ DOMAIN none = {}
  OBVIOUS
<1>2. t = NewTable(size)  BY DEF NewTable
<1> HIDE DEF none, slot
<1>3. t \in Table  BY <1>1, MakesTable
<1>4. /\ t.size = size /\ t.slot = slot /\ t.order = none
      /\ DOMAIN t.slot = 0 .. size - 1 /\ 0 \in 0 .. size - 1
  BY <1>1
<1> HIDE DEF t
<1>5. ToSet(t.order) = {} /\ IsInjective(t.order)
  BY <1>1, <1>4 DEF ToSet, IsInjective
<1>6. \A key \in Key : LookupEnds(t, key)
  BY <1>1, <1>4 DEF LookupEnds, LookupStops
<1>7. \A n \in DOMAIN t.slot : ~IsEntry(t, n) /\ t.slot[n] # FREED
  BY <1>1, <1>4, LinkhashAssumption DEF IsEntry
<1>8. Good(t)  BY <1>1, <1>3, <1>4, <1>5, <1>6, <1>7 DEF Good, Searchable
<1>9. Contents(t) = {}  BY <1>5 DEF Contents
<1> QED BY <1>1, <1>2, <1>4, <1>8, <1>9

(* One more at the end of a list.                                          *)
LEMMA AppendList ==
  ASSUME NEW S, NEW s \in Seq(S), NEW d \in S, IsInjective(s), d \notin ToSet(s)
  PROVE  /\ Append(s, d) \in Seq(S) /\ Len(Append(s, d)) = Len(s) + 1
         /\ IsInjective(Append(s, d))
         /\ ToSet(Append(s, d)) = ToSet(s) \cup {d}
         /\ Append(s, d)[Len(s) + 1] = d
         /\ \A i \in 1 .. Len(s) : Append(s, d)[i] = s[i]
<1> DEFINE u == Append(s, d)
           N == Len(s)
<1>1. /\ u \in Seq(S) /\ Len(u) = N + 1 /\ N \in Nat
      /\ DOMAIN s = 1 .. N /\ DOMAIN u = 1 .. N + 1
      /\ u[N + 1] = d /\ \A i \in 1 .. N : u[i] = s[i]
  OBVIOUS
<1> HIDE DEF u
<1>2. \A i \in 1 .. N + 1 : i \in 1 .. N \/ i = N + 1  BY <1>1
<1>3. \A i \in 1 .. N : i \in 1 .. N + 1 /\ s[i] # d  BY <1>1 DEF ToSet
<1>4. N + 1 \in 1 .. N + 1  BY <1>1
<1> HIDE DEF N
<1>5. ToSet(u) = ToSet(s) \cup {d}
  <2>1. \A x \in ToSet(u) : x \in ToSet(s) \cup {d}  BY <1>1, <1>2 DEF ToSet
  <2>2. \A x \in ToSet(s) \cup {d} : x \in ToSet(u)
    BY <1>1, <1>3, <1>4 DEF ToSet
  <2> QED BY <2>1, <2>2
<1>6. IsInjective(u)
  <2> SUFFICES ASSUME NEW i \in 1 .. N + 1, NEW j \in 1 .. N + 1, u[i] = u[j]
               PROVE  i = j
    BY <1>1 DEF IsInjective
  <2> QED BY <1>1, <1>2, <1>3 DEF IsInjective
<1> QED BY <1>1, <1>5, <1>6 DEF u, N

(* A sequence behind a sequence, and the part of one behind its beginning. *)
LEMMA ConcatFacts ==
  ASSUME NEW S, NEW x \in Seq(S), NEW y \in Seq(S)
  PROVE  /\ x \o y \in Seq(S) /\ Len(x \o y) = Len(x) + Len(y)
         /\ \A i \in 1 .. Len(x) : (x \o y)[i] = x[i]
         /\ \A i \in 1 .. Len(y) : (x \o y)[Len(x) + i] = y[i]
<1> QED  OBVIOUS

LEMMA PartFacts ==
  ASSUME NEW S, NEW x \in Seq(S), NEW i \in Nat, NEW j \in Nat,
         i <= j, j <= Len(x)
  PROVE  /\ SubSeq(x, i + 1, j) \in Seq(S) /\ Len(SubSeq(x, i + 1, j)) = j - i
         /\ \A l \in 1 .. j - i : SubSeq(x, i + 1, j)[l] = x[i + l]
<1> QED  OBVIOUS

(* One less in a list.                                                     *)
LEMMA RemoveList ==
  ASSUME NEW S, NEW s \in Seq(S), IsInjective(s), NEW i \in DOMAIN s
  PROVE  /\ RemoveAt(s, i) \in Seq(S) /\ Len(RemoveAt(s, i)) = Len(s) - 1
         /\ IsInjective(RemoveAt(s, i))
         /\ ToSet(RemoveAt(s, i)) = ToSet(s) \ {s[i]}
         /\ \A j \in 1 .. Len(s) - 1 :
              RemoveAt(s, i)[j] = IF j < i THEN s[j] ELSE s[j + 1]
<1> DEFINE u == RemoveAt(s, i)
           N == Len(s)
           a == SubSeq(s, 1, i - 1)
           b == SubSeq(s, i + 1, N)
<1>1. N \in Nat /\ DOMAIN s = 1 .. N /\ i \in 1 .. N /\ u = a \o b
  BY DEF RemoveAt
<1>2. /\ a \in Seq(S) /\ Len(a) = i - 1
      /\ \A j \in 1 .. i - 1 : a[j] = s[j]
  <2>1. 1 \in 1 .. N + 1 /\ i - 1 \in 0 .. N  BY <1>1
  <2> QED BY <1>1, <2>1
<1>3. /\ b \in Seq(S) /\ Len(b) = N - i
      /\ \A j \in 1 .. N - i : b[j] = s[i + j]
  <2>1. i \in Nat /\ N \in Nat /\ i <= N /\ N <= Len(s)  BY <1>1
  <2> QED BY <2>1, PartFacts
<1> HIDE DEF a, b, u
<1>4. /\ u \in Seq(S) /\ Len(u) = N - 1 /\ DOMAIN u = 1 .. N - 1
      /\ \A j \in 1 .. N - 1 : u[j] = IF j < i THEN s[j] ELSE s[j + 1]
  <2>1. /\ u \in Seq(S) /\ Len(u) = Len(a) + Len(b)
        /\ \A j \in 1 .. Len(a) : u[j] = a[j]
        /\ \A j \in 1 .. Len(b) : u[Len(a) + j] = b[j]
    <3>1. u = a \o b /\ a \in Seq(S) /\ b \in Seq(S)  BY <1>1, <1>2, <1>3
    <3>2. /\ a \o b \in Seq(S) /\ Len(a \o b) = Len(a) + Len(b)
          /\ \A j \in 1 .. Len(a) : (a \o b)[j] = a[j]
          /\ \A j \in 1 .. Len(b) : (a \o b)[Len(a) + j] = b[j]
      BY <3>1, ConcatFacts
    <3> QED BY <3>1, <3>2
  <2>2. Len(u) = N - 1 /\ DOMAIN u = 1 .. N - 1
    <3>1. (i - 1) + (N - i) = N - 1  BY <1>1
    <3>2. Len(u) = N - 1  BY <1>2, <1>3, <2>1, <3>1
    <3> QED BY <2>1, <3>2
  <2>3. ASSUME NEW j \in 1 .. N - 1
        PROVE  u[j] = IF j < i THEN s[j] ELSE s[j + 1]
    <3>1. CASE j < i
      <4>1. j \in 1 .. i - 1 /\ j \in 1 .. Len(a)  BY <1>1, <1>2, <3>1
      <4>2. u[j] = a[j]  BY <2>1, <4>1
      <4> QED BY <1>2, <3>1, <4>1, <4>2
    <3>2. CASE ~(j < i)
      <4>1. /\ j - (i - 1) \in 1 .. N - i /\ i + (j - (i - 1)) = j + 1
            /\ (i - 1) + (j - (i - 1)) = j
        BY <1>1, <3>2
      <4>2. u[j] = b[j - (i - 1)]
        <5> DEFINE l == j - (i - 1)
        <5>1. l \in 1 .. Len(b) /\ Len(a) + l = j  BY <1>2, <1>3, <4>1
        <5> HIDE DEF l
        <5>2. u[Len(a) + l] = b[l]  BY <2>1, <5>1
        <5> QED BY <5>1, <5>2 DEF l
      <4> QED BY <1>3, <3>2, <4>1, <4>2
    <3> QED BY <3>1, <3>2
  <2> QED BY <2>1, <2>2, <2>3
<1> DEFINE at(j) == IF j < i THEN j ELSE j + 1
<1>5. \A j \in 1 .. N - 1 : /\ at(j) \in 1 .. N /\ at(j) # i /\ u[j] = s[at(j)]
                            /\ \A l \in 1 .. N - 1 : at(l) = at(j) => l = j
  <2>1. \A j \in 1 .. N - 1 : /\ at(j) \in 1 .. N /\ at(j) # i
                              /\ \A l \in 1 .. N - 1 : at(l) = at(j) => l = j
    BY <1>1
  <2> QED BY <1>4, <2>1
<1>6. \A m \in 1 .. N : m # i => \E j \in 1 .. N - 1 : at(j) = m
  <2> SUFFICES ASSUME NEW m \in 1 .. N, m # i
               PROVE  \E j \in 1 .. N - 1 : at(j) = m
    OBVIOUS
  <2> DEFINE j == IF m < i THEN m ELSE m - 1
  <2>1. j \in 1 .. N - 1 /\ at(j) = m  BY <1>1
  <2> QED BY <2>1
<1> HIDE DEF at
<1>7. IsInjective(u)
  <2> SUFFICES ASSUME NEW j \in 1 .. N - 1, NEW l \in 1 .. N - 1, u[j] = u[l]
               PROVE  j = l
    BY <1>4 DEF IsInjective
  <2>1. at(j) = at(l)  BY <1>1, <1>5 DEF IsInjective
  <2> QED BY <1>5, <2>1
<1>8. ToSet(u) = ToSet(s) \ {s[i]}
  <2>1. \A x \in ToSet(u) : x \in ToSet(s) \ {s[i]}
    <3> SUFFICES ASSUME NEW j \in 1 .. N - 1
                 PROVE  u[j] \in ToSet(s) /\ u[j] # s[i]
      BY <1>4 DEF ToSet
    <3>1. at(j) \in 1 .. N /\ at(j) # i /\ u[j] = s[at(j)]  BY <1>5
    <3> QED BY <1>1, <3>1 DEF ToSet, IsInjective
  <2>2. \A x \in ToSet(s) \ {s[i]} : x \in ToSet(u)
    <3> SUFFICES ASSUME NEW m \in 1 .. N, s[m] # s[i] PROVE s[m] \in ToSet(u)
      BY <1>1 DEF ToSet
    <3>1. PICK j \in 1 .. N - 1 : at(j) = m  BY <1>6
    <3>2. u[j] = s[m] /\ j \in DOMAIN u  BY <1>4, <1>5, <3>1
    <3> QED BY <3>2 DEF ToSet
  <2> QED BY <2>1, <2>2
<1> QED BY <1>4, <1>7, <1>8 DEF u, N
-----------------------------------------------------------------------------
(* u lists one entry more than t, behind the others.                       *)
Prolongs(t, u, key, v) ==
  /\ Len(u.order) = Len(t.order) + 1
  /\ \A j \in 1 .. Len(t.order) : u.slot[u.order[j]] = t.slot[t.order[j]]
  /\ u.slot[u.order[Len(t.order) + 1]] = [k |-> key, v |-> v]

(* u is t with one more entry, in the slot d.                              *)
Placed(t, u, d, key, v) ==
  /\ u \in Table /\ u.size = t.size
  /\ u.slot = [t.slot EXCEPT ![d] = [k |-> key, v |-> v]]
  /\ Len(u.order) = Len(t.order) + 1 /\ IsInjective(u.order)
  /\ ToSet(u.order) = ToSet(t.order) \cup {d}
  /\ Contents(u) = Contents(t) \cup {[k |-> key, v |-> v]}
  /\ Prolongs(t, u, key, v)

(* An entry goes to the slot where the search for its key ends.            *)
LEMMA PlaceFacts ==
  ASSUME NEW t \in Table, NEW key \in Key, NEW v \in Nat,
         NEW d \in 0 .. t.size - 1, FirstProbe(t, key, Vacant(t)) = d,
         IsInjective(t.order), d \notin ToSet(t.order)
  PROVE  Placed(t, Place(t, key, v), d, key, v)
<1> DEFINE e == [k |-> key, v |-> v]
           slot == [t.slot EXCEPT ![d] = e]
           order == Append(t.order, d)
           u == [size |-> t.size, slot |-> slot, order |-> order]
<1>1. /\ t = [size |-> t.size, slot |-> t.slot, order |-> t.order]
      /\ t.size \in Nat /\ t.size >= 3 /\ DOMAIN t.slot = 0 .. t.size - 1
      /\ t.slot \in [0 .. t.size - 1 -> Entry \cup {EMPTY, FREED}]
      /\ t.order \in Seq(0 .. t.size - 1) /\ e \in Entry
  BY TableFacts DEF Entry
<1>2. /\ order \in Seq(0 .. t.size - 1) /\ Len(order) = Len(t.order) + 1
      /\ IsInjective(order) /\ ToSet(order) = ToSet(t.order) \cup {d}
      /\ order[Len(t.order) + 1] = d
      /\ \A j \in 1 .. Len(t.order) : order[j] = t.order[j]
  BY <1>1, AppendList
<1>3. /\ slot \in [0 .. t.size - 1 -> Entry \cup {EMPTY, FREED}]
      /\ slot[d] = e /\ \A n \in 0 .. t.size - 1 : n # d => slot[n] = t.slot[n]
  BY <1>1
<1>4. Place(t, key, v) = u
  <2>1. {m \in DOMAIN t.slot : ~IsEntry(t, m)} = Vacant(t)  BY DEF Vacant
  <2>2. Place(t, key, v) = [t EXCEPT !.slot[d] = e, !.order = Append(@, d)]
    BY <2>1 DEF Place
  <2> QED BY <1>1, <2>2
<1>5. u \in Table  BY <1>1, <1>2, <1>3, MakesTable
<1>6. Contents(u) = Contents(t) \cup {e}
  <2> HIDE DEF slot, order, e
  <2>1. \A n \in ToSet(t.order) : n \in 0 .. t.size - 1 /\ slot[n] = t.slot[n]
    BY <1>1, <1>3 DEF ToSet
  <2>2. {slot[n] : n \in ToSet(order)} = {t.slot[n] : n \in ToSet(t.order)} \cup {e}
    BY <1>2, <1>3, <2>1
  <2> QED BY <2>2 DEF Contents
<1>7. u.size = t.size /\ u.slot = slot /\ u.order = order  OBVIOUS
<1> HIDE DEF u
<1>8. /\ u \in Table /\ u.size = t.size /\ u.slot = slot
      /\ Len(u.order) = Len(t.order) + 1 /\ IsInjective(u.order)
      /\ ToSet(u.order) = ToSet(t.order) \cup {d}
  BY <1>2, <1>5, <1>7
<1>9. Prolongs(t, u, key, v)
  <2> HIDE DEF slot, order
  <2>1. \A j \in 1 .. Len(t.order) :
          t.order[j] \in 0 .. t.size - 1 /\ t.order[j] # d
    BY <1>1 DEF ToSet
  <2> QED BY <1>2, <1>3, <1>7, <2>1 DEF Prolongs, e
<1> QED BY <1>4, <1>6, <1>8, <1>9 DEF Placed

(* A good table takes an entry for a key that it does not have, if there   *)
(* is room for one more.                                                   *)
LEMMA PlaceAbsent ==
  ASSUME NEW t, Good(t), NEW key \in Key, ~Has(t, key), NEW v \in Nat,
         Len(t.order) + 1 < t.size
  PROVE  /\ Good(Place(t, key, v)) /\ Place(t, key, v).size = t.size
         /\ Len(Place(t, key, v).order) = Len(t.order) + 1
         /\ Contents(Place(t, key, v)) = Contents(t) \cup {[k |-> key, v |-> v]}
         /\ Prolongs(t, Place(t, key, v), key, v)
<1> DEFINE d == LookupSlot(t, key)
           u == Place(t, key, v)
<1>1. /\ t \in Table /\ IsInjective(t.order) /\ d \in 0 .. t.size - 1
      /\ LookupStops(t, key) = Vacant(t) /\ t.slot[d] = EMPTY
  <2>1. t \in Table /\ IsInjective(t.order)  BY DEF Good, Searchable
  <2>2. d \in 0 .. t.size - 1  BY LookupFacts
  <2>3. LookupStops(t, key) = Vacant(t) \cup (IF Has(t, key) THEN {d} ELSE {})
        /\ (~Has(t, key) => t.slot[d] = EMPTY)
    BY KeyIsFound
  <2> QED BY <2>1, <2>2, <2>3
<1>2. FirstProbe(t, key, Vacant(t)) = d  BY <1>1 DEF LookupSlot
<1>3. d \notin ToSet(t.order)  BY <1>1 DEF Good, Searchable, IsEntry
<1>4. Placed(t, u, d, key, v)  BY <1>1, <1>2, <1>3, PlaceFacts
<1> HIDE DEF d, u
<1>5. Len(u.order) < u.size  BY <1>4 DEF Placed
<1>6. Good(u)  BY <1>4, <1>5, SlotTaken DEF Placed, d
<1> QED BY <1>4, <1>6 DEF Placed, u

(* A table that grows has the same entries, and none in the way.           *)
LEMMA ResizeGood ==
  ASSUME NEW t, Listed(t), NEW size \in Nat, size >= 3, Len(t.order) < size
  PROVE  /\ Good(Resize(t, size)) /\ Resize(t, size).size = size
         /\ Len(Resize(t, size).order) = Len(t.order)
         /\ Contents(Resize(t, size)) = Contents(t)
         /\ \A j \in 1 .. Len(t.order) :
              Resize(t, size).slot[Resize(t, size).order[j]] = t.slot[t.order[j]]
<1> DEFINE N == Len(t.order)
           E(i) == t.slot[t.order[i]]
           First(i) == {E(j) : j \in 1 .. i}
           Next2(i, u) == Place(u, E(i).k, E(i).v)
           Fits(u, i) == /\ Good(u) /\ u.size = size /\ Len(u.order) = i
                         /\ Contents(u) = First(i)
                         /\ \A j \in 1 .. i : u.slot[u.order[j]] = E(j)
<1>1. /\ N \in Nat /\ DOMAIN t.order = 1 .. N
      /\ \A i \in 1 .. N : E(i) \in Entry
      /\ \A i, j \in 1 .. N : E(i).k = E(j).k => i = j
  <2>1. N \in Nat /\ DOMAIN t.order = 1 .. N  BY TableFacts DEF Listed
  <2>2. \A i \in 1 .. N : t.order[i] \in ToSet(t.order)  BY <2>1 DEF ToSet
  <2> QED BY <2>1, <2>2 DEF Listed, IsInjective
<1>2. Contents(t) = First(N)  BY <1>1 DEF Contents, ToSet
<1>3. Fits(NewTable(size), 0)  BY NewTableGood
<1> HIDE DEF E
<1>4. ASSUME NEW i \in 1 .. N, NEW u, Fits(u, i - 1)
      PROVE  Fits(Next2(i, u), i)
  <2>1. /\ E(i) \in Entry /\ E(i).k \in Key /\ E(i).v \in Nat
        /\ E(i) = [k |-> E(i).k, v |-> E(i).v]
    BY <1>1 DEF Entry
  <2>2. ~Has(u, E(i).k)
    <3>1. \A j \in 1 .. i - 1 : E(j).k # E(i).k  BY <1>1
    <3>2. \A e \in Contents(u) : e.k # E(i).k  BY <1>4, <3>1
    <3> QED BY <1>4, <2>1, <3>2, GoodIsListed
  <2>3. Len(u.order) + 1 < u.size /\ Len(u.order) + 1 = i  BY <1>1, <1>4
  <2>4. /\ Good(Next2(i, u)) /\ Next2(i, u).size = u.size
        /\ Len(Next2(i, u).order) = Len(u.order) + 1
        /\ Contents(Next2(i, u)) = Contents(u) \cup {[k |-> E(i).k, v |-> E(i).v]}
        /\ Prolongs(u, Next2(i, u), E(i).k, E(i).v)
    BY <1>4, <2>1, <2>2, <2>3, PlaceAbsent
  <2>5. First(i) = First(i - 1) \cup {E(i)}
    <3>1. 1 .. i = (1 .. i - 1) \cup {i}  BY <1>1
    <3> QED BY <3>1
  <2>6. \A j \in 1 .. i : Next2(i, u).slot[Next2(i, u).order[j]] = E(j)
    <3> HIDE DEF Next2
    <3>1. \A j \in 1 .. i : j = i \/ j \in 1 .. i - 1  OBVIOUS
    <3> QED BY <1>4, <2>1, <2>3, <2>4, <3>1 DEF Prolongs
  <2> QED BY <1>4, <2>1, <2>3, <2>4, <2>5, <2>6
<1> DEFINE start == NewTable(size)
           F == [x \in (1 .. N) \X Table |->
                   IF Next2(x[1], x[2]) \in Table THEN Next2(x[1], x[2]) ELSE x[2]]
           Rec(g) == [i \in 0 .. N |->
                        IF i = 0 THEN start ELSE Next2(i, g[i - 1])]
           new == CHOOSE g : g = Rec(g)
<1>5. Resize(t, size) = new[N]  BY DEF Resize, E
<1>6. start \in Table /\ F \in [(1 .. N) \X Table -> Table]  BY <1>3 DEF Good
<1>7. \A i \in 1 .. N, u \in Table : Next2(i, u) \in Table => F[<<i, u>>] = Next2(i, u)
  OBVIOUS
<1> HIDE DEF Fits, Next2, First, F, N, start
<1>8. PICK f \in [0 .. N -> Table] : Follows(f, start, F, N)
  BY <1>1, <1>6, RecursionExists
<1>9. f[0] = start /\ \A i \in 1 .. N : f[i] = F[<<i, f[i - 1]>>]
  BY <1>8 DEF Follows
<1>10. \A i \in Nat : i <= N => Fits(f[i], i)
  <2> DEFINE T == {i \in Nat : i <= N => Fits(f[i], i)}
  <2>1. 0 \in T  BY <1>3, <1>9 DEF start
  <2>2. ASSUME NEW i \in Nat, i \in T PROVE i + 1 \in T
    <3> SUFFICES ASSUME i + 1 <= N PROVE Fits(f[i + 1], i + 1)  OBVIOUS
    <3>1. i + 1 \in 1 .. N /\ (i + 1) - 1 = i /\ i \in 0 .. N  BY <1>1
    <3>2. Fits(f[i], i)  BY <2>2, <3>1
    <3>3. Fits(Next2(i + 1, f[i]), i + 1)  BY <1>4, <3>1, <3>2
    <3>4. Next2(i + 1, f[i]) \in Table  BY <3>3 DEF Fits, Good
    <3>5. f[i + 1] = F[<<i + 1, f[i]>>]  BY <1>9, <3>1
    <3>6. f[i + 1] = Next2(i + 1, f[i])  BY <1>7, <1>8, <3>1, <3>4, <3>5
    <3> QED BY <3>3, <3>6
  <2>3. Nat \subseteq T
    <3> HIDE DEF T
    <3> QED BY <2>1, <2>2, SetInduction
  <2> QED BY <2>3
<1>11. f = Rec(f)
  <2>1. ASSUME NEW i \in 0 .. N, i # 0 PROVE f[i] = Next2(i, f[i - 1])
    <3>1. i \in 1 .. N /\ i - 1 \in Nat /\ i - 1 <= N /\ i - 1 \in 0 .. N
      BY <1>1, <2>1
    <3>2. Fits(Next2(i, f[i - 1]), i)  BY <1>4, <1>10, <3>1
    <3>3. Next2(i, f[i - 1]) \in Table  BY <3>2 DEF Fits, Good
    <3> QED BY <1>7, <1>8, <1>9, <3>1, <3>3
  <2> QED BY <1>8, <1>9, <2>1
<1>12. new = Rec(new)
  <2> HIDE DEF Rec
  <2> QED BY <1>11
<1>13. \A i \in Nat : i <= N => new[i] = f[i]
  <2> HIDE DEF new
  <2> DEFINE T == {i \in Nat : i <= N => new[i] = f[i]}
  <2>1. \A i \in 0 .. N : new[i] = (IF i = 0 THEN start ELSE Next2(i, new[i - 1]))
    BY <1>12
  <2>2. \A i \in 0 .. N : f[i] = (IF i = 0 THEN start ELSE Next2(i, f[i - 1]))
    BY <1>11
  <2>3. 0 \in T
    <3>1. 0 \in 0 .. N  BY <1>1
    <3> QED BY <2>1, <2>2, <3>1
  <2>4. ASSUME NEW i \in Nat, i \in T PROVE i + 1 \in T
    <3> SUFFICES ASSUME i + 1 <= N PROVE new[i + 1] = f[i + 1]  OBVIOUS
    <3>1. i + 1 \in 0 .. N /\ i + 1 # 0 /\ (i + 1) - 1 = i /\ i <= N  BY <1>1
    <3> QED BY <2>1, <2>2, <2>4, <3>1
  <2>5. Nat \subseteq T
    <3> HIDE DEF T
    <3> QED BY <2>3, <2>4, SetInduction
  <2> QED BY <2>5
<1>14. Resize(t, size) = f[N]  BY <1>1, <1>5, <1>13
<1>15. Fits(f[N], N)  BY <1>1, <1>10
<1> QED BY <1>2, <1>14, <1>15 DEF Fits, N, E
-----------------------------------------------------------------------------
(* An entry that is deleted leaves a marker and no entry in the list.      *)
LEMMA DeleteFacts ==
  ASSUME NEW t, Good(t), NEW key \in Key, Has(t, key)
  PROVE  /\ Delete(t, key) \in Table /\ Delete(t, key).size = t.size
         /\ Delete(t, key).slot = [t.slot EXCEPT ![LookupSlot(t, key)] = FREED]
         /\ Len(Delete(t, key).order) = Len(t.order) - 1
         /\ IsInjective(Delete(t, key).order)
         /\ ToSet(Delete(t, key).order) = ToSet(t.order) \ {LookupSlot(t, key)}
         /\ \E i \in DOMAIN t.order :
              /\ t.order[i] = LookupSlot(t, key)
              /\ \A j \in 1 .. Len(t.order) - 1 :
                   Delete(t, key).order[j] = IF j < i THEN t.order[j] ELSE t.order[j + 1]
<1> DEFINE d == LookupSlot(t, key)
           i == CHOOSE i \in DOMAIN t.order : t.order[i] = d
           slot == [t.slot EXCEPT ![d] = FREED]
           order == RemoveAt(t.order, i)
           u == [size |-> t.size, slot |-> slot, order |-> order]
<1>1. /\ t = [size |-> t.size, slot |-> t.slot, order |-> t.order]
      /\ t.size \in Nat /\ t.size >= 3 /\ DOMAIN t.slot = 0 .. t.size - 1
      /\ t.slot \in [0 .. t.size - 1 -> Entry \cup {EMPTY, FREED}]
      /\ t.order \in Seq(0 .. t.size - 1) /\ IsInjective(t.order)
  BY TableFacts DEF Good, Searchable
<1>2. d \in 0 .. t.size - 1 /\ d \in ToSet(t.order)  BY LookupFacts, KeyIsFound
<1>3. i \in DOMAIN t.order /\ t.order[i] = d
  <2>1. \E j \in DOMAIN t.order : t.order[j] = d  BY <1>2 DEF ToSet
  <2> HIDE DEF d
  <2> QED BY <2>1
<1>4. Delete(t, key) = [t EXCEPT !.slot[d] = FREED, !.order = RemoveAt(@, i)]
  BY DEF Delete
<1> HIDE DEF d, i
<1>5. /\ order \in Seq(0 .. t.size - 1) /\ Len(order) = Len(t.order) - 1
      /\ IsInjective(order) /\ ToSet(order) = ToSet(t.order) \ {d}
      /\ \A j \in 1 .. Len(t.order) - 1 :
           order[j] = IF j < i THEN t.order[j] ELSE t.order[j + 1]
  BY <1>1, <1>3, RemoveList
<1>6. slot \in [0 .. t.size - 1 -> Entry \cup {EMPTY, FREED}]  BY <1>1
<1>7. Delete(t, key) = u  BY <1>1, <1>4
<1>8. u \in Table /\ u.size = t.size /\ u.slot = slot /\ u.order = order
  BY <1>1, <1>5, <1>6, MakesTable
<1> HIDE DEF u
<1> QED BY <1>3, <1>5, <1>7, <1>8 DEF d

(* What is left can be listed and is all except the key.                   *)
LEMMA DeleteLists ==
  ASSUME NEW t, Good(t), NEW key \in Key
  PROVE  /\ Listed(Delete(t, key)) /\ Delete(t, key).size = t.size
         /\ Len(Delete(t, key).order) <= Len(t.order)
         /\ Contents(Delete(t, key)) = {e \in Contents(t) : e.k # key}
<1> DEFINE u == Delete(t, key)
           d == LookupSlot(t, key)
<1>1. /\ Listed(t) /\ t \in Table /\ Len(t.order) \in Nat
      /\ Has(t, key) <=> \E e \in Contents(t) : e.k = key
  BY GoodIsListed, TableFacts DEF Good
<1>2. CASE ~Has(t, key)
  <2>1. u = t  BY <1>2 DEF Delete
  <2>2. Contents(t) = {e \in Contents(t) : e.k # key}  BY <1>1, <1>2
  <2> QED BY <1>1, <2>1, <2>2
<1>3. CASE Has(t, key)
  <2>1. /\ u \in Table /\ u.size = t.size
        /\ u.slot = [t.slot EXCEPT ![d] = FREED]
        /\ Len(u.order) = Len(t.order) - 1 /\ IsInjective(u.order)
        /\ ToSet(u.order) = ToSet(t.order) \ {d}
    BY <1>3, DeleteFacts
  <2>2. /\ d \in ToSet(t.order)
        /\ \A n \in ToSet(t.order) : /\ n \in 0 .. t.size - 1
                                     /\ t.slot[n] \in Entry
                                     /\ t.slot[n].k = key <=> n = d
    BY <1>3, KeyIsFound
  <2> HIDE DEF u, d
  <2>3. \A n \in ToSet(u.order) : u.slot[n] = t.slot[n] /\ n \in ToSet(t.order)
    BY <1>1, <2>1, <2>2, TableFacts
  <2>4. Listed(u)  BY <1>1, <2>1, <2>2, <2>3 DEF Listed
  <2>5. Contents(u) = {e \in Contents(t) : e.k # key}
    <3>1. ASSUME NEW e \in Contents(u) PROVE e \in Contents(t) /\ e.k # key
      <4>1. PICK n \in ToSet(u.order) : e = u.slot[n]  BY DEF Contents
      <4> QED BY <2>1, <2>2, <2>3, <4>1 DEF Contents
    <3>2. ASSUME NEW e \in Contents(t), e.k # key PROVE e \in Contents(u)
      <4>1. PICK n \in ToSet(t.order) : e = t.slot[n]  BY DEF Contents
      <4>2. n \in ToSet(u.order)  BY <2>1, <2>2, <3>2, <4>1
      <4> QED BY <2>3, <4>1, <4>2 DEF Contents
    <3> QED BY <3>1, <3>2
  <2> QED BY <1>1, <2>1, <2>4, <2>5 DEF u
<1> QED BY <1>2, <1>3

(* The slot of the key that is deleted takes its next entry.               *)
LEMMA PlaceAgain ==
  ASSUME NEW t, Good(t), NEW key \in Key, Has(t, key), NEW v \in Nat
  PROVE  /\ Good(Place(Delete(t, key), key, v))
         /\ Contents(Place(Delete(t, key), key, v)) =
              Contents(Delete(t, key)) \cup {[k |-> key, v |-> v]}
         /\ Prolongs(Delete(t, key), Place(Delete(t, key), key, v), key, v)
<1>1. PICK u : u = Delete(t, key)  OBVIOUS
<1> DEFINE d == LookupSlot(t, key)
           w == Place(u, key, v)
<1>2. /\ u \in Table /\ u.size = t.size
      /\ u.slot = [t.slot EXCEPT ![d] = FREED]
      /\ Len(u.order) = Len(t.order) - 1 /\ IsInjective(u.order)
      /\ ToSet(u.order) = ToSet(t.order) \ {d}
  BY <1>1, DeleteFacts
<1>3. /\ d \in 0 .. t.size - 1 /\ d \in ToSet(t.order)
      /\ LookupStops(t, key) = Vacant(t) \cup {d}
      /\ t \in Table /\ Len(t.order) \in Nat /\ t.size \in Nat
      /\ Len(t.order) < t.size /\ DOMAIN t.slot = 0 .. t.size - 1
  BY LookupFacts, KeyIsFound, TableFacts DEF Good
<1>4. FirstProbe(u, key, Vacant(u)) = d
  <2>1. PICK i : FirstAt(t, key, LookupStops(t, key), i) /\ d = Probe(t, key, i)
    BY LookupFacts
  <2> HIDE DEF d
  <2>2. Vacant(u) = LookupStops(t, key)
    <3>1. DOMAIN u.slot = 0 .. t.size - 1 /\ u.slot[d] = FREED
          /\ \A n \in 0 .. t.size - 1 : n # d => u.slot[n] = t.slot[n]
      BY <1>2, <1>3
    <3>2. ~IsEntry(u, d)
          /\ \A n \in 0 .. t.size - 1 : n # d => (IsEntry(u, n) <=> IsEntry(t, n))
      BY <3>1 DEF IsEntry
    <3> QED BY <1>3, <3>1, <3>2 DEF Vacant
  <2>3. \A j : Probe(u, key, j) = Probe(t, key, j)  BY <1>2 DEF Probe
  <2>4. FirstAt(u, key, Vacant(u), i)  BY <1>2, <2>1, <2>2, <2>3 DEF FirstAt
  <2>5. FirstProbe(u, key, Vacant(u)) = Probe(u, key, i)
    BY <1>2, <2>4, FirstIs
  <2> QED BY <2>1, <2>3, <2>5
<1> HIDE DEF d
<1>5. Placed(u, w, d, key, v)
  <2>1. d \in 0 .. u.size - 1 /\ d \notin ToSet(u.order)  BY <1>2, <1>3
  <2> QED BY <1>2, <1>4, <2>1, PlaceFacts
<1> HIDE DEF w
<1>6. Good(w)
  <2>1. w.slot = [t.slot EXCEPT ![d] = [k |-> key, v |-> v]]
    <3> DEFINE e == [k |-> key, v |-> v]
    <3> HIDE DEF e
    <3>1. t.slot = [n \in 0 .. t.size - 1 |-> t.slot[n]]  BY <1>3, TableFacts
    <3>2. w.slot = [u.slot EXCEPT ![d] = e]  BY <1>5 DEF Placed, e
    <3>3. w.slot = [t.slot EXCEPT ![d] = e]  BY <1>2, <3>1, <3>2
    <3> QED BY <3>3 DEF e
  <2>2. ToSet(w.order) = ToSet(t.order) \cup {d} /\ Len(w.order) < w.size
        /\ w.size = t.size
    BY <1>2, <1>3, <1>5 DEF Placed
  <2> QED BY <1>5, <2>1, <2>2, SlotTaken DEF Placed, d
<1> QED BY <1>1, <1>5, <1>6 DEF Placed, w

(* The list behind an entry that is deleted moves up by one.               *)
CutFrom(t, u, i) ==
  /\ Len(u.order) = Len(t.order) - 1
  /\ \A j \in 1 .. Len(t.order) - 1 :
       u.slot[u.order[j]] = IF j < i THEN t.slot[t.order[j]]
                                      ELSE t.slot[t.order[j + 1]]

LEMMA DeleteCuts ==
  ASSUME NEW t, Good(t), NEW key \in Key, Has(t, key)
  PROVE  \E i \in 1 .. Len(t.order) : /\ t.slot[t.order[i]].k = key
                                     /\ CutFrom(t, Delete(t, key), i)
<1>1. PICK u : u = Delete(t, key)  OBVIOUS
<1>2. PICK d : d = LookupSlot(t, key)  OBVIOUS
<1>3. /\ t \in Table /\ Len(t.order) \in Nat /\ DOMAIN t.order = 1 .. Len(t.order)
      /\ DOMAIN t.slot = 0 .. t.size - 1 /\ t.order \in Seq(0 .. t.size - 1)
      /\ t.slot = [n \in 0 .. t.size - 1 |-> t.slot[n]]
      /\ IsInjective(t.order)
  BY TableFacts DEF Good, Searchable
<1>4. PICK i \in DOMAIN t.order :
        /\ t.order[i] = d
        /\ \A j \in 1 .. Len(t.order) - 1 :
             u.order[j] = IF j < i THEN t.order[j] ELSE t.order[j + 1]
  <2>1. \E i \in DOMAIN t.order :
          /\ t.order[i] = LookupSlot(t, key)
          /\ \A j \in 1 .. Len(t.order) - 1 :
               Delete(t, key).order[j]
                 = IF j < i THEN t.order[j] ELSE t.order[j + 1]
    BY DeleteFacts
  <2> QED BY ONLY <1>1, <1>2, <2>1
<1>5. u.slot = [t.slot EXCEPT ![d] = FREED] /\ Len(u.order) = Len(t.order) - 1
  BY <1>1, <1>2, DeleteFacts
<1>6. t.slot[d].k = key  BY <1>2, KeyIsFound
<1>7. ASSUME NEW j \in 1 .. Len(t.order) - 1
      PROVE  u.slot[u.order[j]] = IF j < i THEN t.slot[t.order[j]]
                                           ELSE t.slot[t.order[j + 1]]
  <2>1. PICK l : IF j < i THEN l = j ELSE l = j + 1  OBVIOUS
  <2>2. l \in 1 .. Len(t.order) /\ l # i
    <3>1. Len(t.order) \in Nat /\ i \in 1 .. Len(t.order)  BY <1>3, <1>4
    <3> QED BY <2>1, <3>1
  <2>3. t.order[l] \in 0 .. t.size - 1 /\ t.order[l] # d
    <3>1. t.order[l] # t.order[i]
      <4>1. IsInjective(t.order) /\ DOMAIN t.order = 1 .. Len(t.order)  BY <1>3
      <4>2. l \in DOMAIN t.order /\ i \in DOMAIN t.order /\ l # i
        BY <1>4, <2>2, <4>1
      <4> QED BY ONLY <4>1, <4>2 DEF IsInjective
    <3>2. t.order[l] \in 0 .. t.size - 1
      <4>1. PICK S : S = 0 .. t.size - 1  OBVIOUS
      <4>2. t.order \in Seq(S) /\ l \in DOMAIN t.order  BY <1>3, <2>2, <4>1
      <4>3. t.order[l] \in S  BY ONLY <4>2
      <4> QED BY <4>1, <4>3
    <3> QED BY <1>4, <3>1, <3>2
  <2>4. u.order[j] = t.order[l]
    <3>1. u.order[j] = IF j < i THEN t.order[j] ELSE t.order[j + 1]  BY <1>4
    <3>2. CASE j < i  BY <2>1, <3>1, <3>2
    <3>3. CASE ~(j < i)  BY <2>1, <3>1, <3>3
    <3> QED BY <3>2, <3>3
  <2>5. u.slot[t.order[l]] = t.slot[t.order[l]]  BY <1>3, <1>5, <2>3
  <2> QED BY <2>1, <2>4, <2>5
<1>8. CutFrom(t, u, i)  BY <1>5, <1>7 DEF CutFrom
<1> QED BY <1>1, <1>3, <1>4, <1>6, <1>8

(* What json_object_object_add promises: the object has the field with the *)
(* new value, behind all the others, which are as before and in the same   *)
(* order, and it can be searched.                                          *)
THEOREM ObjectAddGood ==
  ASSUME NEW t, Good(t), NEW key \in Key, NEW v \in Nat
  PROVE  /\ Good(ObjectAdd(t, key, v))
         /\ Contents(ObjectAdd(t, key, v)) =
              {e \in Contents(t) : e.k # key} \cup {[k |-> key, v |-> v]}
         /\ Prolongs(Delete(t, key), ObjectAdd(t, key, v), key, v)
<1> DEFINE u == Delete(t, key)
           w == Resize(u, 2 * u.size)
           rest == {e \in Contents(t) : e.k # key}
<1>1. /\ Listed(u) /\ u.size = t.size /\ Len(u.order) <= Len(t.order)
      /\ Contents(u) = rest
  BY DeleteLists
<1>2. /\ u \in Table /\ t \in Table /\ Len(t.order) < t.size
      /\ t.size \in Nat /\ t.size >= 3
      /\ Len(t.order) \in Nat /\ Len(u.order) \in Nat
  BY <1>1, TableFacts DEF Good, Listed
<1>3. ObjectAdd(t, key, v) = Place(IF Crowded(u) THEN w ELSE u, key, v)
  BY DEF ObjectAdd, Insert
<1>4. CASE Crowded(u)
  <2> HIDE DEF u, rest
  <2>1. 2 * u.size \in Nat /\ 2 * u.size >= 3 /\ Len(u.order) + 1 < 2 * u.size
        /\ Len(u.order) < 2 * u.size
    BY <1>1, <1>2
  <2>2. /\ Good(w) /\ w.size = 2 * u.size /\ Len(w.order) = Len(u.order)
        /\ Contents(w) = Contents(u)
    BY <1>1, <2>1, ResizeGood
  <2> HIDE DEF w
  <2>3. ~Has(w, key)  BY <1>1, <2>2, GoodIsListed DEF rest
  <2>4. Len(w.order) + 1 < w.size  BY <2>1, <2>2
  <2>5. /\ Good(Place(w, key, v))
        /\ Contents(Place(w, key, v)) = Contents(w) \cup {[k |-> key, v |-> v]}
        /\ Prolongs(w, Place(w, key, v), key, v)
    BY <2>2, <2>3, <2>4, PlaceAbsent
  <2>6. Prolongs(u, Place(w, key, v), key, v)
    <3>1. \A j \in 1 .. Len(u.order) : w.slot[w.order[j]] = u.slot[u.order[j]]
      BY <1>1, <2>1, ResizeGood DEF w
    <3> QED BY <2>2, <2>5, <3>1 DEF Prolongs
  <2> QED BY <1>1, <1>3, <1>4, <2>2, <2>5, <2>6 DEF rest, u
<1>5. CASE ~Crowded(u) /\ ~Has(t, key)
  <2>1. u = t  BY <1>5 DEF Delete
  <2>2. Len(t.order) + 1 < t.size
    <3>1. ~(100 * Len(t.order) > 66 * t.size)  BY <1>5, <2>1 DEF Crowded
    <3> QED BY <1>2, <3>1
  <2>3. /\ Good(Place(t, key, v))
        /\ Contents(Place(t, key, v)) = Contents(t) \cup {[k |-> key, v |-> v]}
        /\ Prolongs(t, Place(t, key, v), key, v)
    BY <1>5, <2>2, PlaceAbsent
  <2> HIDE DEF u, rest
  <2> QED BY <1>1, <1>3, <1>5, <2>1, <2>3 DEF rest, u
<1>6. CASE ~Crowded(u) /\ Has(t, key)
  <2>1. /\ Good(Place(u, key, v))
        /\ Contents(Place(u, key, v)) = Contents(u) \cup {[k |-> key, v |-> v]}
        /\ Prolongs(u, Place(u, key, v), key, v)
    BY <1>6, PlaceAgain
  <2> HIDE DEF u, rest
  <2> QED BY <1>1, <1>3, <1>6, <2>1 DEF rest, u
<1> QED BY <1>4, <1>5, <1>6
-----------------------------------------------------------------------------
(* The memory.  A node holds values by their places.                       *)
Nodes == [type : {"leaf"}, val : Atom \cup Key, refs : Nat]
         \cup [type : {"array"}, val : Seq(Nat), refs : Nat]
         \cup [type : {"object"}, val : Table, refs : Nat]

(* Two sets with a one-to-one function between them.                       *)
LEMMA SameCount ==
  ASSUME NEW S, IsFiniteSet(S), NEW T, NEW f \in [S -> T],
         \A x, y \in S : f[x] = f[y] => x = y,
         \A z \in T : \E x \in S : f[x] = z
  PROVE  IsFiniteSet(T) /\ Cardinality(T) = Cardinality(S)
<1>1. f \in Surjection(S, T)  BY DEF Surjection
<1>2. f \in Injection(S, T)  BY DEF Injection, IsInjective
<1> QED BY <1>1, <1>2, FS_Surjection

(* A set of as many finite sets as a finite set has members.               *)
LEMMA FiniteUnion ==
  ASSUME NEW S, IsFiniteSet(S), NEW f, \A m \in S : IsFiniteSet(f[m])
  PROVE  IsFiniteSet(UNION {f[m] : m \in S})
<1> DEFINE T == {f[m] : m \in S}
           g == [m \in S |-> f[m]]
<1>1. g \in Surjection(S, T)  BY DEF Surjection
<1>2. IsFiniteSet(T)  BY <1>1, FS_Surjection
<1>3. \A x \in T : IsFiniteSet(x)  OBVIOUS
<1> HIDE DEF T
<1>4. IsFiniteSet(UNION T)  BY <1>2, <1>3, FS_UNION
<1> QED BY <1>4 DEF T

(* The values of a node: finitely many, ...                                *)
LEMMA ChildrenFinite ==
  ASSUME NEW node \in Nodes, NEW n
  PROVE  /\ IsFiniteSet(Places(Children(node), n))
         /\ Cardinality(Places(Children(node), n)) \in Nat
<1>1. IsFiniteSet(DOMAIN Children(node))
  <2>1. CASE node.type = "leaf"
    <3> DEFINE none == << >>
    <3>1. Children(node) = none /\ DOMAIN none = {}  BY <2>1 DEF Children
    <3> HIDE DEF none
    <3> QED BY <3>1, FS_EmptySet
  <2>2. CASE node.type = "array"
    <3>1. Children(node) = node.val /\ node.val \in Seq(Nat)
      BY <2>2 DEF Children, Nodes
    <3>2. DOMAIN node.val = 1 .. Len(node.val) /\ Len(node.val) \in Nat
      BY <3>1
    <3> QED BY <3>1, <3>2, CountUpTo
  <2>3. CASE node.type = "object"
    <3>1. node.val \in Table  BY <2>3 DEF Nodes
    <3>2. DOMAIN Children(node) = ToSet(node.val.order)  BY <2>3 DEF Children
    <3>3. ToSet(node.val.order) \subseteq 0 .. node.val.size - 1
      BY <3>1, TableFacts DEF ToSet
    <3>4. IsFiniteSet(0 .. node.val.size - 1)  BY <3>1, TableFacts, CountUpTo
    <3> QED BY <3>2, <3>3, <3>4, FS_Subset
  <2> QED BY <2>1, <2>2, <2>3 DEF Nodes
<1>2. Places(Children(node), n) \in SUBSET (DOMAIN Children(node))
  BY DEF Places
<1> QED BY <1>1, <1>2, FS_Subset, FS_CardinalityType

(* ... and those of the nodes of a set S that are n.                       *)
Pairs(h, S, n) == UNION {{m} \X Places(Children(h[m]), n) : m \in S}

Held(h, S, n) == Cardinality(Pairs(h, S, n))

(* The places of n in the nodes of S, counted.                             *)
LEMMA PairIs ==
  ASSUME NEW h, NEW S, NEW n
  PROVE  Pairs(h, S, n) =
           {p \in Pairs(h, S, n) : /\ p = <<p[1], p[2]>> /\ p[1] \in S
                                   /\ p[2] \in Places(Children(h[p[1]]), n)}
<1> SUFFICES ASSUME NEW p \in Pairs(h, S, n)
             PROVE  /\ p = <<p[1], p[2]>> /\ p[1] \in S
                    /\ p[2] \in Places(Children(h[p[1]]), n)
  OBVIOUS
<1>1. PICK m \in S : p \in {m} \X Places(Children(h[m]), n)  BY DEF Pairs
<1> QED BY <1>1

LEMMA PairsFinite ==
  ASSUME NEW h \in Seq(Nodes), NEW S \in SUBSET DOMAIN h, NEW n
  PROVE  /\ IsFiniteSet(Pairs(h, S, n)) /\ Held(h, S, n) \in Nat
         /\ IsFiniteSet(S)
<1> DEFINE f == [m \in S |-> {m} \X Places(Children(h[m]), n)]
<1>1. IsFiniteSet(S)
  <2>1. DOMAIN h = 1 .. Len(h) /\ Len(h) \in Nat  OBVIOUS
  <2>2. IsFiniteSet(DOMAIN h)  BY <2>1, CountUpTo
  <2> QED BY <2>2, FS_Subset
<1>2. \A m \in S : IsFiniteSet(f[m])
  <2> SUFFICES ASSUME NEW m \in S
               PROVE  IsFiniteSet({m} \X Places(Children(h[m]), n))
    OBVIOUS
  <2>1. h[m] \in Nodes  OBVIOUS
  <2>2. IsFiniteSet({m}) /\ IsFiniteSet(Places(Children(h[m]), n))
    BY <2>1, FS_Singleton, ChildrenFinite
  <2> QED BY <2>2, FS_Product
<1>3. Pairs(h, S, n) = UNION {f[m] : m \in S}  BY DEF Pairs
<1> HIDE DEF f
<1>4. IsFiniteSet(Pairs(h, S, n))  BY <1>1, <1>2, <1>3, FiniteUnion
<1> QED BY <1>1, <1>4, FS_CardinalityType DEF Held

(* What two sets hold that have no node in common.                         *)
LEMMA HeldByBoth ==
  ASSUME NEW h \in Seq(Nodes), NEW S \in SUBSET DOMAIN h,
         NEW T \in SUBSET DOMAIN h, S \cap T = {}, NEW n
  PROVE  Held(h, S \cup T, n) = Held(h, S, n) + Held(h, T, n)
<1> DEFINE A == Pairs(h, S, n)
           B == Pairs(h, T, n)
<1>1. Pairs(h, S \cup T, n) = A \cup B  BY DEF Pairs
<1>2. A \cap B = {}  BY PairIs
<1>3. IsFiniteSet(A) /\ IsFiniteSet(B)
      /\ Cardinality(A) \in Nat /\ Cardinality(B) \in Nat
  BY PairsFinite, FS_CardinalityType
<1> HIDE DEF A, B
<1>4. Cardinality(A \cup B) = Cardinality(A) + Cardinality(B) - Cardinality(A \cap B)
  BY <1>3, FS_Union
<1>5. Cardinality(A \cup B) = Cardinality(A) + Cardinality(B)
  <2>1. Cardinality(A \cap B) = 0  BY <1>2, FS_EmptySet
  <2> QED BY <1>3, <1>4, <2>1
<1>6. Held(h, S \cup T, n) = Cardinality(A \cup B)  BY <1>1 DEF Held
<1>7. Held(h, S, n) = Cardinality(A) /\ Held(h, T, n) = Cardinality(B)
  BY DEF Held, A, B
<1> QED BY <1>5, <1>6, <1>7

(* What one node holds.                                                    *)
LEMMA HeldByOne ==
  ASSUME NEW h \in Seq(Nodes), NEW m \in DOMAIN h, NEW n
  PROVE  Held(h, {m}, n) = Cardinality(Places(Children(h[m]), n))
<1> DEFINE P == Places(Children(h[m]), n)
<1>1. h[m] \in Nodes  OBVIOUS
<1>2. IsFiniteSet(P) /\ Cardinality(P) \in Nat  BY <1>1, ChildrenFinite
<1>3. IsFiniteSet({m}) /\ Cardinality({m}) = 1  BY FS_Singleton
<1>4. Pairs(h, {m}, n) = {m} \X P  BY DEF Pairs
<1> HIDE DEF P
<1>5. Cardinality({m} \X P) = 1 * Cardinality(P)  BY <1>2, <1>3, FS_Product
<1>6. Cardinality({m} \X P) = Cardinality(P)
  <2>1. PICK c2 \in Nat : c2 = Cardinality(P)  BY <1>2
  <2>2. 1 * c2 = c2  BY <2>1
  <2> QED BY <1>5, <2>1, <2>2
<1>7. Held(h, {m}, n) = Cardinality({m} \X P)  BY <1>4 DEF Held
<1> QED BY <1>6, <1>7 DEF P

(* The more nodes, the more they hold.                                     *)
LEMMA HeldByMore ==
  ASSUME NEW h \in Seq(Nodes), NEW S \in SUBSET DOMAIN h, NEW T \in SUBSET S,
         NEW n
  PROVE  Held(h, T, n) <= Held(h, S, n)
<1>1. Pairs(h, T, n) \in SUBSET Pairs(h, S, n)  BY DEF Pairs
<1>2. IsFiniteSet(Pairs(h, S, n))  BY PairsFinite
<1> QED BY <1>1, <1>2, FS_Subset DEF Held

(* Only the values count.                                                  *)
LEMMA HeldAlike ==
  ASSUME NEW h, NEW g, NEW S, NEW n,
         \A m \in S : Children(g[m]) = Children(h[m])
  PROVE  Held(g, S, n) = Held(h, S, n)
<1>1. Pairs(g, S, n) = Pairs(h, S, n)  BY DEF Pairs
<1> QED BY <1>1 DEF Held

LEMMA LostIs ==
  ASSUME NEW h, NEW work, NEW F, NEW n
  PROVE  Lost(h, work, F, n) = Cardinality(Places(work, n)) + Held(h, F, n)
BY DEF Lost, Held, Pairs
-----------------------------------------------------------------------------
(* Who is freed if the nodes of F are.                                     *)
Round(h, work, F) == {n \in DOMAIN h : h[n].refs \in 1 .. Lost(h, work, F, n)}

Work(h, work) == \A n \in DOMAIN h : Cardinality(Places(work, n)) \in Nat

LEMMA LostIsNat ==
  ASSUME NEW h \in Seq(Nodes), NEW work, Work(h, work),
         NEW F \in SUBSET DOMAIN h, NEW n \in DOMAIN h
  PROVE  Lost(h, work, F, n) \in Nat
<1>1. Held(h, F, n) \in Nat /\ Cardinality(Places(work, n)) \in Nat
  BY PairsFinite DEF Work
<1> QED BY <1>1, LostIs

LEMMA RefsAreNat ==
  ASSUME NEW h \in Seq(Nodes), NEW n \in DOMAIN h
  PROVE  h[n].refs \in Nat
<1>1. h[n] \in Nodes  OBVIOUS
<1> QED BY <1>1 DEF Nodes

LEMMA RoundGrows ==
  ASSUME NEW h \in Seq(Nodes), NEW work, Work(h, work),
         NEW G \in SUBSET DOMAIN h, NEW F \in SUBSET G
  PROVE  Round(h, work, F) \subseteq Round(h, work, G)
<1> SUFFICES ASSUME NEW n \in DOMAIN h, h[n].refs \in 1 .. Lost(h, work, F, n)
             PROVE  h[n].refs \in 1 .. Lost(h, work, G, n)
  BY DEF Round
<1>1. Held(h, F, n) <= Held(h, G, n)  BY HeldByMore
<1>2. /\ Held(h, F, n) \in Nat /\ Held(h, G, n) \in Nat
      /\ Cardinality(Places(work, n)) \in Nat
  BY PairsFinite DEF Work
<1>3. Lost(h, work, F, n) <= Lost(h, work, G, n)
      /\ Lost(h, work, F, n) \in Nat /\ Lost(h, work, G, n) \in Nat
  BY <1>1, <1>2, LostIs
<1> QED BY <1>3, RefsAreNat

(* The rounds come to an end: those that are freed are those who lose      *)
(* their last reference when they are.                                     *)
LEMMA FreedIs ==
  ASSUME NEW h \in Seq(Nodes), NEW work, Work(h, work)
  PROVE  /\ Freed(h, work) \subseteq DOMAIN h
         /\ Round(h, work, Freed(h, work)) = Freed(h, work)
         /\ \A F \in SUBSET DOMAIN h :
              Round(h, work, F) = F => Freed(h, work) \subseteq F
<1> DEFINE D == DOMAIN h
           N == Len(h)
           F == [x \in (1 .. N) \X SUBSET D |-> Round(h, work, x[2])]
           Rec(g) == [i \in 0 .. N |-> IF i = 0 THEN {}
                                       ELSE Round(h, work, g[i - 1])]
           f == CHOOSE g : g = Rec(g)
<1>1. N \in Nat /\ D = 1 .. N /\ {} \in SUBSET D  OBVIOUS
<1>2. \A G : Round(h, work, G) \in SUBSET D  BY DEF Round
<1>3. Freed(h, work) = f[N]  BY DEF Freed, Round
<1> HIDE DEF D, N
<1>4. F \in [(1 .. N) \X SUBSET D -> SUBSET D]  BY <1>2
<1>5. \A i \in 1 .. N, G \in SUBSET D : F[<<i, G>>] = Round(h, work, G)
  OBVIOUS
<1> HIDE DEF F
<1>6. PICK g \in [0 .. N -> SUBSET D] : Follows(g, {}, F, N)
  BY <1>1, <1>4, RecursionExists
<1>7. g = Rec(g)
  <2>1. ASSUME NEW i \in 0 .. N, i # 0 PROVE g[i] = Round(h, work, g[i - 1])
    <3>1. i \in 1 .. N /\ i - 1 \in 0 .. N  BY <1>1, <2>1
    <3> QED BY <1>5, <1>6, <3>1 DEF Follows
  <2>2. g[0] = {}  BY <1>6 DEF Follows
  <2> QED BY <1>6, <2>1, <2>2
<1>8. f = Rec(f)
  <2> HIDE DEF Rec
  <2> QED BY <1>7
<1> HIDE DEF f
<1>9. /\ f[0] = {}
      /\ \A i \in Nat : i + 1 <= N => f[i + 1] = Round(h, work, f[i])
  <2>1. 0 \in 0 .. N  BY <1>1
  <2>2. ASSUME NEW i \in Nat, i + 1 <= N PROVE f[i + 1] = Round(h, work, f[i])
    <3>1. i + 1 \in 0 .. N /\ i + 1 # 0 /\ (i + 1) - 1 = i  BY <1>1, <2>2
    <3>2. \A j \in 0 .. N : f[j] = IF j = 0 THEN {} ELSE Round(h, work, f[j - 1])
      BY <1>8
    <3> QED BY <3>1, <3>2
  <2>3. \A j \in 0 .. N : f[j] = IF j = 0 THEN {} ELSE Round(h, work, f[j - 1])
    BY <1>8
  <2> QED BY <2>1, <2>2, <2>3
<1> HIDE DEF Rec
<1>10. ASSUME NEW G \in SUBSET D, Round(h, work, G) = G
       PROVE  f[N] \subseteq G
  <2> DEFINE T == {i \in Nat : i <= N => f[i] \subseteq G}
  <2>1. 0 \in T  BY <1>9
  <2>2. ASSUME NEW i \in Nat, i \in T PROVE i + 1 \in T
    <3> SUFFICES ASSUME i + 1 <= N PROVE f[i + 1] \subseteq G  OBVIOUS
    <3>1. f[i] \subseteq G /\ f[i + 1] = Round(h, work, f[i])
      BY <1>1, <1>9, <2>2
    <3> QED BY <1>10, <3>1, RoundGrows DEF D
  <2> HIDE DEF T
  <2>3. N \in T  BY <1>1, <2>1, <2>2, SetInduction
  <2> QED BY <1>1, <2>3 DEF T
<1>11. \A i \in Nat : i <= N => f[i] \subseteq D /\ f[i] \subseteq Round(h, work, f[i])
  <2> DEFINE T == {i \in Nat : i <= N => /\ f[i] \subseteq D
                                         /\ f[i] \subseteq Round(h, work, f[i])}
  <2>1. 0 \in T  BY <1>9
  <2>2. ASSUME NEW i \in Nat, i \in T PROVE i + 1 \in T
    <3> SUFFICES ASSUME i + 1 <= N
                 PROVE  /\ f[i + 1] \subseteq D
                        /\ f[i + 1] \subseteq Round(h, work, f[i + 1])
      OBVIOUS
    <3>1. f[i] \subseteq Round(h, work, f[i]) /\ f[i + 1] = Round(h, work, f[i])
      BY <1>1, <1>9, <2>2
    <3>2. f[i + 1] \in SUBSET D /\ f[i] \in SUBSET f[i + 1]  BY <1>2, <3>1
    <3>3. Round(h, work, f[i]) \subseteq Round(h, work, f[i + 1])
      BY <3>2, RoundGrows DEF D
    <3> QED BY <3>1, <3>2, <3>3
  <2> HIDE DEF T
  <2>3. Nat \subseteq T  BY <2>1, <2>2, SetInduction
  <2> QED BY <2>3 DEF T
<1>12. IsFiniteSet(D) /\ Cardinality(D) = N
       /\ \A G \in SUBSET D : IsFiniteSet(G) /\ Cardinality(G) \in Nat
  <2>1. IsFiniteSet(D) /\ Cardinality(D) = N  BY <1>1, CountUpTo
  <2> QED BY <2>1, FS_Subset, FS_CardinalityType
<1>13. Round(h, work, f[N]) = f[N] \/ Cardinality(f[N]) >= N
  <2> DEFINE T == {i \in Nat : i <= N => \/ Round(h, work, f[i]) = f[i]
                                         \/ Cardinality(f[i]) >= i}
  <2>1. 0 \in T  BY <1>9, <1>11, <1>12
  <2>2. ASSUME NEW i \in Nat, i \in T PROVE i + 1 \in T
    <3> SUFFICES ASSUME i + 1 <= N
                 PROVE  \/ Round(h, work, f[i + 1]) = f[i + 1]
                        \/ Cardinality(f[i + 1]) >= i + 1
      OBVIOUS
    <3>1. /\ f[i + 1] = Round(h, work, f[i]) /\ f[i] \subseteq f[i + 1]
          /\ f[i + 1] \in SUBSET D /\ f[i] \in SUBSET D /\ i <= N
      BY <1>1, <1>2, <1>9, <1>11
    <3>2. CASE f[i + 1] = f[i]  BY <3>1, <3>2
    <3>3. CASE f[i + 1] # f[i]
      <4>1. Cardinality(f[i]) >= i  BY <2>2, <3>1, <3>3
      <4>2. /\ IsFiniteSet(f[i + 1]) /\ f[i] \in SUBSET f[i + 1]
            /\ Cardinality(f[i]) \in Nat /\ Cardinality(f[i + 1]) \in Nat
        BY <1>12, <3>1
      <4>3. /\ Cardinality(f[i]) <= Cardinality(f[i + 1])
            /\ Cardinality(f[i]) # Cardinality(f[i + 1])
        BY <3>3, <4>2, FS_Subset
      <4> QED BY <4>1, <4>2, <4>3
    <3> QED BY <3>2, <3>3
  <2> HIDE DEF T
  <2>3. N \in T  BY <1>1, <2>1, <2>2, SetInduction
  <2> QED BY <1>1, <2>3 DEF T
<1>14. Round(h, work, f[N]) = f[N]
  <2>1. /\ f[N] \in SUBSET D /\ f[N] \subseteq Round(h, work, f[N])
        /\ Round(h, work, f[N]) \in SUBSET D
    BY <1>1, <1>2, <1>11
  <2>2. ASSUME Cardinality(f[N]) >= N PROVE f[N] = D
    <3>1. Cardinality(f[N]) <= Cardinality(D)
          /\ (Cardinality(f[N]) = Cardinality(D) => f[N] = D)
          /\ Cardinality(f[N]) \in Nat
      BY <1>12, <2>1, FS_Subset
    <3> QED BY <1>1, <1>12, <2>2, <3>1
  <2> QED BY <1>13, <2>1, <2>2
<1> QED BY <1>1, <1>3, <1>10, <1>11, <1>14 DEF D
-----------------------------------------------------------------------------
(* A node with another count is a node with the same values.               *)
LEMMA Recounted ==
  ASSUME NEW node \in Nodes, NEW r \in Nat, NEW other,
         other = [node EXCEPT !.refs = r]
  PROVE  /\ other \in Nodes /\ other.refs = r
         /\ other.type = node.type /\ other.val = node.val
         /\ Children(other) = Children(node)
<1>1. /\ other.refs = r /\ other.type = node.type /\ other.val = node.val
      /\ other \in Nodes
  <2>1. CASE node \in [type : {"leaf"}, val : Atom \cup Key, refs : Nat]
    BY <2>1 DEF Nodes
  <2>2. CASE node \in [type : {"array"}, val : Seq(Nat), refs : Nat]
    BY <2>2 DEF Nodes
  <2>3. CASE node \in [type : {"object"}, val : Table, refs : Nat]
    BY <2>3 DEF Nodes
  <2> QED BY <2>1, <2>2, <2>3 DEF Nodes
<1> QED BY <1>1 DEF Children

Alive(h) == {n \in DOMAIN h : h[n].refs > 0}

(* The counts of h are right if besides the nodes in use somebody has      *)
(* owners[n] references to each n.                                         *)
Balanced(h, owners) ==
  \A n \in DOMAIN h : h[n].refs = owners[n] + Held(h, Alive(h), n)

(* Giving references up leaves the counts right, and nothing freed that    *)
(* somebody still has.                                                     *)
LEMMA PutsBalance ==
  ASSUME NEW h \in Seq(Nodes), NEW work, Work(h, work),
         NEW owners \in [DOMAIN h -> Nat],
         Balanced(h, [n \in DOMAIN h |-> owners[n] + Cardinality(Places(work, n))])
  PROVE  /\ Puts(h, work) \in Seq(Nodes) /\ Len(Puts(h, work)) = Len(h)
         /\ \A n \in DOMAIN h : /\ Puts(h, work)[n].type = h[n].type
                                /\ Puts(h, work)[n].val = h[n].val
                                /\ Children(Puts(h, work)[n]) = Children(h[n])
         /\ Balanced(Puts(h, work), owners)
         /\ Alive(Puts(h, work)) = Alive(h) \ Freed(h, work)
         /\ \A n \in DOMAIN h : owners[n] > 0 => n \notin Freed(h, work)
<1> DEFINE D == DOMAIN h
           A == Alive(h)
           F == Freed(h, work)
           W(n) == Cardinality(Places(work, n))
           L(n) == Lost(h, work, F, n)
           g == Puts(h, work)
<1>1. /\ D = 1 .. Len(h) /\ Len(h) \in Nat
      /\ \A n \in D : h[n] \in Nodes /\ h[n].refs \in Nat
  BY RefsAreNat
<1>2. /\ F \in SUBSET D /\ A \in SUBSET D
      /\ \A n \in D : n \in F <=> h[n].refs \in 1 .. L(n)
  BY FreedIs DEF Round, Alive
<1>3. g = [n \in D |-> [h[n] EXCEPT !.refs = @ - L(n)]]  BY DEF Puts
<1>4. \A n \in D : n \in A <=> h[n].refs > 0  BY DEF Alive
<1>5. \A n \in D : /\ owners[n] \in Nat /\ W(n) \in Nat /\ L(n) \in Nat
                   /\ L(n) = W(n) + Held(h, F, n)
                   /\ Held(h, F, n) \in Nat /\ Held(h, A, n) \in Nat
                   /\ h[n].refs = (owners[n] + W(n)) + Held(h, A, n)
  BY <1>2, LostIs, LostIsNat, PairsFinite DEF Balanced, Work
<1> HIDE DEF A, F, W, L, g
<1>6. F \subseteq A
  <2> SUFFICES ASSUME NEW n \in F PROVE n \in A  OBVIOUS
  <2>1. n \in D /\ h[n].refs \in Nat /\ L(n) \in Nat /\ h[n].refs \in 1 .. L(n)
    BY <1>1, <1>2, <1>5
  <2>2. h[n].refs > 0  BY <2>1
  <2> QED BY <1>4, <2>1, <2>2
<1>7. \A n \in D : /\ Held(h, A, n) = Held(h, F, n) + Held(h, A \ F, n)
                   /\ Held(h, A \ F, n) \in Nat
  <2> SUFFICES ASSUME NEW n \in D
               PROVE  /\ Held(h, A, n) = Held(h, F, n) + Held(h, A \ F, n)
                      /\ Held(h, A \ F, n) \in Nat
    OBVIOUS
  <2>1. A = F \cup (A \ F) /\ F \cap (A \ F) = {} /\ A \ F \in SUBSET D
    BY <1>2, <1>6
  <2>2. Held(h, F \cup (A \ F), n) = Held(h, F, n) + Held(h, A \ F, n)
    BY <1>2, <2>1, HeldByBoth
  <2>3. Held(h, A \ F, n) \in Nat  BY <2>1, PairsFinite
  <2> QED BY <2>1, <2>2, <2>3
<1>8. \A n \in D : h[n].refs - L(n) = owners[n] + Held(h, A \ F, n)
  <2> SUFFICES ASSUME NEW n \in D
               PROVE  h[n].refs - L(n) = owners[n] + Held(h, A \ F, n)
    OBVIOUS
  <2>1. /\ owners[n] \in Nat /\ W(n) \in Nat /\ L(n) = W(n) + Held(h, F, n)
        /\ Held(h, F, n) \in Nat /\ Held(h, A \ F, n) \in Nat
        /\ h[n].refs = (owners[n] + W(n)) + Held(h, A, n)
        /\ Held(h, A, n) = Held(h, F, n) + Held(h, A \ F, n)
    BY <1>5, <1>7
  <2> QED BY <2>1
<1>9. \A n \in D : /\ h[n].refs - L(n) \in Nat
                   /\ g[n] = [h[n] EXCEPT !.refs = h[n].refs - L(n)]
  <2>1. \A n \in D : g[n] = [h[n] EXCEPT !.refs = h[n].refs - L(n)]  BY <1>3
  <2> QED BY <1>5, <1>7, <1>8, <2>1
<1>10. \A n \in D : /\ g[n] \in Nodes /\ g[n].refs = h[n].refs - L(n)
                    /\ g[n].type = h[n].type /\ g[n].val = h[n].val
                    /\ Children(g[n]) = Children(h[n])
  <2> SUFFICES ASSUME NEW n \in D
               PROVE  /\ g[n] \in Nodes /\ g[n].refs = h[n].refs - L(n)
                      /\ g[n].type = h[n].type /\ g[n].val = h[n].val
                      /\ Children(g[n]) = Children(h[n])
    OBVIOUS
  <2>1. PICK r \in Nat : r = h[n].refs - L(n)  BY <1>9
  <2>2. h[n] \in Nodes /\ g[n] = [h[n] EXCEPT !.refs = r]  BY <1>1, <1>9, <2>1
  <2> QED BY <2>1, <2>2, Recounted
<1>11. g \in Seq(Nodes) /\ Len(g) = Len(h) /\ DOMAIN g = D
  <2>1. DOMAIN g = D  BY <1>3
  <2>2. g = [n \in 1 .. Len(h) |-> g[n]]  BY <1>1, <1>3, <2>1
  <2>3. \A n \in 1 .. Len(h) : g[n] \in Nodes  BY <1>1, <1>10
  <2> QED BY <1>1, <2>1, <2>2, <2>3
<1>12. Alive(g) = A \ F
  <2>1. \A n \in D : g[n].refs > 0 <=> n \in A \ F
    <3> SUFFICES ASSUME NEW n \in D PROVE g[n].refs > 0 <=> n \in A \ F
      OBVIOUS
    <3>1. /\ h[n].refs \in Nat /\ L(n) \in Nat
          /\ n \in A <=> h[n].refs > 0
          /\ n \in F <=> h[n].refs \in 1 .. L(n)
          /\ g[n].refs = h[n].refs - L(n)
          /\ h[n].refs - L(n) \in Nat
      BY <1>1, <1>2, <1>4, <1>5, <1>9, <1>10
    <3>2. h[n].refs - L(n) > 0 <=> h[n].refs > 0 /\ ~(h[n].refs \in 1 .. L(n))
      BY <3>1
    <3> QED BY <3>1, <3>2
  <2>2. A \subseteq D  BY <1>2
  <2> QED BY <1>11, <2>1, <2>2 DEF Alive
<1>13. Balanced(g, owners)
  <2> SUFFICES ASSUME NEW n \in D
               PROVE  g[n].refs = owners[n] + Held(g, A \ F, n)
    BY <1>11, <1>12 DEF Balanced
  <2>1. \A m \in A \ F : Children(g[m]) = Children(h[m])  BY <1>2, <1>10
  <2>2. Held(g, A \ F, n) = Held(h, A \ F, n)  BY <2>1, HeldAlike
  <2> QED BY <1>8, <1>10, <2>2
<1>14. \A n \in D : owners[n] > 0 => n \notin F
  <2> SUFFICES ASSUME NEW n \in D, owners[n] > 0 PROVE n \notin F  OBVIOUS
  <2>1. /\ h[n].refs \in Nat /\ L(n) \in Nat /\ owners[n] \in Nat
        /\ n \in F <=> h[n].refs \in 1 .. L(n)
        /\ h[n].refs - L(n) = owners[n] + Held(h, A \ F, n)
        /\ Held(h, A \ F, n) \in Nat
    BY <1>1, <1>2, <1>5, <1>7, <1>8
  <2>2. ~(h[n].refs \in 1 .. L(n))  BY <2>1
  <2> QED BY <2>1, <2>2
<1> QED BY <1>10, <1>11, <1>12, <1>13, <1>14 DEF A, F, g
-----------------------------------------------------------------------------
(* One, if a node is another.                                              *)
If(b) == IF b THEN 1 ELSE 0

(* Only one node in use gets other values.                                 *)
LEMMA OneChanges ==
  ASSUME NEW h \in Seq(Nodes), NEW g \in Seq(Nodes), Len(g) = Len(h),
         NEW o \in Alive(h),
         \A m \in DOMAIN h : /\ g[m].refs = h[m].refs
                             /\ m # o => Children(g[m]) = Children(h[m]),
         NEW n
  PROVE  /\ Alive(g) = Alive(h)
         /\ Held(g, Alive(g), n) + Cardinality(Places(Children(h[o]), n))
              = Held(h, Alive(h), n) + Cardinality(Places(Children(g[o]), n))
<1> DEFINE A == Alive(h)
           B == A \ {o}
<1>1. DOMAIN g = DOMAIN h  OBVIOUS
<1>2. Alive(g) = A  BY <1>1 DEF Alive
<1>3. /\ A \in SUBSET DOMAIN h /\ B \in SUBSET DOMAIN h
      /\ {o} \in SUBSET DOMAIN h /\ o \in DOMAIN h
      /\ A = B \cup {o} /\ B \cap {o} = {}
  BY DEF Alive
<1> HIDE DEF A
<1>4. \A m \in B : Children(g[m]) = Children(h[m])  BY <1>3
<1> HIDE DEF B
<1>5. Held(h, A, n) = Held(h, B, n) + Held(h, {o}, n)
      /\ Held(g, A, n) = Held(g, B, n) + Held(g, {o}, n)
  <2>1. Held(h, B \cup {o}, n) = Held(h, B, n) + Held(h, {o}, n)
    BY <1>3, HeldByBoth
  <2>2. Held(g, B \cup {o}, n) = Held(g, B, n) + Held(g, {o}, n)
    BY <1>1, <1>3, HeldByBoth
  <2> QED BY <1>3, <2>1, <2>2
<1>6. Held(g, B, n) = Held(h, B, n)  BY <1>4, HeldAlike
<1>7. Held(h, {o}, n) = Cardinality(Places(Children(h[o]), n))
      /\ Held(g, {o}, n) = Cardinality(Places(Children(g[o]), n))
  BY <1>1, <1>3, HeldByOne
<1>8. Held(h, B, n) \in Nat /\ Held(h, {o}, n) \in Nat /\ Held(g, {o}, n) \in Nat
  BY <1>1, <1>3, PairsFinite
<1>9. Held(g, A, n) + Held(h, {o}, n) = Held(h, A, n) + Held(g, {o}, n)
  BY <1>5, <1>6, <1>8
<1> QED BY <1>2, <1>7, <1>9 DEF A

(* A value more in an array.                                               *)
LEMMA OneMoreItem ==
  ASSUME NEW s \in Seq(Nat), NEW v \in Nat, NEW n
  PROVE  Cardinality(Places(Append(s, v), n)) = Cardinality(Places(s, n)) + If(v = n)
<1> DEFINE u == Append(s, v)
           N == Len(s)
           P == Places(s, n)
<1>1. /\ N \in Nat /\ DOMAIN s = 1 .. N /\ DOMAIN u = 1 .. N + 1
      /\ u[N + 1] = v /\ \A i \in 1 .. N : u[i] = s[i]
  OBVIOUS
<1> HIDE DEF u, N
<1>2. Places(u, n) = IF v = n THEN P \cup {N + 1} ELSE P
  <2>1. \A i : i \in 1 .. N + 1 <=> i \in 1 .. N \/ i = N + 1  BY <1>1
  <2>2. N + 1 \notin 1 .. N  BY <1>1
  <2> QED BY <1>1, <2>1, <2>2 DEF Places
<1>3. N + 1 \notin P  BY <1>1 DEF Places
<1>4. IsFiniteSet(P) /\ Cardinality(P) \in Nat
  <2>1. P \in SUBSET (1 .. N)  BY <1>1 DEF Places
  <2> QED BY <1>1, <2>1, CountUpTo, FS_Subset, FS_CardinalityType
<1> HIDE DEF P
<1>5. Cardinality(P \cup {N + 1}) = Cardinality(P) + 1
  BY <1>3, <1>4, FS_AddElement
<1> QED BY <1>2, <1>4, <1>5 DEF If, P, u

(* The fields of an object that have the value n.                          *)
With(C, n) == {e \in C : e.v = n}

LEMMA FieldsAreEntries ==
  ASSUME NEW node \in Nodes, node.type = "object", Listed(node.val), NEW n
  PROVE  /\ IsFiniteSet(With(Contents(node.val), n))
         /\ Cardinality(With(Contents(node.val), n)) \in Nat
         /\ Cardinality(Places(Children(node), n)) =
              Cardinality(With(Contents(node.val), n))
<1> DEFINE t == node.val
           P == Places(Children(node), n)
           T == With(Contents(t), n)
           f == [m \in P |-> t.slot[m]]
<1>1. /\ \A m \in ToSet(t.order) : t.slot[m] \in Entry
      /\ \A m, l \in ToSet(t.order) : t.slot[m].k = t.slot[l].k => m = l
  BY DEF Listed
<1>2. Children(node) = [m \in ToSet(t.order) |-> t.slot[m].v]  BY DEF Children
<1>3. P = {m \in ToSet(t.order) : t.slot[m].v = n}  BY <1>2 DEF Places
<1>4. IsFiniteSet(P)  BY ChildrenFinite
<1>5. T = {t.slot[m] : m \in P}  BY <1>3 DEF With, Contents
<1> HIDE DEF P, T
<1>6. f \in [P -> T] /\ \A z \in T : \E m \in P : f[m] = z  BY <1>5
<1>7. \A m, l \in P : f[m] = f[l] => m = l  BY <1>1, <1>3
<1> HIDE DEF f
<1>8. IsFiniteSet(T) /\ Cardinality(T) = Cardinality(P)
  BY <1>4, <1>6, <1>7, SameCount
<1> QED BY <1>8, FS_CardinalityType DEF P, T

(* The field of a key counts for itself.                                   *)
LEMMA OneMoreField ==
  ASSUME NEW C, NEW n, IsFiniteSet(With(C, n)), NEW e, e \notin C
  PROVE  Cardinality(With(C \cup {e}, n)) = Cardinality(With(C, n)) + If(e.v = n)
<1> DEFINE S == With(C, n)
<1>1. With(C \cup {e}, n) = IF e.v = n THEN S \cup {e} ELSE S  BY DEF With
<1>2. e \notin S  BY DEF With
<1>3. Cardinality(S) \in Nat  BY FS_CardinalityType
<1> HIDE DEF S
<1>4. IsFiniteSet(S)  BY DEF S
<1>5. Cardinality(S \cup {e}) = Cardinality(S) + 1
  BY <1>2, <1>4, FS_AddElement
<1> QED BY <1>1, <1>3, <1>5 DEF If, S
-----------------------------------------------------------------------------
(* The memory between two steps: the tables of the objects are good and    *)
(* the values are places of nodes, or Null.                                *)
HeapOK(h) ==
  /\ h \in Seq(Nodes)
  /\ \A m \in DOMAIN h :
       /\ h[m].type = "object" => Good(h[m].val)
       /\ \A k \in DOMAIN Children(h[m]) : Children(h[m])[k] \in 0 .. Len(h)

SameTypes(h, g) ==
  Len(g) = Len(h) /\ \A m \in DOMAIN h : g[m].type = h[m].type

LEMMA HeapFacts ==
  ASSUME NEW h, HeapOK(h)
  PROVE  /\ h \in Seq(Nodes) /\ Len(h) \in Nat /\ DOMAIN h = 1 .. Len(h)
         /\ \A m \in DOMAIN h : h[m] \in Nodes /\ h[m].refs \in Nat
<1>1. h \in Seq(Nodes)  BY DEF HeapOK
<1> QED BY <1>1, RefsAreNat

LEMMA SameValues ==
  ASSUME NEW h, HeapOK(h), NEW g \in Seq(Nodes), Len(g) = Len(h),
         \A m \in DOMAIN h : g[m].type = h[m].type /\ g[m].val = h[m].val
  PROVE  /\ HeapOK(g) /\ SameTypes(h, g)
         /\ \A m \in DOMAIN h : Children(g[m]) = Children(h[m])
<1>1. DOMAIN g = DOMAIN h  BY HeapFacts
<1>2. \A m \in DOMAIN h : Children(g[m]) = Children(h[m])  BY DEF Children
<1>3. HeapOK(g)  BY <1>1, <1>2 DEF HeapOK
<1> QED BY <1>2, <1>3 DEF SameTypes

(* json_object_get of a node that somebody has.                            *)
LEMMA GetBalances ==
  ASSUME NEW h, HeapOK(h), NEW n \in 0 .. Len(h),
         NEW owners \in [DOMAIN h -> Nat], Balanced(h, owners),
         n # Null => owners[n] > 0
  PROVE  /\ HeapOK(Get(h, n)) /\ SameTypes(h, Get(h, n))
         /\ Balanced(Get(h, n), [m \in DOMAIN h |-> owners[m] + If(m = n)])
<1> DEFINE g == Get(h, n)
           o == [m \in DOMAIN h |-> owners[m] + If(m = n)]
<1>1. /\ h \in Seq(Nodes) /\ Len(h) \in Nat /\ DOMAIN h = 1 .. Len(h)
      /\ \A m \in DOMAIN h : h[m] \in Nodes /\ h[m].refs \in Nat
  BY HeapFacts
<1>2. CASE n = Null
  <2>1. g = h  BY <1>2 DEF Get
  <2>2. \A m \in DOMAIN h : o[m] = owners[m]  BY <1>1, <1>2 DEF If, Null
  <2>3. Balanced(h, o)  BY <2>2 DEF Balanced
  <2> QED BY <1>1, <2>1, <2>3 DEF SameTypes
<1>3. CASE n # Null
  <2>1. n \in DOMAIN h  BY <1>1, <1>3 DEF Null
  <2>2. /\ g = [h EXCEPT ![n].refs = @ + 1]  BY <1>3 DEF Get
  <2>3. PICK r \in Nat : r = h[n].refs + 1  BY <1>1, <2>1
  <2>4. /\ DOMAIN g = DOMAIN h
        /\ \A m \in DOMAIN h : m # n => g[m] = h[m]
        /\ g[n] = [h[n] EXCEPT !.refs = r]
    BY <2>1, <2>2, <2>3
  <2> HIDE DEF g
  <2>5. /\ g[n] \in Nodes /\ g[n].refs = r
        /\ g[n].type = h[n].type /\ g[n].val = h[n].val
    BY <1>1, <2>1, <2>4, Recounted
  <2>6. \A m \in DOMAIN h : /\ g[m] \in Nodes
                            /\ g[m].refs = h[m].refs + If(m = n)
                            /\ g[m].type = h[m].type /\ g[m].val = h[m].val
    <3> SUFFICES ASSUME NEW m \in DOMAIN h
                 PROVE  /\ g[m] \in Nodes
                        /\ g[m].refs = h[m].refs + If(m = n)
                        /\ g[m].type = h[m].type /\ g[m].val = h[m].val
      OBVIOUS
    <3>1. CASE m = n  BY <2>3, <2>5, <3>1 DEF If
    <3>2. CASE m # n
      <4>1. g[m] = h[m] /\ h[m] \in Nodes /\ h[m].refs \in Nat
        BY <1>1, <2>4, <3>2
      <4>2. h[m].refs + 0 = h[m].refs  BY <4>1
      <4> QED BY <3>2, <4>1, <4>2 DEF If
    <3> QED BY <3>1, <3>2
  <2>7. g \in Seq(Nodes) /\ Len(g) = Len(h)
    <3>1. g = [m \in 1 .. Len(h) |-> g[m]]  BY <1>1, <2>2, <2>4 DEF g
    <3>2. \A m \in 1 .. Len(h) : g[m] \in Nodes  BY <1>1, <2>6
    <3> QED BY <1>1, <3>1, <3>2
  <2>8. HeapOK(g) /\ SameTypes(h, g)
        /\ \A m \in DOMAIN h : Children(g[m]) = Children(h[m])
    BY <2>6, <2>7, SameValues
  <2>9. Alive(g) = Alive(h) /\ Alive(h) \subseteq DOMAIN h
    <3>1. h[n].refs > 0
      <4>1. h[n].refs = owners[n] + Held(h, Alive(h), n)  BY <2>1 DEF Balanced
      <4>2. Held(h, Alive(h), n) \in Nat  BY <1>1, PairsFinite DEF Alive
      <4> QED BY <1>3, <2>1, <4>1, <4>2
    <3>2. \A m \in DOMAIN h : g[m].refs > 0 <=> h[m].refs > 0
      BY <1>1, <2>6, <3>1 DEF If
    <3> QED BY <2>4, <3>2 DEF Alive
  <2>10. Balanced(g, o)
    <3> SUFFICES ASSUME NEW m \in DOMAIN h
                 PROVE  g[m].refs = o[m] + Held(g, Alive(h), m)
      BY <2>4, <2>9 DEF Balanced
    <3>1. Held(g, Alive(h), m) = Held(h, Alive(h), m)  BY <2>8, <2>9, HeldAlike
    <3>2. Held(h, Alive(h), m) \in Nat  BY <1>1, <2>9, PairsFinite
    <3>3. h[m].refs = owners[m] + Held(h, Alive(h), m)  BY DEF Balanced
    <3> QED BY <2>6, <3>1, <3>2, <3>3 DEF If
  <2> QED BY <2>8, <2>10 DEF g
<1> QED BY <1>2, <1>3

(* json_object_put of a list of nodes.                                     *)
LEMMA PutsBalances ==
  ASSUME NEW h, HeapOK(h), NEW work, Work(h, work),
         NEW owners \in [DOMAIN h -> Nat],
         Balanced(h, [n \in DOMAIN h |-> owners[n] + Cardinality(Places(work, n))])
  PROVE  /\ HeapOK(Puts(h, work)) /\ SameTypes(h, Puts(h, work))
         /\ Balanced(Puts(h, work), owners)
<1>1. h \in Seq(Nodes)  BY DEF HeapOK
<1> QED BY <1>1, PutsBalance, SameValues

(* A new node without values, which somebody has.                          *)
LEMMA NewBalances ==
  ASSUME NEW h, HeapOK(h), NEW node \in Nodes, node.refs = 1,
         DOMAIN Children(node) = {},
         node.type = "object" => Good(node.val),
         NEW owners \in [DOMAIN h -> Nat], Balanced(h, owners)
  PROVE  LET g == Append(h, node)
         IN  /\ HeapOK(g) /\ Len(g) = Len(h) + 1
             /\ g[Len(h) + 1] = node
             /\ \A m \in DOMAIN h : g[m].type = h[m].type
             /\ Balanced(g, [m \in DOMAIN g |-> IF m = Len(h) + 1 THEN 1
                                                ELSE owners[m]])
<1> DEFINE g == Append(h, node)
           N == Len(h) + 1
           A == Alive(h)
<1>1. /\ h \in Seq(Nodes) /\ Len(h) \in Nat /\ DOMAIN h = 1 .. Len(h)
      /\ \A m \in DOMAIN h : h[m] \in Nodes /\ h[m].refs \in Nat
  BY HeapFacts
<1>2. /\ g \in Seq(Nodes) /\ Len(g) = N /\ DOMAIN g = 1 .. N
      /\ g[N] = node /\ \A m \in DOMAIN h : g[m] = h[m]
  BY <1>1
<1>3. N \in DOMAIN g /\ DOMAIN g = DOMAIN h \cup {N} /\ N \notin DOMAIN h
  BY <1>1, <1>2
<1> HIDE DEF g
<1>4. HeapOK(g)
  <2>1. 0 .. Len(h) \subseteq 0 .. Len(g)  BY <1>1, <1>2
  <2>2. ASSUME NEW m \in DOMAIN g
        PROVE  /\ g[m].type = "object" => Good(g[m].val)
               /\ \A k \in DOMAIN Children(g[m]) : Children(g[m])[k] \in 0 .. Len(g)
    <3>1. CASE m = N  BY <1>2, <3>1
    <3>2. CASE m \in DOMAIN h  BY <1>2, <2>1, <3>2 DEF HeapOK
    <3> QED BY <1>3, <3>1, <3>2
  <2> QED BY <1>2, <2>2 DEF HeapOK
<1>5. Alive(g) = A \cup {N}  BY <1>2, <1>3 DEF Alive
<1>6. A \in SUBSET DOMAIN h /\ A \in SUBSET DOMAIN g /\ A \cap {N} = {}
      /\ {N} \in SUBSET DOMAIN g
  BY <1>3 DEF Alive
<1> HIDE DEF A
<1>7. ASSUME NEW n PROVE Held(g, A \cup {N}, n) = Held(h, A, n)
  <2>1. Held(g, A \cup {N}, n) = Held(g, A, n) + Held(g, {N}, n)
    BY <1>2, <1>6, HeldByBoth
  <2>2. Held(g, {N}, n) = 0
    <3>1. Held(g, {N}, n) = Cardinality(Places(Children(g[N]), n))
      BY <1>2, <1>3, HeldByOne
    <3>2. Places(Children(g[N]), n) = {}  BY <1>2 DEF Places
    <3> QED BY <3>1, <3>2, FS_EmptySet
  <2>3. Held(g, A, n) = Held(h, A, n)  BY <1>2, <1>6, HeldAlike
  <2>4. Held(h, A, n) \in Nat  BY <1>1, <1>6, PairsFinite
  <2> QED BY <2>1, <2>2, <2>3, <2>4
<1>8. Held(h, A, N) = 0
  <2>1. Pairs(h, A, N) = {}
    <3>1. ASSUME NEW p \in Pairs(h, A, N) PROVE FALSE
      <4>1. p[1] \in A /\ p[2] \in Places(Children(h[p[1]]), N)
        BY <3>1, PairIs
      <4>2. Children(h[p[1]])[p[2]] = N /\ p[2] \in DOMAIN Children(h[p[1]])
        BY <4>1 DEF Places
      <4>3. N \in 0 .. Len(h)  BY <1>6, <4>1, <4>2 DEF HeapOK
      <4> QED BY <1>1, <4>3
    <3> QED BY <3>1
  <2> QED BY <2>1, FS_EmptySet DEF Held
<1>9. Balanced(g, [m \in DOMAIN g |-> IF m = N THEN 1 ELSE owners[m]])
  <2> SUFFICES ASSUME NEW m \in DOMAIN g
               PROVE  g[m].refs = (IF m = N THEN 1 ELSE owners[m])
                                  + Held(g, A \cup {N}, m)
    BY <1>5 DEF Balanced
  <2>1. CASE m = N
    <3>1. Held(g, A \cup {N}, N) = 0  BY <1>7, <1>8
    <3>2. g[N].refs = 1  BY <1>2
    <3> QED BY <2>1, <3>1, <3>2
  <2>2. CASE m # N
    <3>1. m \in DOMAIN h  BY <1>3, <2>2
    <3>2. h[m].refs = owners[m] + Held(h, A, m)  BY <3>1 DEF Balanced, A
    <3> QED BY <1>2, <1>7, <2>2, <3>1, <3>2
  <2> QED BY <2>1, <2>2
<1> QED BY <1>2, <1>4, <1>9 DEF g
-----------------------------------------------------------------------------
(* One node gets another value.                                            *)
LEMMA OneRevalued ==
  ASSUME NEW h \in Seq(Nodes), NEW o \in DOMAIN h, NEW node \in Nodes, NEW g,
         node.refs = h[o].refs, node.type = h[o].type,
         DOMAIN g = DOMAIN h, g = [m \in DOMAIN g |-> g[m]], g[o] = node,
         \A m \in DOMAIN h : m # o => g[m] = h[m]
  PROVE  /\ g \in Seq(Nodes) /\ SameTypes(h, g)
         /\ \A m \in DOMAIN h : g[m].refs = h[m].refs
<1>1. /\ Len(h) \in Nat /\ DOMAIN h = 1 .. Len(h)
      /\ \A m \in DOMAIN h : h[m] \in Nodes
  OBVIOUS
<1>2. \A m \in DOMAIN h : /\ g[m] \in Nodes /\ g[m].refs = h[m].refs
                          /\ g[m].type = h[m].type
  BY <1>1
<1>3. g \in Seq(Nodes) /\ Len(g) = Len(h)  BY <1>1, <1>2
<1> QED BY <1>2, <1>3 DEF SameTypes

(* json_object_array_add: the array has the reference that the way had.    *)
LEMMA ArrayAddBalances ==
  ASSUME NEW h, HeapOK(h), NEW o \in DOMAIN h, h[o].type = "array",
         NEW v \in 0 .. Len(h),
         NEW owners \in [DOMAIN h -> Nat], owners[o] > 0,
         Balanced(h, [m \in DOMAIN h |-> owners[m] + If(v = m)]),
         NEW g, g = [h EXCEPT ![o].val = Append(@, v)]
  PROVE  HeapOK(g) /\ SameTypes(h, g) /\ Balanced(g, owners)
<1>1. /\ h \in Seq(Nodes) /\ Len(h) \in Nat /\ DOMAIN h = 1 .. Len(h)
      /\ h[o] \in Nodes /\ h[o].refs \in Nat /\ v \in Nat
  BY HeapFacts
<1>2. PICK s \in Seq(Nat) : s = h[o].val  BY <1>1 DEF Nodes
<1>3. PICK w \in Seq(Nat) : w = Append(s, v)
  <2>1. Append(s, v) \in Seq(Nat)  BY <1>1
  <2> QED BY ONLY <2>1, Zenon
<1>4. g = [h EXCEPT ![o].val = w]  BY <1>1, <1>2, <1>3
<1>5. /\ g \in Seq(Nodes) /\ SameTypes(h, g) /\ DOMAIN g = DOMAIN h
      /\ g[o].val = w
      /\ \A m \in DOMAIN h : /\ g[m].refs = h[m].refs
                             /\ g[m].type = h[m].type
                             /\ m # o => g[m] = h[m]
  <2>1. PICK node \in Nodes : /\ node = [h[o] EXCEPT !.val = w]
                              /\ node.refs = h[o].refs
                              /\ node.type = "array" /\ node.val = w
    <3> DEFINE node == [h[o] EXCEPT !.val = w]
    <3>1. /\ node \in Nodes /\ node.refs = h[o].refs
          /\ node.type = "array" /\ node.val = w
      BY <1>1 DEF Nodes
    <3> QED BY <3>1
  <2>2. /\ DOMAIN g = DOMAIN h /\ g = [m \in DOMAIN g |-> g[m]]
        /\ g[o] = node
        /\ \A m \in DOMAIN h : m # o => g[m] = h[m]
    BY <1>1, <1>4, <2>1
  <2>3. /\ g \in Seq(Nodes) /\ SameTypes(h, g)
        /\ \A m \in DOMAIN h : g[m].refs = h[m].refs
    <3>1. node.type = h[o].type /\ h \in Seq(Nodes) /\ o \in DOMAIN h
      BY <1>1, <2>1
    <3> QED BY ONLY <2>1, <2>2, <3>1, OneRevalued
  <2> QED BY <2>1, <2>2, <2>3 DEF SameTypes
<1>6. Children(h[o]) = s /\ Children(g[o]) = w
      /\ \A m \in DOMAIN h : m # o => Children(g[m]) = Children(h[m])
  BY <1>2, <1>5 DEF Children
<1>7. HeapOK(g)
  <2>1. \A k \in DOMAIN w : w[k] \in 0 .. Len(h)
    <3>1. \A k \in DOMAIN s : s[k] \in 0 .. Len(h)  BY <1>6 DEF HeapOK
    <3>2. /\ DOMAIN s = 1 .. Len(s) /\ Len(s) \in Nat
          /\ DOMAIN w = 1 .. Len(s) + 1 /\ w[Len(s) + 1] = v
          /\ \A i \in 1 .. Len(s) : w[i] = s[i]
      BY <1>1, <1>3
    <3>3. \A k \in 1 .. Len(s) + 1 : k \in 1 .. Len(s) \/ k = Len(s) + 1
      BY <3>2
    <3> QED BY <3>1, <3>2, <3>3
  <2>2. ASSUME NEW m \in DOMAIN g
        PROVE  /\ g[m].type = "object" => Good(g[m].val)
               /\ \A k \in DOMAIN Children(g[m]) : Children(g[m])[k] \in 0 .. Len(g)
    <3>1. CASE m = o  BY <1>5, <1>6, <2>1, <3>1 DEF SameTypes
    <3>2. CASE m # o  BY <1>5, <3>2 DEF SameTypes, HeapOK
    <3> QED BY <3>1, <3>2
  <2> QED BY <1>5, <2>2 DEF HeapOK
<1>8. Alive(h) \in SUBSET DOMAIN h /\ o \in Alive(h)
  <2>1. Alive(h) \in SUBSET DOMAIN h  BY DEF Alive
  <2>2. h[o].refs = (owners[o] + If(v = o)) + Held(h, Alive(h), o)
    BY DEF Balanced
  <2>3. Held(h, Alive(h), o) \in Nat /\ owners[o] \in Nat /\ If(v = o) \in Nat
    BY <1>1, <2>1, PairsFinite DEF If
  <2>4. h[o].refs > 0  BY <2>2, <2>3
  <2> QED BY <2>1, <2>4 DEF Alive
<1>9. Balanced(g, owners)
  <2> SUFFICES ASSUME NEW n \in DOMAIN h
               PROVE  g[n].refs = owners[n] + Held(g, Alive(g), n)
    BY <1>5 DEF Balanced
  <2>1. /\ Alive(g) = Alive(h)
        /\ Held(g, Alive(g), n) + Cardinality(Places(s, n))
             = Held(h, Alive(h), n) + Cardinality(Places(w, n))
    <3>1. Len(g) = Len(h)  BY <1>5 DEF SameTypes
    <3>2. /\ Alive(g) = Alive(h)
          /\ Held(g, Alive(g), n) + Cardinality(Places(Children(h[o]), n))
               = Held(h, Alive(h), n) + Cardinality(Places(Children(g[o]), n))
      <4>1. \A m \in DOMAIN h : /\ g[m].refs = h[m].refs
                                /\ m # o => Children(g[m]) = Children(h[m])
        BY <1>5, <1>6
      <4>2. h \in Seq(Nodes) /\ g \in Seq(Nodes) /\ o \in Alive(h)
        BY <1>1, <1>5, <1>8
      <4> QED BY ONLY <3>1, <4>1, <4>2, OneChanges
    <3> QED BY <1>6, <3>2
  <2>2. Cardinality(Places(w, n)) = Cardinality(Places(s, n)) + If(v = n)
    BY <1>1, <1>3, OneMoreItem
  <2>3. Cardinality(Places(s, n)) \in Nat /\ If(v = n) \in Nat
    BY <1>1, <1>6, ChildrenFinite DEF If
  <2>4. Held(h, Alive(h), n) \in Nat /\ Held(g, Alive(g), n) \in Nat
    BY <1>1, <1>5, <1>8, <2>1, PairsFinite
  <2>5. g[n].refs = (owners[n] + If(v = n)) + Held(h, Alive(h), n)
        /\ owners[n] \in Nat
    BY <1>5 DEF Balanced
  <2>6. Held(g, Alive(g), n) = Held(h, Alive(h), n) + If(v = n)
    <3>1. /\ Held(g, Alive(g), n) + Cardinality(Places(s, n))
               = Held(h, Alive(h), n) + (Cardinality(Places(s, n)) + If(v = n))
          /\ Cardinality(Places(s, n)) \in Nat /\ If(v = n) \in Nat
          /\ Held(h, Alive(h), n) \in Nat /\ Held(g, Alive(g), n) \in Nat
      BY ONLY <2>1, <2>2, <2>3, <2>4
    <3> DEFINE P == Cardinality(Places(s, n))
               I == If(v = n)
               H == Held(h, Alive(h), n)
               G == Held(g, Alive(g), n)
    <3>2. G + P = H + (P + I) /\ P \in Nat /\ I \in Nat /\ H \in Nat /\ G \in Nat
      BY ONLY <3>1
    <3> HIDE DEF P, I, H, G
    <3>3. G = H + I  BY ONLY <3>2
    <3> QED BY ONLY <3>3 DEF G, H, I
  <2> QED BY <2>3, <2>4, <2>5, <2>6
<1> QED BY <1>5, <1>7, <1>9
-----------------------------------------------------------------------------
(* Who is freed does not depend on the values of a node that is not.       *)
LEMMA FreedAlike ==
  ASSUME NEW h \in Seq(Nodes), NEW g \in Seq(Nodes), Len(g) = Len(h), NEW o,
         \A m \in DOMAIN h : /\ g[m].refs = h[m].refs
                             /\ m # o => Children(g[m]) = Children(h[m]),
         NEW work, Work(h, work), o \notin Freed(g, work)
  PROVE  /\ Freed(h, work) = Freed(g, work)
         /\ \A n : Lost(h, work, Freed(h, work), n) = Lost(g, work, Freed(g, work), n)
<1>1. DOMAIN g = DOMAIN h  OBVIOUS
<1>2. Work(g, work)  BY <1>1 DEF Work
<1>3. ASSUME NEW F \in SUBSET DOMAIN h, o \notin F
      PROVE  /\ \A n : Lost(h, work, F, n) = Lost(g, work, F, n)
             /\ Round(h, work, F) = Round(g, work, F)
  <2>1. \A m \in F : Children(h[m]) = Children(g[m])  BY <1>3
  <2>2. \A n : Held(h, F, n) = Held(g, F, n)  BY <2>1, HeldAlike
  <2>3. \A n : Lost(h, work, F, n) = Lost(g, work, F, n)  BY <2>2, LostIs
  <2> QED BY <1>1, <2>3 DEF Round
<1>4. /\ Freed(h, work) \in SUBSET DOMAIN h /\ Freed(g, work) \in SUBSET DOMAIN h
      /\ Round(h, work, Freed(h, work)) = Freed(h, work)
      /\ Round(g, work, Freed(g, work)) = Freed(g, work)
      /\ \A F \in SUBSET DOMAIN h :
           Round(h, work, F) = F => Freed(h, work) \subseteq F
      /\ \A F \in SUBSET DOMAIN h :
           Round(g, work, F) = F => Freed(g, work) \subseteq F
  BY <1>1, <1>2, FreedIs
<1>5. Freed(h, work) \subseteq Freed(g, work)  BY <1>3, <1>4
<1>6. o \notin Freed(h, work)  BY <1>5
<1>7. Freed(g, work) \subseteq Freed(h, work)  BY <1>3, <1>4, <1>6
<1>8. Freed(h, work) = Freed(g, work)  BY <1>5, <1>7
<1> QED BY <1>3, <1>4, <1>6, <1>8

(* What a key had counts for its old field.                                *)
LEMMA OldField ==
  ASSUME NEW t, Good(t), NEW key \in Key, NEW n,
         IsFiniteSet(With({e \in Contents(t) : e.k # key}, n))
  PROVE  /\ Cardinality(Places(ObjectGet(t, key), n)) \in Nat
         /\ Cardinality(With(Contents(t), n)) =
              Cardinality(With({e \in Contents(t) : e.k # key}, n))
              + Cardinality(Places(ObjectGet(t, key), n))
<1> DEFINE rest == {e \in Contents(t) : e.k # key}
           old == ObjectGet(t, key)
           d == LookupSlot(t, key)
<1>1. Cardinality(With(rest, n)) \in Nat  BY FS_CardinalityType
<1>2. CASE ~Has(t, key)
  <2>1. DOMAIN old = {}  BY <1>2 DEF ObjectGet
  <2>2. Places(old, n) = {}  BY <2>1 DEF Places
  <2>3. Cardinality(Places(old, n)) = 0  BY <2>2, FS_EmptySet
  <2>4. \A e \in Contents(t) : e.k # key  BY <1>2, GoodIsListed
  <2>5. rest = Contents(t)  BY <2>4
  <2>6. Cardinality(With(Contents(t), n)) \in Nat  BY <1>1, <2>5
  <2>7. Cardinality(With(Contents(t), n)) = Cardinality(With(Contents(t), n)) + 0
    BY <2>6
  <2> HIDE DEF rest, old
  <2> QED BY <2>3, <2>5, <2>7 DEF rest, old
<1>3. CASE Has(t, key)
  <2> DEFINE e == t.slot[d]
  <2>1. /\ d \in ToSet(t.order) /\ e.k = key
        /\ \A m \in ToSet(t.order) : t.slot[m].k = key => m = d
    BY <1>3, KeyIsFound
  <2>2. Contents(t) = rest \cup {e} /\ e \notin rest  BY <2>1 DEF Contents
  <2>3. old = <<e.v>>  BY <1>3 DEF ObjectGet
  <2> HIDE DEF e, old
  <2>4. Places(old, n) = IF e.v = n THEN {1} ELSE {}  BY <2>3 DEF Places
  <2>5. Cardinality(Places(old, n)) = If(e.v = n)
    BY <2>4, FS_EmptySet, FS_Singleton DEF If
  <2> HIDE DEF rest
  <2>6. IsFiniteSet(With(rest, n))  BY DEF rest
  <2>7. Cardinality(With(rest \cup {e}, n)) = Cardinality(With(rest, n)) + If(e.v = n)
    BY <2>2, <2>6, OneMoreField
  <2>8. Cardinality(Places(old, n)) \in Nat  BY <2>5 DEF If
  <2> QED BY <2>2, <2>5, <2>7, <2>8 DEF rest, old
<1> QED BY <1>2, <1>3

(* An object gets another table.                                           *)
WithTable(h, o, t) == [h EXCEPT ![o].val = t]

LEMMA TableChanges ==
  ASSUME NEW h \in Seq(Nodes), NEW o \in DOMAIN h, h[o].type = "object",
         NEW t \in Table
  PROVE  /\ WithTable(h, o, t) \in Seq(Nodes) /\ SameTypes(h, WithTable(h, o, t))
         /\ DOMAIN WithTable(h, o, t) = DOMAIN h
         /\ WithTable(h, o, t)[o].val = t
         /\ \A m \in DOMAIN h :
              /\ WithTable(h, o, t)[m].refs = h[m].refs
              /\ m # o => WithTable(h, o, t)[m] = h[m]
<1> DEFINE g == WithTable(h, o, t)
<1>1. PICK node \in Nodes : /\ node = [h[o] EXCEPT !.val = t]
                            /\ node.refs = h[o].refs
                            /\ node.type = h[o].type /\ node.val = t
  <2> DEFINE node == [h[o] EXCEPT !.val = t]
  <2>1. h[o] \in Nodes  OBVIOUS
  <2>2. /\ node \in Nodes /\ node.refs = h[o].refs
        /\ node.type = h[o].type /\ node.val = t
    BY <2>1 DEF Nodes
  <2> QED BY <2>2
<1>2. /\ DOMAIN g = DOMAIN h /\ g = [m \in DOMAIN g |-> g[m]] /\ g[o] = node
      /\ \A m \in DOMAIN h : m # o => g[m] = h[m]
  BY <1>1 DEF WithTable
<1> HIDE DEF g
<1>3. /\ g \in Seq(Nodes) /\ SameTypes(h, g)
      /\ \A m \in DOMAIN h : g[m].refs = h[m].refs
  BY <1>1, <1>2, OneRevalued
<1> QED BY <1>1, <1>2, <1>3 DEF g
(* json_object_object_add: the object has the reference that the way had,  *)
(* and nobody has the one to the value that the key had.                   *)
LEMMA ObjectAddBalances ==
  ASSUME NEW h, HeapOK(h), NEW o \in DOMAIN h, h[o].type = "object",
         NEW key \in Key, NEW v \in 0 .. Len(h),
         NEW owners \in [DOMAIN h -> Nat], owners[o] > 0,
         Balanced(h, [m \in DOMAIN h |-> owners[m] + If(v = m)])
  PROVE  /\ HeapOK(ObjectAddTo(h, o, key, v))
         /\ SameTypes(h, ObjectAddTo(h, o, key, v))
         /\ Balanced(ObjectAddTo(h, o, key, v), owners)
<1>1. /\ h \in Seq(Nodes) /\ Len(h) \in Nat /\ DOMAIN h = 1 .. Len(h)
      /\ h[o] \in Nodes /\ v \in Nat
      /\ \A m \in DOMAIN h : h[m] \in Nodes /\ h[m].refs \in Nat
  BY HeapFacts
<1>2. PICK t : t = h[o].val /\ Good(t)  BY DEF HeapOK
<1> DEFINE rest == {e \in Contents(t) : e.k # key}
           new == [k |-> key, v |-> v]
<1>3. PICK u : /\ u = Delete(t, key) /\ Listed(u) /\ u \in Table
               /\ Contents(u) = rest
  BY <1>2, DeleteLists DEF Listed
<1>4. PICK x : /\ x = ObjectAdd(t, key, v) /\ Good(x) /\ x \in Table
               /\ Contents(x) = rest \cup {new}
  BY <1>1, <1>2, ObjectAddGood DEF Good
<1>5. Listed(t) /\ Listed(x)  BY <1>2, <1>4, GoodIsListed
<1>6. PICK old : old = ObjectGet(t, key)  OBVIOUS
<1>7. PICK h2 : h2 = WithTable(h, o, u)  OBVIOUS
<1>8. /\ h2 \in Seq(Nodes) /\ Len(h2) = Len(h) /\ DOMAIN h2 = DOMAIN h
      /\ h2[o].val = u /\ \A m \in DOMAIN h : h2[m].type = h[m].type
      /\ \A m \in DOMAIN h : /\ h2[m].refs = h[m].refs
                             /\ m # o => h2[m] = h[m]
  BY <1>1, <1>3, <1>7, TableChanges DEF SameTypes
(* How many fields n has.                                                  *)
<1> DEFINE R(n) == Cardinality(With(rest, n))
           O(n) == Cardinality(Places(old, n))
<1>9. \A n : R(n) \in Nat /\ IsFiniteSet(With(rest, n))
             /\ Cardinality(Places(Children(h2[o]), n)) = R(n)
  <2>1. h2[o] \in Nodes /\ h2[o].type = "object"  BY <1>8
  <2> QED BY <1>3, <1>8, <2>1, FieldsAreEntries
<1>10. \A n : /\ O(n) \in Nat
              /\ Cardinality(Places(Children(h[o]), n)) = R(n) + O(n)
  <2> SUFFICES ASSUME NEW n
               PROVE  /\ O(n) \in Nat
                      /\ Cardinality(Places(Children(h[o]), n)) = R(n) + O(n)
    OBVIOUS
  <2>1. Cardinality(Places(Children(h[o]), n)) = Cardinality(With(Contents(t), n))
    BY <1>1, <1>2, <1>5, FieldsAreEntries
  <2>2. /\ O(n) \in Nat /\ Cardinality(With(Contents(t), n)) = R(n) + O(n)
    BY <1>2, <1>6, <1>9, OldField
  <2> QED BY <2>1, <2>2
<1>11. \A node \in Nodes : \A n : node.type = "object" /\ node.val = x =>
         Cardinality(Places(Children(node), n)) = R(n) + If(v = n)
  <2> SUFFICES ASSUME NEW node \in Nodes, NEW n,
                      node.type = "object", node.val = x
               PROVE  Cardinality(Places(Children(node), n)) = R(n) + If(v = n)
    OBVIOUS
  <2>1. Cardinality(Places(Children(node), n)) = Cardinality(With(Contents(x), n))
    BY <1>5, FieldsAreEntries
  <2>2. new \notin rest /\ new.v = v  OBVIOUS
  <2>3. IsFiniteSet(With(rest, n))  BY <1>9
  <2> HIDE DEF rest, new
  <2>4. Cardinality(With(rest \cup {new}, n)) = R(n) + If(new.v = n)
    BY <2>2, <2>3, OneMoreField
  <2> QED BY <1>4, <2>1, <2>2, <2>4
<1>12. \A e \in rest \cup {new} : e.v \in 0 .. Len(h)
  <2>1. ASSUME NEW e \in Contents(t) PROVE e.v \in 0 .. Len(h)
    <3>1. PICK n \in ToSet(t.order) : e = t.slot[n]  BY DEF Contents
    <3>2. Children(h[o]) = [m \in ToSet(t.order) |-> t.slot[m].v]
      BY <1>2 DEF Children
    <3>3. n \in DOMAIN Children(h[o]) /\ Children(h[o])[n] = e.v  BY <3>1, <3>2
    <3> QED BY <3>3 DEF HeapOK
  <2> QED BY <2>1
<1> HIDE DEF rest, new, R, O
(* The values that go.                                                     *)
<1> DEFINE way == [m \in DOMAIN h |-> owners[m] + If(v = m)]
           all == [n \in DOMAIN h |-> way[n] + O(n)]
<1>13. \A m \in DOMAIN h : way[m] \in Nat /\ way[m] = owners[m] + If(v = m)
                           /\ all[m] = way[m] + O(m)
                           /\ owners[m] \in Nat /\ If(v = m) \in Nat
  BY DEF If
<1>14. way \in [DOMAIN h -> Nat] /\ way[o] > 0  BY <1>13
<1>15. Balanced(h, way)  OBVIOUS
<1> HIDE DEF way
<1>16. o \in Alive(h) /\ Alive(h) \in SUBSET DOMAIN h
  <2>1. Alive(h) \in SUBSET DOMAIN h  BY DEF Alive
  <2>2. h[o].refs = way[o] + Held(h, Alive(h), o) /\ Held(h, Alive(h), o) \in Nat
    BY <1>1, <1>15, <2>1, PairsFinite DEF Balanced
  <2>3. h[o].refs > 0  BY <1>14, <2>2
  <2> QED BY <2>1, <2>3 DEF Alive
<1>17. \A m \in DOMAIN h : m # o => Children(h2[m]) = Children(h[m])  BY <1>8
<1>18. Balanced(h2, all)
  <2> SUFFICES ASSUME NEW n \in DOMAIN h
               PROVE  h2[n].refs = all[n] + Held(h2, Alive(h2), n)
    BY <1>8 DEF Balanced
  <2>1. /\ Alive(h2) = Alive(h)
        /\ Held(h2, Alive(h2), n) + Cardinality(Places(Children(h[o]), n))
             = Held(h, Alive(h), n) + Cardinality(Places(Children(h2[o]), n))
    BY <1>1, <1>8, <1>16, <1>17, OneChanges
  <2>2. Held(h2, Alive(h), n) + (R(n) + O(n)) = Held(h, Alive(h), n) + R(n)
    BY <1>9, <1>10, <2>1
  <2>3. /\ R(n) \in Nat /\ O(n) \in Nat /\ Held(h2, Alive(h), n) \in Nat
        /\ Held(h, Alive(h), n) \in Nat
    BY <1>1, <1>8, <1>9, <1>10, <1>16, PairsFinite
  <2>4. h2[n].refs = way[n] + Held(h, Alive(h), n) /\ way[n] \in Nat
        /\ all[n] = way[n] + O(n)
    BY <1>8, <1>13, <1>15 DEF Balanced
  <2>5. Held(h, Alive(h), n) = Held(h2, Alive(h), n) + O(n)  BY <2>2, <2>3
  <2> QED BY <2>1, <2>3, <2>4, <2>5
<1>19. Work(h2, old) /\ Work(h, old)  BY <1>8, <1>10 DEF Work, O
<1>20. PICK g2 : g2 = Puts(h2, old)  OBVIOUS
<1>21. /\ g2 \in Seq(Nodes) /\ Len(g2) = Len(h)
       /\ \A n \in DOMAIN h : /\ g2[n].type = h2[n].type
                              /\ g2[n].val = h2[n].val
                              /\ Children(g2[n]) = Children(h2[n])
       /\ Balanced(g2, way) /\ o \notin Freed(h2, old)
  <2>1. /\ Balanced(h2, [n \in DOMAIN h2 |-> way[n] + Cardinality(Places(old, n))])
        /\ way \in [DOMAIN h2 -> Nat]
    BY <1>8, <1>14, <1>18 DEF O
  <2>2. /\ Puts(h2, old) \in Seq(Nodes) /\ Len(Puts(h2, old)) = Len(h2)
        /\ \A n \in DOMAIN h2 :
             /\ Puts(h2, old)[n].type = h2[n].type
             /\ Puts(h2, old)[n].val = h2[n].val
             /\ Children(Puts(h2, old)[n]) = Children(h2[n])
        /\ Balanced(Puts(h2, old), way)
        /\ \A n \in DOMAIN h2 : way[n] > 0 => n \notin Freed(h2, old)
    BY ONLY <1>8, <1>19, <2>1, PutsBalance
  <2> QED BY <1>8, <1>14, <1>20, <2>2
(* With the old table instead of the one without the key: the same.        *)
<1>22. PICK p : p = Puts(h, old)  OBVIOUS
<1>23. /\ p \in Seq(Nodes) /\ Len(p) = Len(h) /\ DOMAIN p = DOMAIN h
       /\ \A n \in DOMAIN h : /\ p[n].refs = g2[n].refs
                              /\ p[n].type = h[n].type /\ p[n].val = h[n].val
  <2>1. /\ Freed(h, old) = Freed(h2, old)
        /\ \A n : Lost(h, old, Freed(h, old), n) = Lost(h2, old, Freed(h2, old), n)
    <3>1. /\ h \in Seq(Nodes) /\ h2 \in Seq(Nodes) /\ Len(h2) = Len(h)
          /\ \A m \in DOMAIN h :
               /\ h2[m].refs = h[m].refs
               /\ m # o => Children(h2[m]) = Children(h[m])
          /\ Work(h, old) /\ o \notin Freed(h2, old)
      BY <1>1, <1>8, <1>17, <1>19, <1>21
    <3> QED BY ONLY <3>1, FreedAlike
  <2> DEFINE L(n) == Lost(h, old, Freed(h, old), n)
  <2>2. /\ p = [n \in DOMAIN h |-> [h[n] EXCEPT !.refs = @ - L(n)]]
        /\ g2 = [n \in DOMAIN h |-> [h2[n] EXCEPT !.refs = @ - L(n)]]
    BY <1>8, <1>20, <1>22, <2>1 DEF Puts
  <2> HIDE DEF L
  <2>3. ASSUME NEW n \in DOMAIN h
        PROVE  /\ p[n] \in Nodes /\ p[n].refs = g2[n].refs
               /\ p[n].type = h[n].type /\ p[n].val = h[n].val
    <3>1. g2[n].refs = h2[n].refs - L(n)
      <4>1. h2[n] \in Nodes  BY <1>8
      <4>2. g2[n] = [h2[n] EXCEPT !.refs = @ - L(n)]  BY <2>2
      <4> QED BY <4>1, <4>2 DEF Nodes
    <3>2. g2[n].refs \in Nat  BY <1>1, <1>21, RefsAreNat
    <3>3. PICK r \in Nat : r = h[n].refs - L(n) /\ r = g2[n].refs
      BY <1>8, <3>1, <3>2
    <3>4. p[n] = [h[n] EXCEPT !.refs = r] /\ h[n] \in Nodes
      BY <1>1, <2>2, <3>3
    <3> QED BY <3>3, <3>4, Recounted
  <2>4. p = [n \in 1 .. Len(h) |-> p[n]] /\ DOMAIN p = DOMAIN h  BY <1>1, <2>2
  <2>5. p \in Seq(Nodes) /\ Len(p) = Len(h)  BY <1>1, <2>3, <2>4
  <2> QED BY <2>3, <2>4, <2>5
(* The object with its new field.                                          *)
<1>24. PICK g : g = WithTable(p, o, x)  OBVIOUS
<1>25. g = ObjectAddTo(h, o, key, v)
  <2>1. ObjectAddTo(h, o, key, v) = [p EXCEPT ![o].val = ObjectAdd(@, key, v)]
    BY <1>2, <1>6, <1>22 DEF ObjectAddTo
  <2>2. [p EXCEPT ![o].val = ObjectAdd(@, key, v)] = [p EXCEPT ![o].val = x]
    BY <1>2, <1>4, <1>23
  <2> QED BY <1>24, <2>1, <2>2 DEF WithTable
<1>26. /\ g \in Seq(Nodes) /\ Len(g) = Len(h) /\ DOMAIN g = DOMAIN h
       /\ g[o].val = x
       /\ \A m \in DOMAIN h : /\ g[m].refs = g2[m].refs
                              /\ g[m].type = h[m].type
                              /\ m # o => g[m] = p[m]
  <2>1. p[o].type = "object"  BY <1>23
  <2>2. /\ g \in Seq(Nodes) /\ SameTypes(p, g) /\ DOMAIN g = DOMAIN p
        /\ g[o].val = x
        /\ \A m \in DOMAIN p : /\ g[m].refs = p[m].refs
                               /\ m # o => g[m] = p[m]
    BY <1>4, <1>23, <1>24, <2>1, TableChanges
  <2> QED BY <1>23, <2>2 DEF SameTypes
<1>27. \A m \in DOMAIN h : m # o => /\ g[m].val = h[m].val
                                    /\ Children(g[m]) = Children(h[m])
                                    /\ Children(g[m]) = Children(g2[m])
  <2> SUFFICES ASSUME NEW m \in DOMAIN h, m # o
               PROVE  /\ g[m].val = h[m].val
                      /\ Children(g[m]) = Children(h[m])
                      /\ Children(g[m]) = Children(g2[m])
    OBVIOUS
  <2>1. g[m].val = h[m].val /\ g[m].type = h[m].type  BY <1>23, <1>26
  <2>2. Children(g[m]) = Children(h[m])  BY <2>1 DEF Children
  <2> QED BY <1>17, <1>21, <2>1, <2>2
<1>28. HeapOK(g)
  <2>1. \A k \in DOMAIN Children(g[o]) : Children(g[o])[k] \in 0 .. Len(h)
    <3>1. Children(g[o]) = [m \in ToSet(x.order) |-> x.slot[m].v]
      BY <1>26 DEF Children
    <3>2. \A m \in ToSet(x.order) : x.slot[m] \in rest \cup {new}
      BY <1>4 DEF Contents
    <3> QED BY <1>12, <3>1, <3>2
  <2>2. ASSUME NEW m \in DOMAIN g
        PROVE  /\ g[m].type = "object" => Good(g[m].val)
               /\ \A k \in DOMAIN Children(g[m]) : Children(g[m])[k] \in 0 .. Len(g)
    <3>1. CASE m = o  BY <1>4, <1>26, <2>1, <3>1
    <3>2. CASE m # o  BY <1>26, <1>27, <3>2 DEF HeapOK
    <3> QED BY <3>1, <3>2
  <2> QED BY <1>26, <2>2 DEF HeapOK
<1>29. o \in Alive(g2) /\ Alive(g2) \in SUBSET DOMAIN h /\ DOMAIN g2 = DOMAIN h
  <2>1. Alive(g2) \in SUBSET DOMAIN h /\ DOMAIN g2 = DOMAIN h
    BY <1>1, <1>21 DEF Alive
  <2>2. g2[o].refs = way[o] + Held(g2, Alive(g2), o)
        /\ Held(g2, Alive(g2), o) \in Nat
    BY <1>21, <2>1, PairsFinite DEF Balanced
  <2>3. g2[o].refs > 0  BY <1>14, <2>2
  <2> QED BY <2>1, <2>3 DEF Alive
<1>30. Balanced(g, owners)
  <2> SUFFICES ASSUME NEW n \in DOMAIN h
               PROVE  g[n].refs = owners[n] + Held(g, Alive(g), n)
    BY <1>26 DEF Balanced
  <2>1. /\ Alive(g) = Alive(g2)
        /\ Held(g, Alive(g), n) + Cardinality(Places(Children(g2[o]), n))
             = Held(g2, Alive(g2), n) + Cardinality(Places(Children(g[o]), n))
    <3>1. Len(g) = Len(g2)
          /\ \A m \in DOMAIN g2 : /\ g[m].refs = g2[m].refs
                                  /\ m # o => Children(g[m]) = Children(g2[m])
      BY <1>21, <1>26, <1>27, <1>29
    <3> QED BY <1>21, <1>26, <1>29, <3>1, OneChanges
  <2>2. Cardinality(Places(Children(g2[o]), n)) = R(n)  BY <1>9, <1>21
  <2>3. Cardinality(Places(Children(g[o]), n)) = R(n) + If(v = n)
    <3>1. g[o] \in Nodes /\ g[o].type = "object" /\ g[o].val = x  BY <1>26
    <3> QED BY <1>11, <3>1
  <2>4. /\ R(n) \in Nat /\ If(v = n) \in Nat /\ owners[n] \in Nat
        /\ Held(g, Alive(g), n) \in Nat /\ Held(g2, Alive(g2), n) \in Nat
    BY <1>9, <1>13, <1>21, <1>26, <1>29, <2>1, PairsFinite
  <2>5. Held(g, Alive(g), n) + R(n) = Held(g2, Alive(g2), n) + (R(n) + If(v = n))
    BY <2>1, <2>2, <2>3
  <2>6. Held(g, Alive(g), n) = Held(g2, Alive(g2), n) + If(v = n)
    <3> DEFINE r == R(n)
               i == If(v = n)
               a == Held(g, Alive(g), n)
               b == Held(g2, Alive(g2), n)
    <3>1. a + r = b + (r + i) /\ r \in Nat /\ i \in Nat /\ a \in Nat /\ b \in Nat
      BY <2>4, <2>5
    <3> HIDE DEF r, i, a, b
    <3>2. a = b + i  BY ONLY <3>1
    <3> QED BY ONLY <3>2 DEF a, b, i
  <2>7. g[n].refs = (owners[n] + If(v = n)) + Held(g2, Alive(g2), n)
    BY <1>13, <1>21, <1>26, <1>29 DEF Balanced
  <2> QED BY <2>4, <2>6, <2>7
<1>31. SameTypes(h, g)  BY <1>26 DEF SameTypes
<1> QED BY <1>25, <1>28, <1>30, <1>31
-----------------------------------------------------------------------------
(* What a level is doing, behind the spaces and comments.                  *)
Spaces == {"eatws", "comment_start", "comment", "comment_eol", "comment_end"}

Saved == {"start", "finish", "array", "array_sep", "object_field_start",
          "object_field_end", "object_value", "object_sep"}

Adds == {"array_add", "object_value_add"}

Levels == [state : States, saved : Saved, current : Nat,
           name : Key \cup {"none"}]

Doing(l) == IF l.state \in Spaces THEN l.saved ELSE l.state

(* The value of a level is none yet, an array or an object, and a field    *)
(* that is coming has a name.                                              *)
Holds(h, l) ==
  LET Is(type) == l.current \in DOMAIN h /\ h[l.current].type = type
  IN  /\ Doing(l) = "start" => l.current = Null
      /\ Doing(l) \in {"array", "array_add", "array_sep"} => Is("array")
      /\ Doing(l) \in {"object_field_start", "object_field_end", "object_value",
                       "object_value_add", "object_sep"} => Is("object")
      /\ Doing(l) \in {"object_field_end", "object_value", "object_value_add"} =>
           l.name \in Key

(* The levels below wait for the value of the one above them.              *)
StackOK(h, s) ==
  /\ s \in Seq(Levels)
  /\ \A i \in DOMAIN s : s[i].current \in 0 .. Len(h) /\ Holds(h, s[i])
  /\ \A i \in DOMAIN s : i # Len(s) => s[i].state \in Adds

(* The references that levels have to n, and all that are not values.      *)
Holding(s, n) == Cardinality({i \in DOMAIN s : s[i].current = n})

Owners == [n \in DOMAIN heap |->
             (Holding(stack, n) + If(OnItsWay /\ obj = n)) + If(ret = n)]

IInv ==
  /\ TypeOK
  /\ HeapOK(heap)
  /\ StackOK(heap, stack)
  /\ phase # "done" => stack # << >> /\ ret = Null
  /\ Balanced(heap, Owners)
-----------------------------------------------------------------------------
(* The top of the stack and the rest of it.                                *)
Below(s, n) == Cardinality({i \in 1 .. Len(s) - 1 : s[i].current = n})

LEMMA HoldingIs ==
  ASSUME NEW S, NEW s \in Seq(S), NEW n
  PROVE  /\ Holding(s, n) \in Nat /\ Below(s, n) \in Nat
         /\ IsFiniteSet({i \in DOMAIN s : s[i].current = n})
         /\ s # << >> =>
              Holding(s, n) = Below(s, n) + If(s[Len(s)].current = n)
<1> DEFINE N == Len(s)
           H == {i \in DOMAIN s : s[i].current = n}
           B == {i \in 1 .. N - 1 : s[i].current = n}
<1>1. N \in Nat /\ DOMAIN s = 1 .. N /\ (s # << >> => N > 0)  OBVIOUS
<1>2. H \in SUBSET (1 .. N) /\ B \in SUBSET (1 .. N)  BY <1>1
<1>3. /\ IsFiniteSet(H) /\ Cardinality(H) \in Nat
      /\ IsFiniteSet(B) /\ Cardinality(B) \in Nat
  BY <1>1, <1>2, CountUpTo, FS_Subset, FS_CardinalityType
<1>4. ASSUME s # << >>
      PROVE  Cardinality(H) = Cardinality(B) + If(s[N].current = n)
  <2>1. /\ \A i : i \in 1 .. N <=> i \in 1 .. N - 1 \/ i = N
        /\ N \notin 1 .. N - 1
    BY <1>1, <1>4
  <2>2. H = IF s[N].current = n THEN B \cup {N} ELSE B  BY <1>1, <2>1
  <2>3. N \notin B  BY <2>1
  <2> HIDE DEF H, B
  <2>4. Cardinality(B \cup {N}) = Cardinality(B) + 1
    BY <1>3, <2>3, FS_AddElement
  <2> QED BY <1>3, <2>2, <2>4 DEF If
<1> QED BY <1>3, <1>4 DEF Holding, Below

(* Another level on top, one more, and one less.                           *)
WithTop(s, l) == [s EXCEPT ![Len(s)] = l]

LEMMA TopIs ==
  ASSUME NEW S, NEW s \in Seq(S), s # << >>, NEW l \in S
  PROVE  /\ WithTop(s, l) \in Seq(S) /\ Len(WithTop(s, l)) = Len(s)
         /\ WithTop(s, l)[Len(s)] = l
         /\ \A i \in 1 .. Len(s) - 1 : WithTop(s, l)[i] = s[i]
         /\ \A n : Below(WithTop(s, l), n) = Below(s, n)
<1> DEFINE N == Len(s)
           t == [i \in 1 .. N |-> IF i = N THEN l ELSE s[i]]
<1>1. N \in Nat /\ DOMAIN s = 1 .. N /\ N > 0
      /\ \A i \in 1 .. N : s[i] \in S
  OBVIOUS
<1>2. WithTop(s, l) = t  BY <1>1 DEF WithTop
<1> HIDE DEF N
<1>3. \A i \in 1 .. N : (IF i = N THEN l ELSE s[i]) \in S  BY <1>1
<1>4. t \in Seq(S) /\ Len(t) = N  BY <1>1, <1>3
<1>5. t[N] = l /\ \A i \in 1 .. N - 1 : t[i] = s[i]  BY <1>1
<1> HIDE DEF t
<1>6. \A n : Below(t, n) = Below(s, n)  BY <1>4, <1>5 DEF Below, N
<1> QED BY <1>2, <1>4, <1>5, <1>6 DEF N

LEMMA StackMoves ==
  ASSUME NEW S, NEW s \in Seq(S), s # << >>, NEW l \in S
  PROVE  /\ Append(s, l) \in Seq(S) /\ Len(Append(s, l)) = Len(s) + 1
         /\ Append(s, l)[Len(s) + 1] = l
         /\ \A i \in 1 .. Len(s) : Append(s, l)[i] = s[i]
         /\ \A n : Below(Append(s, l), n) = Holding(s, n)
         /\ Front(s) \in Seq(S) /\ Len(Front(s)) = Len(s) - 1
         /\ \A i \in 1 .. Len(s) - 1 : Front(s)[i] = s[i]
         /\ \A n : Holding(Front(s), n) = Below(s, n)
<1> DEFINE N == Len(s)
           u == Append(s, l)
           f == Front(s)
<1>1. N \in Nat /\ DOMAIN s = 1 .. N /\ N > 0 /\ N - 1 \in Nat  OBVIOUS
<1>2. /\ u \in Seq(S) /\ Len(u) = N + 1 /\ (N + 1) - 1 = N /\ u[N + 1] = l
      /\ \A i \in 1 .. N : u[i] = s[i]
  BY <1>1
<1>3. /\ f \in Seq(S) /\ Len(f) = N - 1 /\ DOMAIN f = 1 .. N - 1
      /\ \A i \in 1 .. N - 1 : f[i] = s[i]
  <2>1. f = SubSeq(s, 1, N - 1)  BY DEF Front
  <2>2. 1 \in 1 .. N /\ N - 1 \in 0 .. N  BY <1>1
  <2> QED BY <1>1, <2>1, <2>2
<1> HIDE DEF u, f
<1>4. \A n : Below(u, n) = Holding(s, n)  BY <1>1, <1>2 DEF Below, Holding
<1>5. \A n : Holding(f, n) = Below(s, n)  BY <1>3 DEF Below, Holding
<1> QED BY <1>2, <1>3, <1>4, <1>5 DEF u, f
-----------------------------------------------------------------------------
(* Holds speaks of the types of nodes only.                                *)
LEMMA HoldsKept ==
  ASSUME NEW h, NEW g, NEW l, Holds(h, l),
         DOMAIN h \subseteq DOMAIN g, \A m \in DOMAIN h : g[m].type = h[m].type
  PROVE  Holds(g, l)
BY DEF Holds

(* A stack with another level on top.                                      *)
LEMMA TopKeeps ==
  ASSUME NEW h, NEW g, Len(h) \in Nat, Len(g) \in Nat, Len(h) <= Len(g),
         DOMAIN h \subseteq DOMAIN g, \A m \in DOMAIN h : g[m].type = h[m].type,
         NEW s, StackOK(h, s), s # << >>,
         NEW l \in Levels, l.current \in 0 .. Len(g), Holds(g, l)
  PROVE  StackOK(g, WithTop(s, l))
<1> DEFINE t == WithTop(s, l)
           N == Len(s)
<1>1. s \in Seq(Levels)  BY DEF StackOK
<1>2. N \in Nat /\ DOMAIN s = 1 .. N /\ N > 0  BY <1>1
<1>3. /\ t \in Seq(Levels) /\ Len(t) = N /\ t[N] = l
      /\ \A i \in 1 .. N - 1 : t[i] = s[i]
  BY <1>1, TopIs
<1> HIDE DEF t, N
<1>4. DOMAIN t = 1 .. N /\ \A i \in 1 .. N : i = N \/ i \in 1 .. N - 1
  <2>1. DOMAIN t = 1 .. Len(t)  BY <1>3
  <2>2. DOMAIN t = 1 .. N  BY <1>3, <2>1
  <2>3. \A i \in 1 .. N : i = N \/ i \in 1 .. N - 1  BY <1>2
  <2> QED BY <2>2, <2>3
<1>5. ASSUME NEW i \in 1 .. N
      PROVE  /\ t[i].current \in 0 .. Len(g) /\ Holds(g, t[i])
             /\ i # N => t[i].state \in Adds
  <2>1. CASE i = N  BY <1>3, <2>1
  <2>2. CASE i # N
    <3>1. i \in DOMAIN s /\ t[i] = s[i]  BY <1>2, <1>3, <1>4, <2>2
    <3>2. /\ s[i].current \in 0 .. Len(h) /\ Holds(h, s[i])
          /\ s[i].state \in Adds
      BY <2>2, <3>1 DEF StackOK, N
    <3>3. Holds(g, s[i])  BY <3>2, HoldsKept
    <3> QED BY <3>1, <3>2, <3>3
  <2> QED BY <2>1, <2>2
<1> QED BY <1>3, <1>4, <1>5 DEF StackOK, t
-----------------------------------------------------------------------------
(* What the invariant says of the level on top.                            *)
LEMMA TopFacts ==
  ASSUME IInv, phase # "done"
  PROVE  /\ stack \in Seq(Levels) /\ stack # << >> /\ Len(stack) \in Nat
         /\ Len(stack) > 0 /\ DOMAIN stack = 1 .. Len(stack)
         /\ top \in Levels /\ top.current \in 0 .. Len(heap)
         /\ Holds(heap, top) /\ ret = Null
         /\ heap \in Seq(Nodes) /\ Len(heap) \in Nat
         /\ DOMAIN heap = 1 .. Len(heap)
         /\ \A n : Holding(stack, n) = Below(stack, n) + If(top.current = n)
         /\ \A n : Holding(stack, n) \in Nat /\ Below(stack, n) \in Nat
<1>1. /\ stack \in Seq(Levels) /\ stack # << >> /\ ret = Null
      /\ \A i \in DOMAIN stack : /\ stack[i].current \in 0 .. Len(heap)
                                 /\ Holds(heap, stack[i])
  BY DEF IInv, StackOK
<1>2. /\ Len(stack) \in Nat /\ Len(stack) > 0 /\ DOMAIN stack = 1 .. Len(stack)
  BY <1>1
<1>3. Len(stack) \in DOMAIN stack  BY <1>2
<1>4. top \in Levels /\ top.current \in 0 .. Len(heap) /\ Holds(heap, top)
  BY <1>1, <1>3 DEF top
<1>5. heap \in Seq(Nodes) /\ Len(heap) \in Nat /\ DOMAIN heap = 1 .. Len(heap)
  BY HeapFacts DEF IInv
<1>6. \A n : /\ Holding(stack, n) = Below(stack, n) + If(top.current = n)
             /\ Holding(stack, n) \in Nat /\ Below(stack, n) \in Nat
  BY <1>1, HoldingIs DEF top
<1> QED BY <1>1, <1>2, <1>4, <1>5, <1>6

(* The type invariant is about each level; the rest of it about the rest.  *)
TypeRest ==
  /\ text \in Texts /\ pos \in 1 .. Len(text) + 1
  /\ Len(stack) <= MaxDepth
  /\ obj \in 0 .. Len(heap) /\ ret \in 0 .. Len(heap)
  /\ err \in Errors /\ phase \in {"parse", "out", "done"}

LEMMA TypeFrom ==
  ASSUME NEW h, HeapOK(h), NEW s, StackOK(h, s)
  PROVE  /\ \A i \in DOMAIN s :
              /\ s[i].state \in States /\ s[i].saved \in States
              /\ s[i].current \in 0 .. Len(h) /\ s[i].name \in Key \cup {"none"}
         /\ \A n \in DOMAIN h : /\ h[n].type \in {"leaf", "array", "object"}
                                /\ h[n].refs \in Nat
<1>1. ASSUME NEW i \in DOMAIN s
      PROVE  /\ s[i].state \in States /\ s[i].saved \in States
             /\ s[i].current \in 0 .. Len(h) /\ s[i].name \in Key \cup {"none"}
  <2>1. s[i] \in Levels /\ s[i].current \in 0 .. Len(h)  BY DEF StackOK
  <2> QED BY <2>1 DEF Levels, States, Saved
<1>2. ASSUME NEW n \in DOMAIN h
      PROVE  /\ h[n].type \in {"leaf", "array", "object"}
             /\ h[n].refs \in Nat
  <2>1. h[n] \in Nodes  BY HeapFacts
  <2> QED BY <2>1 DEF Nodes
<1> QED BY <1>1, <1>2

LEMMA TypeIs ==
  ASSUME TypeOK PROVE TypeRest
BY DEF TypeOK, TypeRest

(* A step that moves the tokener on and touches no node.                   *)
LEMMA QuietStep ==
  ASSUME IInv, phase = "parse", top.state \notin Adds,
         UNCHANGED <<text, obj, heap, ret>>,
         NEW l \in Levels, stack' = WithTop(stack, l),
         l.current = top.current, Holds(heap, l), l.state \notin Adds,
         pos' \in 1 .. Len(text) + 1, err' \in Errors,
         phase' \in {"parse", "out"}
  PROVE  IInv'
<1>1. /\ stack \in Seq(Levels) /\ stack # << >> /\ Len(stack) \in Nat
      /\ top.current \in 0 .. Len(heap) /\ ret = Null
      /\ heap \in Seq(Nodes) /\ Len(heap) \in Nat /\ HeapOK(heap)
      /\ StackOK(heap, stack) /\ TypeRest /\ Balanced(heap, Owners)
      /\ \A n : Holding(stack, n) = Below(stack, n) + If(top.current = n)
  BY TopFacts, TypeIs DEF IInv
<1>2. StackOK(heap, WithTop(stack, l))
  <2>1. /\ Len(heap) <= Len(heap) /\ l.current \in 0 .. Len(heap)
        /\ \A m \in DOMAIN heap : heap[m].type = heap[m].type
    BY <1>1
  <2>2. /\ Len(heap) \in Nat /\ StackOK(heap, stack) /\ stack # << >>
        /\ l \in Levels /\ Holds(heap, l) /\ DOMAIN heap \subseteq DOMAIN heap
    BY <1>1
  <2> QED BY ONLY <2>1, <2>2, TopKeeps
<1>3. /\ stack' \in Seq(Levels) /\ Len(stack') = Len(stack)
      /\ stack'[Len(stack)] = l
      /\ \A n : Below(stack', n) = Below(stack, n)
  <2>1. stack \in Seq(Levels) /\ stack # << >> /\ l \in Levels  BY <1>1
  <2>2. /\ WithTop(stack, l) \in Seq(Levels)
        /\ Len(WithTop(stack, l)) = Len(stack)
        /\ WithTop(stack, l)[Len(stack)] = l
        /\ \A n : Below(WithTop(stack, l), n) = Below(stack, n)
    BY ONLY <2>1, TopIs
  <2> QED BY ONLY <2>2, stack' = WithTop(stack, l)
<1>4. stack' # << >> /\ StackOK(heap', stack') /\ HeapOK(heap')
  BY <1>1, <1>2, <1>3
<1>5. ~OnItsWay /\ ~OnItsWay'  BY <1>3 DEF OnItsWay, top, Adds
<1>6. \A n : Holding(stack', n) = Holding(stack, n)
  <2>1. \A n : Holding(stack', n) = Below(stack', n) + If(l.current = n)
    <3>1. PICK s : s = stack'  OBVIOUS
    <3>2. s \in Seq(Levels) /\ s # << >> /\ s[Len(s)] = l
      BY <1>1, <1>3, <1>4, <3>1
    <3>3. \A n : Holding(s, n) = Below(s, n) + If(s[Len(s)].current = n)
      BY ONLY <3>2, HoldingIs
    <3> QED BY ONLY <3>1, <3>2, <3>3
  <2> QED BY <1>1, <1>3, <2>1
<1>7. Owners' = Owners  BY <1>5, <1>6 DEF Owners
<1>8. Balanced(heap', Owners')  BY <1>1, <1>7
<1>9. TypeRest'  BY <1>1, <1>3 DEF TypeRest
<1>10. TypeOK'  BY <1>4, <1>9, TypeFrom DEF TypeRest, TypeOK
<1> QED BY <1>1, <1>4, <1>8, <1>10 DEF IInv

(* The same level stays on top.                                            *)
LEMMA StandingStep ==
  ASSUME IInv, phase = "parse", top.state \notin Adds,
         UNCHANGED <<text, obj, heap, ret, stack>>,
         pos' \in 1 .. Len(text) + 1, err' \in Errors,
         phase' \in {"parse", "out"}
  PROVE  IInv'
<1>1. /\ stack \in Seq(Levels) /\ Len(stack) \in DOMAIN stack
      /\ top \in Levels /\ Holds(heap, top)
  BY TopFacts
<1>2. stack' = WithTop(stack, top)  BY <1>1 DEF WithTop, top
<1> QED BY <1>1, <1>2, QuietStep
-----------------------------------------------------------------------------
(* The levels that the actions put on top.                                 *)
LEMMA LevelTo ==
  ASSUME NEW l \in Levels, NEW x \in States, NEW y \in Saved, NEW n \in Nat,
         NEW k \in Key \cup {"none"}
  PROVE  [state |-> x, saved |-> y, current |-> n, name |-> k] \in Levels
BY DEF Levels

LEMMA LevelIs ==
  ASSUME NEW l \in Levels
  PROVE  /\ l.state \in States /\ l.saved \in Saved /\ l.current \in Nat
         /\ l.name \in Key \cup {"none"}
         /\ l = [state |-> l.state, saved |-> l.saved, current |-> l.current,
                 name |-> l.name]
BY DEF Levels

LEMMA LevelThen ==
  ASSUME NEW l \in Levels, NEW x, NEW y
  PROVE  [l EXCEPT !.state = x, !.saved = y]
           = [state |-> x, saved |-> y, current |-> l.current, name |-> l.name]
<1>1. PICK a \in States, b \in Saved, n \in Nat, k \in Key \cup {"none"} :
        l = [state |-> a, saved |-> b, current |-> n, name |-> k]
  BY DEF Levels
<1>2. [l EXCEPT !.state = x] = [state |-> x, saved |-> b, current |-> n, name |-> k]
  BY <1>1
<1>3. PICK m : m = [l EXCEPT !.state = x]  OBVIOUS
<1>4. m = [state |-> x, saved |-> b, current |-> n, name |-> k]  BY <1>2, <1>3
<1>5. [m EXCEPT !.saved = y]
        = [state |-> x, saved |-> y, current |-> n, name |-> k]
  BY <1>4
<1>6. l.current = n /\ l.name = k  BY <1>1
<1> QED BY <1>3, <1>5, <1>6

LEMMA LevelWithValue ==
  ASSUME NEW l \in Levels, NEW x, NEW y, NEW n, NEW m,
         m = [l EXCEPT !.state = x, !.saved = y, !.current = n]
  PROVE  m = [state |-> x, saved |-> y, current |-> n, name |-> l.name]
<1>1. PICK i : i = [l EXCEPT !.state = x, !.saved = y]  OBVIOUS
<1>2. i = [state |-> x, saved |-> y, current |-> l.current, name |-> l.name]
  BY <1>1, LevelThen
<1>3. [i EXCEPT !.current = n]
        = [state |-> x, saved |-> y, current |-> n, name |-> l.name]
  BY <1>2
<1> QED BY <1>1, <1>3

LEMMA LevelWithName ==
  ASSUME NEW l \in Levels, NEW x, NEW y, NEW k, NEW m,
         m = [l EXCEPT !.state = x, !.saved = y, !.name = k]
  PROVE  m = [state |-> x, saved |-> y, current |-> l.current, name |-> k]
<1>1. PICK i : i = [l EXCEPT !.state = x, !.saved = y]  OBVIOUS
<1>2. i = [state |-> x, saved |-> y, current |-> l.current, name |-> l.name]
  BY <1>1, LevelThen
<1>3. [i EXCEPT !.name = k]
        = [state |-> x, saved |-> y, current |-> l.current, name |-> k]
  BY <1>2
<1> QED BY <1>1, <1>3

(* How an iteration ends.                                                  *)
LEMMA EndsWell ==
  ASSUME TypeRest, phase = "parse", Break \/ Redo
  PROVE  /\ pos' \in 1 .. Len(text) + 1 /\ err' \in Errors
         /\ phase' \in {"parse", "out"}
<1>1. text \in Seq(Char) /\ Len(text) \in Nat
  BY TokenerAssumption DEF TypeRest
<1>2. pos \in 1 .. Len(text) + 1 /\ err \in Errors  BY DEF TypeRest
<1>3. CASE Redo  BY <1>2, <1>3 DEF Redo
<1>4. CASE Break
  <2>1. CASE c # "nul"
    <3>1. pos <= Len(text)  BY <1>1, <1>2, <2>1 DEF c
    <3> QED BY <1>1, <1>2, <1>4, <2>1, <3>1 DEF Break
  <2>2. CASE c = "nul"  BY <1>2, <1>4, <2>2 DEF Break, Errors
  <2> QED BY <2>1, <2>2
<1> QED BY <1>3, <1>4

(* Spaces and comments, and the end of them.                               *)
LEMMA SpacesTo ==
  ASSUME IInv, phase = "parse", UNCHANGED <<text, obj, heap, ret>>,
         Break \/ Redo, top.state \in Spaces,
         NEW x \in Spaces \cup {top.saved}, To(x)
  PROVE  IInv'
<1>1. /\ top \in Levels /\ Holds(heap, top) /\ TypeRest
  BY TopFacts, TypeIs DEF IInv
<1> DEFINE l == [state |-> x, saved |-> top.saved, current |-> top.current,
                 name |-> top.name]
<1>2. top.saved \in Saved /\ top.saved \in States
  BY <1>1, LevelIs DEF Saved, States
<1>3. x \in States  BY <1>2 DEF Spaces, States
<1>4. l \in Levels  BY <1>1, <1>3, LevelIs, LevelTo
<1>5. [top EXCEPT !.state = x] = l  BY <1>1, LevelIs
<1>6. stack' = WithTop(stack, l)  BY <1>5 DEF To, Level, WithTop
<1>7. top.saved \notin Spaces /\ top.saved \notin Adds
  BY <1>2 DEF Saved, Spaces, Adds
<1>8. Doing(l) = Doing(top) /\ l.state \notin Adds /\ top.state \notin Adds
  BY <1>7 DEF Doing, Spaces, Adds
<1>9. l.current = top.current /\ l.name = top.name  OBVIOUS
<1>10. Holds(heap, l)  BY <1>1, <1>8, <1>9 DEF Holds
<1>11. /\ pos' \in 1 .. Len(text) + 1 /\ err' \in Errors
       /\ phase' \in {"parse", "out"}
  BY <1>1, EndsWell
<1> HIDE DEF l
<1> QED BY <1>4, <1>6, <1>8, <1>9, <1>10, <1>11, QuietStep

(* The next thing to do, behind spaces, with the same value.               *)
LEMMA ThenDoes ==
  ASSUME IInv, phase = "parse", UNCHANGED <<text, obj, heap, ret>>,
         Break \/ Redo, top.state \notin Spaces \cup Adds,
         NEW y \in Saved, NEW k \in Key \cup {"none"},
         stack' = WithTop(stack, [state |-> "eatws", saved |-> y,
                                  current |-> top.current, name |-> k]),
         Holds(heap, [state |-> y, saved |-> y, current |-> top.current,
                      name |-> k])
  PROVE  IInv'
<1> DEFINE l == [state |-> "eatws", saved |-> y, current |-> top.current,
                 name |-> k]
           m == [state |-> y, saved |-> y, current |-> top.current,
                 name |-> k]
<1>1. /\ top \in Levels /\ TypeRest  BY TopFacts, TypeIs DEF IInv
<1>2. l \in Levels  BY <1>1, LevelIs, LevelTo DEF States
<1>3. Doing(l) = y /\ Doing(m) = y  BY DEF Doing, Spaces
<1>4. l.current = m.current /\ l.name = m.name /\ l.current = top.current
  OBVIOUS
<1>5. Holds(heap, m)  OBVIOUS
<1>6. l.state \notin Adds /\ top.state \notin Adds  BY DEF Adds
<1>7. /\ pos' \in 1 .. Len(text) + 1 /\ err' \in Errors
      /\ phase' \in {"parse", "out"}
  BY <1>1, EndsWell
<1>8. stack' = WithTop(stack, l)  OBVIOUS
<1> HIDE DEF l, m
<1>9. Holds(heap, l)  BY <1>3, <1>4, <1>5 DEF Holds
<1> QED BY <1>2, <1>4, <1>6, <1>7, <1>8, <1>9, QuietStep

LEMMA SpaceThenDoes ==
  ASSUME IInv, phase = "parse", UNCHANGED <<text, obj, heap, ret>>,
         Break \/ Redo, top.state \notin Spaces \cup Adds,
         NEW y \in {"finish", "array", "object_field_start", "object_value"},
         SpaceThen(y),
         y = "array" => top.state = "array_sep",
         y = "object_field_start" => top.state = "object_sep",
         y = "object_value" => top.state = "object_field_end"
  PROVE  IInv'
<1>1. /\ top \in Levels /\ Holds(heap, top)  BY TopFacts
<1>2. [top EXCEPT !.state = "eatws", !.saved = y]
        = [state |-> "eatws", saved |-> y, current |-> top.current,
           name |-> top.name]
  BY <1>1, LevelThen
<1>3. stack' = WithTop(stack, [state |-> "eatws", saved |-> y,
                               current |-> top.current, name |-> top.name])
  BY <1>2 DEF SpaceThen, Level, WithTop
<1> DEFINE m == [state |-> y, saved |-> y, current |-> top.current,
                 name |-> top.name]
<1>4. Doing(m) = y /\ m.current = top.current /\ m.name = top.name
  BY DEF Doing, Spaces
<1>5. Doing(top) = top.state  BY DEF Doing
<1>6. Holds(heap, m)
  <2> HIDE DEF m
  <2>1. CASE y = "finish"  BY <1>4, <2>1 DEF Holds
  <2>2. CASE y = "array"  BY <1>1, <1>4, <1>5, <2>2 DEF Holds
  <2>3. CASE y = "object_field_start"  BY <1>1, <1>4, <1>5, <2>3 DEF Holds
  <2>4. CASE y = "object_value"  BY <1>1, <1>4, <1>5, <2>4 DEF Holds
  <2> QED BY <2>1, <2>2, <2>3, <2>4
<1>7. y \in Saved /\ top.name \in Key \cup {"none"}  BY <1>1, LevelIs DEF Saved
<1> QED BY <1>3, <1>6, <1>7, ThenDoes

(* An error.                                                               *)
LEMMA Fails ==
  ASSUME IInv, phase = "parse", top.state \notin Adds,
         UNCHANGED <<text, obj, heap, ret>>, NEW e \in Errors, Fail(e)
  PROVE  IInv'
<1>1. /\ pos' \in 1 .. Len(text) + 1 /\ err' \in Errors
      /\ phase' \in {"parse", "out"}
      /\ UNCHANGED <<text, obj, heap, ret, stack>>
  BY TypeIs DEF IInv, TypeRest, Fail
<1> QED BY <1>1, StandingStep
-----------------------------------------------------------------------------
(* Every action keeps the invariant.                                       *)
LEMMA EatwsStep ==
  ASSUME IInv, Eatws PROVE IInv'
<1>1. /\ phase = "parse" /\ top.state = "eatws"
      /\ UNCHANGED <<text, obj, heap, ret>>
      /\ top \in Levels /\ TypeRest /\ top.state \in Spaces
  BY TopFacts, TypeIs DEF Eatws, In, Same, IInv, Spaces
<1>2. CASE c = "nl"
  <2>1. Break /\ stack' = stack  BY <1>2 DEF Eatws
  <2>2. /\ pos' \in 1 .. Len(text) + 1 /\ err' \in Errors
        /\ phase' \in {"parse", "out"} /\ top.state \notin Adds
    BY <1>1, <2>1, EndsWell DEF Adds
  <2> QED BY <1>1, <2>1, <2>2, StandingStep
<1>3. CASE c = "slash"
  <2>1. To("comment_start") /\ Break  BY <1>3 DEF Eatws
  <2> QED BY <1>1, <2>1, SpacesTo DEF Spaces
<1>4. CASE c # "nl" /\ c # "slash"
  <2>1. To(top.saved) /\ Redo  BY <1>4 DEF Eatws
  <2> QED BY <1>1, <2>1, SpacesTo
<1> QED BY <1>2, <1>3, <1>4

LEMMA CommentStep ==
  ASSUME IInv, Comment PROVE IInv'
<1>1. /\ phase = "parse"
      /\ top.state \in {"comment_start", "comment", "comment_end", "comment_eol"}
      /\ UNCHANGED <<text, obj, heap, ret>>
      /\ top.state \in Spaces /\ top.state \notin Adds
  BY DEF Comment, In, Same, Spaces, Adds
<1>2. \/ \E x \in Spaces : To(x) /\ Break
      \/ Fail("comment")
  <2>1. CASE top.state = "comment_start"
    <3>1. CASE c = "star"  BY <2>1, <3>1 DEF Comment, In, Spaces
    <3>2. CASE c = "slash"  BY <2>1, <3>2 DEF Comment, In, Spaces
    <3>3. CASE c # "star" /\ c # "slash"  BY <2>1, <3>3 DEF Comment, In, Spaces
    <3> QED BY <3>1, <3>2, <3>3
  <2>2. CASE top.state = "comment"  BY <2>2 DEF Comment, In, Spaces
  <2>3. CASE top.state = "comment_end"  BY <2>3 DEF Comment, In, Spaces
  <2>4. CASE top.state = "comment_eol"  BY <2>4 DEF Comment, In, Spaces
  <2> QED BY <1>1, <2>1, <2>2, <2>3, <2>4
<1>3. CASE Fail("comment")  BY <1>1, <1>3, Fails DEF Errors
<1>4. ASSUME NEW x \in Spaces, To(x), Break
      PROVE  IInv'
  BY <1>1, <1>4, SpacesTo
<1> QED BY <1>2, <1>3, <1>4
-----------------------------------------------------------------------------
(* The owners in a state that has not returned: the levels, and the value  *)
(* on its way has one more.                                                *)
OwnersOf(h, s, v) == [n \in DOMAIN h |-> Holding(s, n) + If(v = n)]

Way(s, ph, v) == IF ph = "parse" /\ s[Len(s)].state \in Adds THEN v ELSE Null

LEMMA OwnersOfIsNat ==
  ASSUME NEW h, NEW s \in Seq(Levels), NEW v
  PROVE  OwnersOf(h, s, v) \in [DOMAIN h -> Nat]
<1>1. \A n \in DOMAIN h : Holding(s, n) \in Nat /\ If(v = n) \in Nat
  BY HoldingIs DEF If
<1> QED BY <1>1 DEF OwnersOf

LEMMA SumOfThree ==
  ASSUME NEW a \in Nat, NEW b \in Nat, NEW d, d = 0
  PROVE  (a + b) + d = a + b
OBVIOUS

LEMMA Owned ==
  ASSUME IInv, phase # "done"
  PROVE  Balanced(heap, OwnersOf(heap, stack, Way(stack, phase, obj)))
<1>1. /\ \A n : Holding(stack, n) \in Nat /\ Below(stack, n) \in Nat
      /\ ret = Null /\ DOMAIN heap = 1 .. Len(heap)
  BY TopFacts
<1> DEFINE v == Way(stack, phase, obj)
<1>2. ASSUME NEW n \in DOMAIN heap
      PROVE  Owners[n] = OwnersOf(heap, stack, v)[n]
  <2>1. n # Null /\ ret # n  BY <1>1 DEF Null
  <2>2. If(ret = n) = 0 /\ If(OnItsWay /\ obj = n) \in Nat  BY <2>1 DEF If
  <2>3. If(OnItsWay /\ obj = n) = If(v = n)
    <3>1. OnItsWay <=> phase = "parse" /\ stack[Len(stack)].state \in Adds
      BY DEF OnItsWay, top, Adds
    <3>2. v = n <=> OnItsWay /\ obj = n  BY <2>1, <3>1 DEF Way
    <3> QED BY <3>2 DEF If
  <2>4. (Holding(stack, n) + If(OnItsWay /\ obj = n)) + If(ret = n)
          = Holding(stack, n) + If(OnItsWay /\ obj = n)
    BY <1>1, <2>2, SumOfThree
  <2>5. Owners[n] = (Holding(stack, n) + If(OnItsWay /\ obj = n)) + If(ret = n)
    BY DEF Owners
  <2>6. OwnersOf(heap, stack, v)[n] = Holding(stack, n) + If(v = n)
    BY DEF OwnersOf
  <2> QED BY <2>3, <2>4, <2>5, <2>6
<1>3. Balanced(heap, Owners)  BY DEF IInv
<1> QED BY <1>2, <1>3 DEF Balanced

(* A step to a state that has not returned.                                *)
LEMMA Moved ==
  ASSUME NEW h, NEW s, heap' = h, stack' = s, HeapOK(h), StackOK(h, s),
         TypeRest', s # << >>, ret' = Null, phase' \in {"parse", "out"},
         Balanced(h, OwnersOf(h, s, Way(s, phase', obj')))
  PROVE  IInv'
<1>1. /\ s \in Seq(Levels) /\ DOMAIN h = 1 .. Len(h)
      /\ \A n : Holding(s, n) \in Nat
  BY HoldingIs, HeapFacts DEF StackOK
<1> DEFINE v == Way(s, phase', obj')
<1>2. ASSUME NEW n \in DOMAIN h
      PROVE  Owners'[n] = OwnersOf(h, s, v)[n]
  <2>1. n # Null /\ ret' # n  BY <1>1 DEF Null
  <2>2. If(ret' = n) = 0 /\ If(OnItsWay' /\ obj' = n) \in Nat  BY <2>1 DEF If
  <2>3. If(OnItsWay' /\ obj' = n) = If(v = n)
    <3>1. OnItsWay' <=> phase' = "parse" /\ s[Len(s)].state \in Adds
      BY DEF OnItsWay, top, Adds
    <3>2. v = n <=> OnItsWay' /\ obj' = n  BY <2>1, <3>1 DEF Way
    <3> QED BY <3>2 DEF If
  <2>4. (Holding(s, n) + If(OnItsWay' /\ obj' = n)) + If(ret' = n)
          = Holding(s, n) + If(OnItsWay' /\ obj' = n)
    BY <1>1, <2>2, SumOfThree
  <2>5. Owners'[n] = (Holding(s, n) + If(OnItsWay' /\ obj' = n)) + If(ret' = n)
    BY DEF Owners
  <2>6. OwnersOf(h, s, v)[n] = Holding(s, n) + If(v = n)  BY DEF OwnersOf
  <2> QED BY <2>3, <2>4, <2>5, <2>6
<1>3. Balanced(h, Owners')  BY <1>2 DEF Balanced
<1>4. TypeOK'  BY TypeFrom DEF TypeOK, TypeRest
<1> QED BY <1>3, <1>4 DEF IInv
-----------------------------------------------------------------------------
(* One level more, one level less, and the same levels on another heap.    *)
LEMMA PushKeeps ==
  ASSUME NEW h, NEW s, StackOK(h, s), s # << >>,
         s[Len(s)].state \in Adds,
         NEW l \in Levels, l.current \in 0 .. Len(h), Holds(h, l)
  PROVE  /\ StackOK(h, Append(s, l)) /\ Append(s, l) # << >>
         /\ Len(Append(s, l)) = Len(s) + 1
<1> DEFINE t == Append(s, l)
           N == Len(s)
<1>1. s \in Seq(Levels)  BY DEF StackOK
<1>2. N \in Nat /\ DOMAIN s = 1 .. N  BY <1>1
<1>3. /\ t \in Seq(Levels) /\ Len(t) = N + 1 /\ t[N + 1] = l
      /\ \A i \in 1 .. N : t[i] = s[i]
  BY <1>1, StackMoves
<1>4. DOMAIN t = 1 .. N + 1 /\ t # << >>  BY <1>2, <1>3
<1> HIDE DEF t
<1>5. ASSUME NEW i \in 1 .. N + 1
      PROVE  /\ t[i].current \in 0 .. Len(h) /\ Holds(h, t[i])
             /\ i # N + 1 => t[i].state \in Adds
  <2>1. CASE i = N + 1  BY <1>3, <2>1
  <2>2. CASE i # N + 1
    <3>1. i \in 1 .. N /\ t[i] = s[i]  BY <1>2, <1>3, <2>2
    <3>2. /\ s[i].current \in 0 .. Len(h) /\ Holds(h, s[i])
          /\ i # N => s[i].state \in Adds
      BY <1>2, <3>1 DEF StackOK
    <3> QED BY <3>1, <3>2
  <2> QED BY <2>1, <2>2
<1>6. Len(t) = N + 1 /\ t # << >>  BY <1>3, <1>4
<1> HIDE DEF N
<1>7. StackOK(h, t)  BY <1>3, <1>4, <1>5, <1>6 DEF StackOK
<1> QED BY <1>6, <1>7 DEF t, N

LEMMA PopKeeps ==
  ASSUME NEW h, NEW s, StackOK(h, s), Len(s) > 1
  PROVE  /\ StackOK(h, Front(s)) /\ Front(s) # << >>
         /\ Len(Front(s)) = Len(s) - 1
         /\ Front(s)[Len(Front(s))].state \in Adds
<1> DEFINE t == Front(s)
           N == Len(s)
<1>1. s \in Seq(Levels) /\ s # << >>  BY DEF StackOK
<1>2. N \in Nat /\ DOMAIN s = 1 .. N /\ N > 1  BY <1>1
<1>3. PICK l : l = s[N]  OBVIOUS
<1>4. l \in Levels  BY <1>1, <1>2, <1>3
<1>5. /\ t \in Seq(Levels) /\ Len(t) = N - 1
      /\ \A i \in 1 .. N - 1 : t[i] = s[i]
  BY <1>1, <1>4, StackMoves
<1>6. DOMAIN t = 1 .. N - 1 /\ t # << >>  BY <1>2, <1>5
<1> HIDE DEF t
<1>7. ASSUME NEW i \in 1 .. N - 1
      PROVE  /\ t[i].current \in 0 .. Len(h) /\ Holds(h, t[i])
             /\ t[i].state \in Adds
  <2>1. i \in DOMAIN s /\ i # N /\ t[i] = s[i]  BY <1>2, <1>5
  <2> QED BY <2>1 DEF StackOK
<1>8. N - 1 \in 1 .. N - 1  BY <1>2
<1>9. StackOK(h, t) /\ t[Len(t)].state \in Adds
  BY <1>5, <1>6, <1>7, <1>8 DEF StackOK
<1> QED BY <1>5, <1>6, <1>9 DEF t

LEMMA StackKept ==
  ASSUME NEW h, NEW g, HeapOK(h), HeapOK(g), SameTypes(h, g),
         NEW s, StackOK(h, s)
  PROVE  StackOK(g, s)
<1>1. DOMAIN h = 1 .. Len(h) /\ DOMAIN g = 1 .. Len(g) /\ Len(g) = Len(h)
      /\ \A m \in DOMAIN h : g[m].type = h[m].type
  BY HeapFacts DEF SameTypes
<1>2. DOMAIN h \subseteq DOMAIN g  BY <1>1
<1>3. \A i \in DOMAIN s : Holds(g, s[i])
  <2> SUFFICES ASSUME NEW i \in DOMAIN s
               PROVE  Holds(g, s[i])
    OBVIOUS
  <2>1. Holds(h, s[i])  BY DEF StackOK
  <2> QED BY <1>1, <1>2, <2>1, HoldsKept
<1> QED BY <1>1, <1>3 DEF StackOK
-----------------------------------------------------------------------------
(* Into a value inside the one on top.                                     *)
LEMMA DeeperStep ==
  ASSUME IInv, phase = "parse", UNCHANGED <<text, obj, heap, ret>>,
         NEW a \in Adds, Deeper(a),
         \/ top.state = "array" /\ a = "array_add"
         \/ top.state = "object_value" /\ a = "object_value_add"
  PROVE  IInv'
<1>1. /\ stack \in Seq(Levels) /\ stack # << >> /\ Len(stack) \in Nat
      /\ top \in Levels /\ top.current \in 0 .. Len(heap) /\ Holds(heap, top)
      /\ ret = Null /\ Len(heap) \in Nat /\ HeapOK(heap)
      /\ StackOK(heap, stack) /\ TypeRest /\ top.state \notin Adds
      /\ DOMAIN heap = 1 .. Len(heap)
      /\ \A n : Holding(stack, n) = Below(stack, n) + If(top.current = n)
      /\ \A n : Holding(stack, n) \in Nat
  BY TopFacts, TypeIs DEF IInv, Adds
<1>2. CASE TooDeep  BY <1>1, <1>2, Fails DEF Deeper, Errors
<1>3. CASE ~TooDeep
  <2> DEFINE l == [state |-> a, saved |-> top.saved, current |-> top.current,
                   name |-> top.name]
             s == WithTop(stack, l)
             t == Append(s, NewLevel)
  <2>1. l \in Levels /\ a \in States
    BY <1>1, LevelIs, LevelTo DEF Adds, States
  <2>2. [top EXCEPT !.state = a] = l  BY <1>1, LevelIs
  <2>3. stack' = t /\ UNCHANGED <<pos, err, phase>>
    <3>1. /\ stack' = Append([stack EXCEPT ![Len(stack)].state = a], NewLevel)
          /\ UNCHANGED <<pos, err, phase>>
      BY <1>3 DEF Deeper, Redo
    <3>2. [stack EXCEPT ![Len(stack)].state = a]
            = [stack EXCEPT ![Len(stack)] = [top EXCEPT !.state = a]]
      BY DEF top
    <3> QED BY <2>2, <3>1, <3>2 DEF WithTop
  <2>4. l.current = top.current /\ l.name = top.name /\ l.state = a  OBVIOUS
  <2>5. Holds(heap, l)
    <3>1. Doing(top) = top.state /\ Doing(l) = a
      BY <2>4 DEF Doing, Spaces, Adds
    <3> HIDE DEF l
    <3> QED BY <1>1, <2>4, <3>1 DEF Holds
  <2> HIDE DEF l
  <2>6. /\ s \in Seq(Levels) /\ Len(s) = Len(stack) /\ s[Len(stack)] = l
        /\ \A n : Below(s, n) = Below(stack, n)
    BY <1>1, <2>1, TopIs
  <2>7. StackOK(heap, s)
    <3>1. /\ Len(heap) <= Len(heap) /\ l.current \in 0 .. Len(heap)
          /\ \A m \in DOMAIN heap : heap[m].type = heap[m].type
      BY <1>1, <2>4
    <3>2. /\ Len(heap) \in Nat /\ StackOK(heap, stack) /\ stack # << >>
          /\ l \in Levels /\ Holds(heap, l) /\ DOMAIN heap \subseteq DOMAIN heap
      BY <1>1, <2>1, <2>5
    <3> QED BY ONLY <3>1, <3>2, TopKeeps
  <2> HIDE DEF s
  <2>8. s # << >> /\ s[Len(s)].state \in Adds /\ s[Len(s)] = l
    BY <1>1, <2>4, <2>6
  <2>9. /\ NewLevel \in Levels /\ NewLevel.current = Null
        /\ NewLevel.state = "eatws" /\ Doing(NewLevel) = "start"
    BY DEF NewLevel, Levels, States, Saved, Null, Doing, Spaces
  <2>10. NewLevel.current \in 0 .. Len(heap) /\ Holds(heap, NewLevel)
    BY <1>1, <2>9 DEF Holds, Null
  <2>11. StackOK(heap, t) /\ t # << >> /\ Len(t) = Len(s) + 1
    BY <2>7, <2>8, <2>9, <2>10, PushKeeps
  <2>12. /\ t \in Seq(Levels) /\ t[Len(s) + 1] = NewLevel
         /\ \A n : Below(t, n) = Holding(s, n)
    <3>1. s \in Seq(Levels) /\ s # << >> /\ NewLevel \in Levels
      BY <2>6, <2>8, <2>9
    <3>2. /\ Append(s, NewLevel) \in Seq(Levels)
          /\ Append(s, NewLevel)[Len(s) + 1] = NewLevel
          /\ \A n : Below(Append(s, NewLevel), n) = Holding(s, n)
      BY ONLY <3>1, StackMoves
    <3> QED BY <3>2
  <2> HIDE DEF t
  <2>13. ASSUME NEW n \in DOMAIN heap
         PROVE  Holding(t, n) = Holding(stack, n)
    <3>1. t[Len(t)].current # n  BY <1>1, <2>9, <2>11, <2>12 DEF Null
    <3>2. Holding(t, n) = Below(t, n) + If(t[Len(t)].current = n)
      BY <2>11, <2>12, HoldingIs
    <3>3. Holding(s, n) = Below(s, n) + If(s[Len(s)].current = n)
      BY <2>6, <2>8, HoldingIs
    <3>4. Holding(s, n) = Holding(stack, n)  BY <1>1, <2>4, <2>6, <2>8, <3>3
    <3>5. If(t[Len(t)].current = n) = 0  BY <3>1 DEF If
    <3>6. Below(t, n) = Holding(stack, n) /\ Holding(stack, n) \in Nat
      BY <1>1, <2>12, <3>4
    <3> QED BY ONLY <3>2, <3>5, <3>6
  <2>14. /\ Way(stack, phase, obj) = Null
         /\ Way(t, phase', obj') = Null
    BY <1>1, <2>9, <2>11, <2>12 DEF Way, top, Adds
  <2>15. Balanced(heap, OwnersOf(heap, t, Null))
    <3>1. Balanced(heap, OwnersOf(heap, stack, Null))  BY <2>14, Owned
    <3>2. OwnersOf(heap, t, Null) = OwnersOf(heap, stack, Null)
      BY <2>13 DEF OwnersOf
    <3> QED BY <3>1, <3>2
  <2>16. TypeRest'
    <3>1. Len(t) <= MaxDepth
      <4>1. Len(t) = Len(stack) + 1  BY <2>6, <2>11
      <4>2. ~(Len(stack) - 1 >= MaxDepth - 1)  BY <1>3 DEF TooDeep, depth
      <4> QED BY <1>1, <4>1, <4>2, TokenerAssumption
    <3> QED BY <1>1, <2>3, <3>1 DEF TypeRest
  <2>17. /\ heap' = heap /\ stack' = t /\ ret' = Null
         /\ phase' \in {"parse", "out"}
    BY <1>1, <2>3
  <2>18. Balanced(heap, OwnersOf(heap, t, Way(t, phase', obj')))
    BY <2>14, <2>15
  <2> QED BY <1>1, <2>11, <2>16, <2>17, <2>18, Moved
<1> QED BY <1>2, <1>3
-----------------------------------------------------------------------------
(* Nobody has a node that is not there.                                    *)
LEMMA NobodyBelow ==
  ASSUME NEW h, NEW s, StackOK(h, s), NEW n, n \notin 0 .. Len(h)
  PROVE  Below(s, n) = 0
<1> DEFINE none == {i \in 1 .. Len(s) - 1 : s[i].current = n}
<1>1. s \in Seq(Levels)  BY DEF StackOK
<1>2. \A i \in 1 .. Len(s) - 1 : i \in DOMAIN s  BY <1>1
<1>3. \A i \in 1 .. Len(s) - 1 : s[i].current \in 0 .. Len(h)
  BY <1>2 DEF StackOK
<1>4. none = {}  BY <1>3
<1> QED BY <1>4, FS_EmptySet DEF Below

(* A value begins.                                                         *)
LEMMA NewStep ==
  ASSUME IInv, phase = "parse", top.state = "start",
         UNCHANGED <<text, obj, ret>>, Break,
         NEW node \in Nodes, node.refs = 1, DOMAIN Children(node) = {},
         node.type = "object" => Good(node.val),
         heap' = Append(heap, node),
         NEW y \in {"finish", "array", "object_field_start"},
         y = "array" => node.type = "array",
         y = "object_field_start" => node.type = "object",
         stack' = WithTop(stack, [state |-> "eatws", saved |-> y,
                                  current |-> Len(heap) + 1,
                                  name |-> top.name])
  PROVE  IInv'
<1> DEFINE N == Len(heap)
           l == [state |-> "eatws", saved |-> y, current |-> N + 1,
                 name |-> top.name]
           s == WithTop(stack, l)
           g == Append(heap, node)
           old == OwnersOf(heap, stack, Null)
           new == [m \in DOMAIN g |-> IF m = N + 1 THEN 1 ELSE old[m]]
<1>1. /\ stack \in Seq(Levels) /\ stack # << >> /\ Len(stack) \in Nat
      /\ top \in Levels /\ Holds(heap, top)
      /\ ret = Null /\ N \in Nat /\ HeapOK(heap)
      /\ StackOK(heap, stack) /\ TypeRest
      /\ DOMAIN heap = 1 .. N
      /\ \A n : Holding(stack, n) = Below(stack, n) + If(top.current = n)
      /\ \A n : Holding(stack, n) \in Nat /\ Below(stack, n) \in Nat
  BY TopFacts, TypeIs DEF IInv
<1>2. top.current = Null /\ Way(stack, phase, obj) = Null
  BY <1>1 DEF Holds, Doing, Spaces, Way, top, Adds
<1>3. old \in [DOMAIN heap -> Nat] /\ Balanced(heap, old)
  BY <1>1, <1>2, OwnersOfIsNat, Owned
<1> HIDE DEF old
<1>4. /\ HeapOK(g) /\ Len(g) = N + 1 /\ g[N + 1] = node
      /\ \A m \in DOMAIN heap : g[m].type = heap[m].type
      /\ Balanced(g, new)
  <2>1. /\ HeapOK(heap) /\ node \in Nodes /\ node.refs = 1
        /\ DOMAIN Children(node) = {}
        /\ node.type = "object" => Good(node.val)
    BY <1>1
  <2> QED BY ONLY <1>3, <2>1, NewBalances
<1>5. DOMAIN g = 1 .. N + 1  BY <1>4, HeapFacts
<1>6. /\ l \in Levels /\ l.current = N + 1 /\ l.state = "eatws" /\ Doing(l) = y
  <2>1. y \in Saved /\ N + 1 \in Nat /\ "eatws" \in States
        /\ top.name \in Key \cup {"none"}
    BY <1>1, LevelIs DEF Saved, States
  <2>2. l \in Levels  BY <2>1, <1>1, LevelTo
  <2> QED BY <2>2 DEF Doing, Spaces
<1>7. heap' = g /\ stack' = s  OBVIOUS
<1> HIDE DEF l, g
<1>8. l.current \in 0 .. Len(g) /\ Holds(g, l)
  <2>1. l.current \in DOMAIN g /\ g[l.current] = node
    BY <1>1, <1>4, <1>5, <1>6
  <2>2. l.current \in 0 .. Len(g)  BY <1>1, <1>4, <1>6
  <2>3. CASE y = "finish"  BY <1>6, <2>2, <2>3 DEF Holds
  <2>4. CASE y = "array"  BY <1>6, <2>1, <2>2, <2>4 DEF Holds
  <2>5. CASE y = "object_field_start"  BY <1>6, <2>1, <2>2, <2>5 DEF Holds
  <2> QED BY <2>3, <2>4, <2>5
<1>9. /\ s \in Seq(Levels) /\ Len(s) = Len(stack) /\ s[Len(stack)] = l
      /\ \A n : Below(s, n) = Below(stack, n)
  BY <1>1, <1>6, TopIs
<1>10. StackOK(g, s)
  <2>1. /\ Len(heap) \in Nat /\ Len(g) \in Nat /\ Len(heap) <= Len(g)
        /\ DOMAIN heap \subseteq DOMAIN g
        /\ \A m \in DOMAIN heap : g[m].type = heap[m].type
    BY <1>1, <1>4, <1>5
  <2>2. StackOK(heap, stack) /\ stack # << >> /\ l \in Levels
        /\ l.current \in 0 .. Len(g) /\ Holds(g, l)
    BY <1>1, <1>6, <1>8
  <2> QED BY ONLY <2>1, <2>2, TopKeeps
<1> HIDE DEF s
<1>11. s # << >> /\ s[Len(s)] = l  BY <1>1, <1>9
<1>12. ASSUME NEW n \in DOMAIN g
       PROVE  Holding(s, n) + If(Null = n) = new[n]
  <2>1. Holding(s, n) = Below(stack, n) + If(N + 1 = n)
    <3>1. s \in Seq(Levels) /\ s # << >>  BY <1>9, <1>11
    <3>2. Holding(s, n) = Below(s, n) + If(s[Len(s)].current = n)
      BY ONLY <3>1, HoldingIs
    <3>3. s[Len(s)].current = N + 1 /\ Below(s, n) = Below(stack, n)
      BY <1>6, <1>9, <1>11
    <3> QED BY ONLY <3>2, <3>3
  <2>2. If(Null = n) = 0 /\ n # Null  BY <1>5 DEF If, Null
  <2>3. CASE n = N + 1
    <3>1. Below(stack, n) = 0
      <4>1. n \notin 0 .. Len(heap)  BY <1>1, <2>3
      <4> QED BY <1>1, <4>1, NobodyBelow
    <3>2. If(N + 1 = n) = 1  BY <2>3 DEF If
    <3>3. new[n] = 1  BY <2>3
    <3> QED BY ONLY <2>1, <2>2, <3>1, <3>2, <3>3
  <2>4. CASE n # N + 1
    <3>1. n \in DOMAIN heap  BY <1>1, <1>5, <2>4
    <3>2. If(N + 1 = n) = 0 /\ If(top.current = n) = 0
      BY <1>2, <2>2, <2>4 DEF If
    <3>3. new[n] = Holding(stack, n) + If(Null = n)
      BY <2>4, <3>1 DEF old, OwnersOf
    <3>4. Holding(stack, n) = Below(stack, n) + If(top.current = n)
          /\ Below(stack, n) \in Nat
      BY <1>1
    <3> QED BY ONLY <2>1, <2>2, <3>2, <3>3, <3>4
  <2> QED BY <2>3, <2>4
<1>13. Balanced(g, OwnersOf(g, s, Null))
  <2>1. OwnersOf(g, s, Null) = new  BY <1>12 DEF OwnersOf
  <2> QED BY <1>4, <2>1
<1>14. Way(s, phase', obj') = Null  BY <1>6, <1>11 DEF Way, Adds
<1>15. TypeRest' /\ ret' = Null /\ phase' \in {"parse", "out"}
  <2>1. /\ pos' \in 1 .. Len(text) + 1 /\ err' \in Errors
        /\ phase' \in {"parse", "out"}
    BY <1>1, EndsWell
  <2>2. Len(s) <= MaxDepth /\ obj \in 0 .. Len(g) /\ ret \in 0 .. Len(g)
        /\ text \in Texts
    BY <1>1, <1>4, <1>9 DEF TypeRest
  <2> QED BY <1>1, <1>7, <2>1, <2>2 DEF TypeRest
<1>16. Balanced(g, OwnersOf(g, s, Way(s, phase', obj')))  BY <1>13, <1>14
<1> QED BY <1>4, <1>7, <1>10, <1>11, <1>15, <1>16, Moved
-----------------------------------------------------------------------------
(* A value begins: with a node of its own, as null, or not at all.         *)
LEMMA StartStep ==
  ASSUME IInv, Start PROVE IInv'
<1>1. /\ phase = "parse" /\ top.state = "start"
      /\ UNCHANGED <<text, obj, ret>>
      /\ top \in Levels /\ Holds(heap, top)
      /\ top.state \notin Spaces \cup Adds
  BY TopFacts DEF Start, In, Spaces, Adds
<1>2. top.current = Null /\ top.name \in Key \cup {"none"}
  BY <1>1, LevelIs DEF Holds, Doing
<1>3. ASSUME NEW y, NEW n
      PROVE  [top EXCEPT !.state = "eatws", !.saved = y, !.current = n]
               = [state |-> "eatws", saved |-> y, current |-> n,
                  name |-> top.name]
  <2>1. PICK m : m = [top EXCEPT !.state = "eatws", !.saved = y, !.current = n]
    OBVIOUS
  <2>2. m = [state |-> "eatws", saved |-> y, current |-> n, name |-> top.name]
    BY ONLY <1>1, <2>1, LevelWithValue
  <2> QED BY <2>1, <2>2
<1> DEFINE L(y, n) == [state |-> "eatws", saved |-> y, current |-> n,
                       name |-> top.name]
           object == Node("object", NewTable(DefEntries))
           array == Node("array", << >>)
           leaf == Node("leaf", c)
<1>4. CASE /\ c \in {"{", "["}
           /\ NewNode(IF c = "{" THEN object ELSE array)
           /\ Level([top EXCEPT !.state = "eatws",
                                !.saved = IF c = "{" THEN "object_field_start"
                                                     ELSE "array",
                                !.current = NewId])
           /\ Break
  <2>1. CASE c = "{"
    <3>1. stack' = WithTop(stack, L("object_field_start", Len(heap) + 1))
      <4>1. stack' = WithTop(stack, [top EXCEPT !.state = "eatws",
                                                !.saved = "object_field_start",
                                                !.current = NewId])
        BY <1>4, <2>1 DEF Level, WithTop
      <4>2. [top EXCEPT !.state = "eatws", !.saved = "object_field_start",
                        !.current = NewId]
              = L("object_field_start", NewId)
        BY <1>3
      <4> QED BY <4>1, <4>2 DEF NewId
    <3>2. heap' = Append(heap, object)  BY <1>4, <2>1 DEF NewNode
    <3>3. /\ object \in Nodes /\ object.refs = 1 /\ object.type = "object"
          /\ Good(object.val) /\ DOMAIN Children(object) = {}
      <4>1. PICK t : t = NewTable(DefEntries)  OBVIOUS
      <4>2. Good(t) /\ t.order = << >>
        BY <4>1, LinkhashAssumption, NewTableGood DEF NewTable
      <4>3. t \in Table  BY <4>2 DEF Good
      <4>4. object = [type |-> "object", val |-> t, refs |-> 1]
        BY <4>1 DEF Node
      <4>5. object \in Nodes  BY <4>3, <4>4 DEF Nodes
      <4>6. Children(object) = [n \in ToSet(t.order) |-> t.slot[n].v]
        BY <4>4 DEF Children
      <4>7. ToSet(t.order) = {}  BY <4>2 DEF ToSet
      <4>8. DOMAIN Children(object) = {}  BY ONLY <4>6, <4>7
      <4>9. object.refs = 1 /\ object.type = "object" /\ object.val = t
        BY <4>4
      <4> QED BY ONLY <4>2, <4>5, <4>8, <4>9
    <3> HIDE DEF object
    <3> QED BY <1>1, <1>4, <3>1, <3>2, <3>3, NewStep
  <2>2. CASE c # "{"
    <3>1. stack' = WithTop(stack, L("array", Len(heap) + 1))
      <4>1. stack' = WithTop(stack, [top EXCEPT !.state = "eatws", !.saved = "array",
                                                !.current = NewId])
        BY <1>4, <2>2 DEF Level, WithTop
      <4>2. [top EXCEPT !.state = "eatws", !.saved = "array", !.current = NewId]
              = L("array", NewId)
        BY <1>3
      <4> QED BY <4>1, <4>2 DEF NewId
    <3>2. heap' = Append(heap, array)  BY <1>4, <2>2 DEF NewNode
    <3>3. /\ array \in Nodes /\ array.refs = 1 /\ array.type = "array"
          /\ DOMAIN Children(array) = {}
      <4>1. PICK s : s = << >>  OBVIOUS
      <4>2. s \in Seq(Nat) /\ DOMAIN s = {}  BY <4>1
      <4>3. array = [type |-> "array", val |-> s, refs |-> 1]  BY <4>1 DEF Node
      <4>4. array \in Nodes
        <5>1. [type |-> "array", val |-> s, refs |-> 1]
                \in [type : {"array"}, val : Seq(Nat), refs : Nat]
          BY <4>2
        <5> QED BY ONLY <4>3, <5>1 DEF Nodes
      <4>5. Children(array) = s  BY <4>3 DEF Children
      <4> QED BY <4>2, <4>3, <4>4, <4>5
    <3> HIDE DEF array
    <3> QED BY <1>1, <1>4, <3>1, <3>2, <3>3, NewStep
  <2> QED BY <2>1, <2>2
<1>5. CASE /\ c \in Atom \cup Key
           /\ NewNode(leaf)
           /\ Value(NewId) /\ Break
  <2>1. stack' = WithTop(stack, L("finish", Len(heap) + 1))
    <3>1. stack' = WithTop(stack, [top EXCEPT !.state = "eatws", !.saved = "finish",
                                              !.current = NewId])
      BY <1>5 DEF Value, Level, WithTop
    <3>2. [top EXCEPT !.state = "eatws", !.saved = "finish", !.current = NewId]
            = L("finish", NewId)
      BY <1>3
    <3> QED BY <3>1, <3>2 DEF NewId
  <2>2. heap' = Append(heap, leaf)  BY <1>5 DEF NewNode
  <2>3. /\ leaf \in Nodes /\ leaf.refs = 1 /\ leaf.type = "leaf"
        /\ DOMAIN Children(leaf) = {}
    <3>1. leaf = [type |-> "leaf", val |-> c, refs |-> 1]  BY DEF Node
    <3>2. leaf \in Nodes  BY <1>5, <3>1 DEF Nodes
    <3>3. PICK s : s = << >>  OBVIOUS
    <3>4. Children(leaf) = s /\ DOMAIN s = {}  BY <3>1, <3>3 DEF Children
    <3> QED BY <3>1, <3>2, <3>4
  <2> HIDE DEF leaf
  <2> QED BY <1>1, <1>5, <2>1, <2>2, <2>3, NewStep
<1>6. CASE c = "null" /\ Value(Null) /\ Break /\ UNCHANGED heap
  <2>1. stack' = WithTop(stack, L("finish", top.current))
    <3>1. stack' = WithTop(stack, [top EXCEPT !.state = "eatws", !.saved = "finish",
                                              !.current = Null])
      BY <1>6 DEF Value, Level, WithTop
    <3>2. [top EXCEPT !.state = "eatws", !.saved = "finish", !.current = Null]
            = L("finish", Null)
      BY <1>3
    <3> QED BY <1>2, <3>1, <3>2
  <2>2. Holds(heap, [state |-> "finish", saved |-> "finish",
                     current |-> top.current, name |-> top.name])
    BY DEF Holds, Doing, Spaces
  <2>3. "finish" \in Saved  BY DEF Saved
  <2> QED BY <1>1, <1>2, <1>6, <2>1, <2>2, <2>3, ThenDoes
<1>7. CASE /\ Fail(IF c = "open" THEN "eof" ELSE "unexpected")
           /\ UNCHANGED heap
  <2>1. (IF c = "open" THEN "eof" ELSE "unexpected") \in Errors  BY DEF Errors
  <2> QED BY <1>1, <1>7, <2>1, Fails
<1> HIDE DEF L
<1> QED BY <1>4, <1>5, <1>6, <1>7 DEF Start
-----------------------------------------------------------------------------
(* The value on its way has its owner, and the level on top has its own.   *)
Holders == [m \in DOMAIN heap |-> Holding(stack, m)]

LEMMA BeforeAdd ==
  ASSUME IInv, phase = "parse", top.state \in Adds
  PROVE  /\ Holders \in [DOMAIN heap -> Nat]
         /\ Balanced(heap, [m \in DOMAIN heap |-> Holders[m] + If(obj = m)])
         /\ top.current \in DOMAIN heap => Holders[top.current] > 0
         /\ obj \in 0 .. Len(heap)
<1>1. /\ \A n : Holding(stack, n) = Below(stack, n) + If(top.current = n)
      /\ \A n : Holding(stack, n) \in Nat /\ Below(stack, n) \in Nat
  BY TopFacts
<1>2. Holders \in [DOMAIN heap -> Nat]  BY <1>1 DEF Holders
<1>3. Way(stack, phase, obj) = obj  BY DEF Way, top
<1>4. Balanced(heap, OwnersOf(heap, stack, obj))  BY <1>3, Owned
<1>5. OwnersOf(heap, stack, obj) = [m \in DOMAIN heap |-> Holders[m] + If(obj = m)]
  BY DEF OwnersOf, Holders
<1>6. ASSUME top.current \in DOMAIN heap
      PROVE  Holders[top.current] > 0
  <2>1. PICK n : n = top.current  OBVIOUS
  <2>2. If(top.current = n) = 1  BY <2>1 DEF If
  <2>3. Holding(stack, n) = Below(stack, n) + 1 /\ Below(stack, n) \in Nat
    BY <1>1, <2>2
  <2>4. Holding(stack, n) > 0  BY ONLY <2>3
  <2> QED BY <1>6, <2>1, <2>4 DEF Holders
<1> QED BY <1>2, <1>4, <1>5, <1>6, TypeIs DEF IInv, TypeRest

LEMMA AfterAdd ==
  ASSUME IInv, phase = "parse", top.state \in Adds,
         UNCHANGED <<text, obj, ret>>, Redo,
         NEW g, heap' = g, HeapOK(g), SameTypes(heap, g),
         Balanced(g, Holders),
         NEW y \in {"array_sep", "object_sep"}, NEW k \in Key \cup {"none"},
         y = "array_sep" => top.state = "array_add",
         y = "object_sep" => top.state = "object_value_add",
         stack' = WithTop(stack, [state |-> "eatws", saved |-> y,
                                  current |-> top.current, name |-> k])
  PROVE  IInv'
<1> DEFINE l == [state |-> "eatws", saved |-> y, current |-> top.current,
                 name |-> k]
           s == WithTop(stack, l)
<1>1. /\ stack \in Seq(Levels) /\ stack # << >> /\ Len(stack) \in Nat
      /\ top \in Levels /\ top.current \in 0 .. Len(heap) /\ Holds(heap, top)
      /\ ret = Null /\ Len(heap) \in Nat /\ HeapOK(heap)
      /\ StackOK(heap, stack) /\ TypeRest
      /\ DOMAIN heap = 1 .. Len(heap)
      /\ \A n : Holding(stack, n) = Below(stack, n) + If(top.current = n)
      /\ \A n : Holding(stack, n) \in Nat
  BY TopFacts, TypeIs DEF IInv
<1>2. DOMAIN g = 1 .. Len(g) /\ Len(g) = Len(heap)
      /\ \A m \in DOMAIN heap : g[m].type = heap[m].type
  BY HeapFacts DEF SameTypes
<1>3. /\ l \in Levels /\ l.current = top.current /\ l.state = "eatws"
      /\ Doing(l) = y
  <2>1. y \in Saved /\ "eatws" \in States /\ top.current \in Nat
    BY <1>1, LevelIs DEF Saved, States
  <2>2. l \in Levels  BY <1>1, <2>1, LevelTo
  <2> QED BY <2>2 DEF Doing, Spaces
<1>4. heap' = g /\ stack' = s  OBVIOUS
<1> HIDE DEF l
<1>5. Holds(heap, l)
  <2>1. Doing(top) = top.state  BY DEF Doing, Spaces, Adds
  <2>2. CASE y = "array_sep"  BY <1>1, <1>3, <2>1, <2>2 DEF Holds
  <2>3. CASE y = "object_sep"  BY <1>1, <1>3, <2>1, <2>3 DEF Holds
  <2> QED BY <2>2, <2>3
<1>6. Holds(g, l)
  <2>1. DOMAIN heap \subseteq DOMAIN g  BY <1>1, <1>2
  <2> QED BY <1>2, <1>5, <2>1, HoldsKept
<1>7. StackOK(g, s)
  <2>1. /\ Len(heap) \in Nat /\ Len(g) \in Nat /\ Len(heap) <= Len(g)
        /\ DOMAIN heap \subseteq DOMAIN g
        /\ \A m \in DOMAIN heap : g[m].type = heap[m].type
    BY <1>1, <1>2
  <2>2. StackOK(heap, stack) /\ stack # << >> /\ l \in Levels
        /\ l.current \in 0 .. Len(g) /\ Holds(g, l)
    BY <1>1, <1>2, <1>3, <1>6
  <2> QED BY ONLY <2>1, <2>2, TopKeeps
<1>8. /\ s \in Seq(Levels) /\ Len(s) = Len(stack) /\ s[Len(stack)] = l
      /\ \A n : Below(s, n) = Below(stack, n)
  BY <1>1, <1>3, TopIs
<1> HIDE DEF s
<1>9. s # << >> /\ s[Len(s)] = l  BY <1>1, <1>8
<1>10. ASSUME NEW n \in DOMAIN g
       PROVE  Holding(s, n) + If(Null = n) = Holders[n]
  <2>1. n \in DOMAIN heap /\ n # Null  BY <1>1, <1>2 DEF Null
  <2>2. Holding(s, n) = Below(s, n) + If(s[Len(s)].current = n)
    <3>1. s \in Seq(Levels) /\ s # << >>  BY <1>8, <1>9
    <3> QED BY ONLY <3>1, HoldingIs
  <2>3. s[Len(s)].current = top.current /\ Below(s, n) = Below(stack, n)
    BY <1>3, <1>8, <1>9
  <2>4. Holding(s, n) = Holding(stack, n) /\ Holding(stack, n) \in Nat
    BY <1>1, <2>2, <2>3
  <2>5. If(Null = n) = 0  BY <2>1 DEF If
  <2>6. Holding(s, n) + If(Null = n) = Holding(stack, n)  BY ONLY <2>4, <2>5
  <2> QED BY <2>1, <2>6 DEF Holders
<1>11. Balanced(g, OwnersOf(g, s, Null))  BY <1>10 DEF Balanced, OwnersOf
<1>12. Way(s, phase', obj') = Null  BY <1>3, <1>9 DEF Way, Adds
<1>13. TypeRest' /\ ret' = Null /\ phase' \in {"parse", "out"}
  <2>1. /\ pos' \in 1 .. Len(text) + 1 /\ err' \in Errors
        /\ phase' \in {"parse", "out"}
    BY <1>1, EndsWell
  <2>2. Len(s) <= MaxDepth /\ obj \in 0 .. Len(g) /\ ret \in 0 .. Len(g)
        /\ text \in Texts
    BY <1>1, <1>2, <1>8 DEF TypeRest
  <2> QED BY <1>1, <1>4, <2>1, <2>2 DEF TypeRest
<1>14. Balanced(g, OwnersOf(g, s, Way(s, phase', obj')))  BY <1>11, <1>12
<1> QED BY <1>4, <1>7, <1>9, <1>13, <1>14, Moved
-----------------------------------------------------------------------------
(* What the tokener does in an array, ...                                  *)
LEMMA ArrayStep ==
  ASSUME IInv, Array PROVE IInv'
<1>1. /\ phase = "parse" /\ top.state \in {"array", "array_add", "array_sep"}
      /\ UNCHANGED <<text, obj, ret>>
      /\ top.state \notin Spaces
      /\ top \in Levels /\ Holds(heap, top) /\ Doing(top) = top.state
  BY TopFacts DEF Array, In, Spaces, Doing
<1>2. CASE top.state = "array"
  <2>1. heap' = heap /\ top.state \notin Adds
        /\ IF c = "]" THEN SpaceThen("finish") /\ Break ELSE Deeper("array_add")
    BY <1>2 DEF Array, In, Adds
  <2>2. CASE c = "]"  BY <1>1, <2>1, <2>2, SpaceThenDoes
  <2>3. CASE c # "]"  BY <1>1, <1>2, <2>1, <2>3, DeeperStep DEF Adds
  <2> QED BY <2>2, <2>3
<1>3. CASE top.state = "array_add"
  <2>1. /\ heap' = [heap EXCEPT ![top.current].val = Append(@, obj)]
        /\ SpaceThen("array_sep") /\ Redo
    BY <1>3 DEF Array, In
  <2>2. /\ top.current \in DOMAIN heap /\ heap[top.current].type = "array"
        /\ top.state \in Adds
    BY <1>1, <1>3 DEF Holds, Adds
  <2>3. /\ HeapOK(heap) /\ obj \in 0 .. Len(heap)
        /\ Holders \in [DOMAIN heap -> Nat] /\ Holders[top.current] > 0
        /\ Balanced(heap, [m \in DOMAIN heap |-> Holders[m] + If(obj = m)])
    BY <1>1, <2>2, BeforeAdd DEF IInv
  <2>4. PICK g : g = [heap EXCEPT ![top.current].val = Append(@, obj)]  OBVIOUS
  <2>5. HeapOK(g) /\ SameTypes(heap, g) /\ Balanced(g, Holders)
    BY ONLY <2>2, <2>3, <2>4, ArrayAddBalances
  <2>6. [top EXCEPT !.state = "eatws", !.saved = "array_sep"]
          = [state |-> "eatws", saved |-> "array_sep", current |-> top.current,
             name |-> top.name]
    BY <1>1, LevelThen
  <2>7. stack' = WithTop(stack, [state |-> "eatws", saved |-> "array_sep",
                                 current |-> top.current, name |-> top.name])
    BY <2>1, <2>6 DEF SpaceThen, Level, WithTop
  <2>8. top.name \in Key \cup {"none"} /\ heap' = g
    BY <1>1, <2>1, <2>4, LevelIs
  <2> QED BY <1>1, <1>3, <2>1, <2>2, <2>5, <2>7, <2>8, AfterAdd
<1>4. CASE top.state = "array_sep"
  <2>1. /\ heap' = heap /\ top.state \notin Adds
        /\ \/ SpaceThen("finish") /\ Break
           \/ SpaceThen("array") /\ Break
           \/ Fail("array")
    <3>1. CASE c = "]"  BY <1>4, <3>1 DEF Array, In, Adds
    <3>2. CASE c = ","  BY <1>4, <3>2 DEF Array, In, Adds
    <3>3. CASE c # "]" /\ c # ","  BY <1>4, <3>3 DEF Array, In, Adds
    <3> QED BY <3>1, <3>2, <3>3
  <2>2. CASE SpaceThen("finish") /\ Break  BY <1>1, <2>1, <2>2, SpaceThenDoes
  <2>3. CASE SpaceThen("array") /\ Break
    BY <1>1, <1>4, <2>1, <2>3, SpaceThenDoes
  <2>4. CASE Fail("array")  BY <1>1, <2>1, <2>4, Fails DEF Errors
  <2> QED BY <2>1, <2>2, <2>3, <2>4
<1> QED BY <1>1, <1>2, <1>3, <1>4

(* ... and in an object.                                                   *)
LEMMA ObjectStep ==
  ASSUME IInv, Object PROVE IInv'
<1>1. /\ phase = "parse"
      /\ top.state \in {"object_field_start", "object_field_end", "object_value",
                        "object_value_add", "object_sep"}
      /\ UNCHANGED <<text, obj, ret>>
      /\ top.state \notin Spaces
      /\ top \in Levels /\ Holds(heap, top) /\ Doing(top) = top.state
  BY TopFacts DEF Object, In, Spaces, Doing
<1>2. top \in Levels  BY <1>1
<1>3. CASE top.state = "object_field_start"
  <2>1. /\ heap' = heap /\ top.state \notin Adds
        /\ \/ SpaceThen("finish") /\ Break
           \/ /\ c \in Key
              /\ Level([top EXCEPT !.state = "eatws",
                                   !.saved = "object_field_end",
                                   !.name = c])
              /\ Break
           \/ Fail("eof") \/ Fail("key_name")
    BY <1>3 DEF Object, In, Adds
  <2>2. CASE SpaceThen("finish") /\ Break  BY <1>1, <2>1, <2>2, SpaceThenDoes
  <2>3. CASE /\ c \in Key
             /\ Level([top EXCEPT !.state = "eatws",
                                  !.saved = "object_field_end",
                                  !.name = c])
             /\ Break
    <3>1. PICK k : k = c  OBVIOUS
    <3>2. [top EXCEPT !.state = "eatws", !.saved = "object_field_end", !.name = k]
            = [state |-> "eatws", saved |-> "object_field_end",
               current |-> top.current, name |-> k]
      <4>1. PICK m : m = [top EXCEPT !.state = "eatws", !.saved = "object_field_end",
                                     !.name = k]
        OBVIOUS
      <4>2. m = [state |-> "eatws", saved |-> "object_field_end",
                 current |-> top.current, name |-> k]
        BY ONLY <1>2, <4>1, LevelWithName
      <4> QED BY <4>1, <4>2
    <3>3. stack' = WithTop(stack, [state |-> "eatws", saved |-> "object_field_end",
                                   current |-> top.current, name |-> k])
      BY <2>3, <3>1, <3>2 DEF Level, WithTop
    <3>4. Holds(heap, [state |-> "object_field_end", saved |-> "object_field_end",
                       current |-> top.current, name |-> k])
      <4>1. top.current \in DOMAIN heap /\ heap[top.current].type = "object"
        BY <1>1, <1>3 DEF Holds
      <4>2. k \in Key  BY <2>3, <3>1
      <4> QED BY <4>1, <4>2 DEF Holds, Doing, Spaces
    <3>5. "object_field_end" \in Saved /\ k \in Key \cup {"none"}
      BY <2>3, <3>1 DEF Saved
    <3> QED BY <1>1, <2>1, <2>3, <3>3, <3>4, <3>5, ThenDoes
  <2>4. CASE Fail("eof") \/ Fail("key_name")
    BY <1>1, <2>1, <2>4, Fails DEF Errors
  <2> QED BY <2>1, <2>2, <2>3, <2>4
<1>4. CASE top.state = "object_field_end"
  <2>1. /\ heap' = heap /\ top.state \notin Adds
        /\ \/ SpaceThen("object_value") /\ Break
           \/ Fail("key_sep")
    BY <1>4 DEF Object, In, Adds
  <2>2. CASE SpaceThen("object_value") /\ Break
    BY <1>1, <1>4, <2>1, <2>2, SpaceThenDoes
  <2>3. CASE Fail("key_sep")  BY <1>1, <2>1, <2>3, Fails DEF Errors
  <2> QED BY <2>1, <2>2, <2>3
<1>5. CASE top.state = "object_value"
  <2>1. heap' = heap /\ Deeper("object_value_add")  BY <1>5 DEF Object, In
  <2> QED BY <1>1, <1>5, <2>1, DeeperStep DEF Adds
<1>6. CASE top.state = "object_value_add"
  <2>1. /\ heap' = ObjectAddTo(heap, top.current, top.name, obj)
        /\ Level([top EXCEPT !.state = "eatws", !.saved = "object_sep",
                             !.name = "none"])
        /\ Redo
    BY <1>6 DEF Object, In
  <2>2. /\ top.current \in DOMAIN heap /\ heap[top.current].type = "object"
        /\ top.name \in Key /\ top.state \in Adds
    BY <1>1, <1>6 DEF Holds, Adds
  <2>3. /\ HeapOK(heap) /\ obj \in 0 .. Len(heap)
        /\ Holders \in [DOMAIN heap -> Nat] /\ Holders[top.current] > 0
        /\ Balanced(heap, [m \in DOMAIN heap |-> Holders[m] + If(obj = m)])
    BY <1>1, <2>2, BeforeAdd DEF IInv
  <2>4. PICK g : g = ObjectAddTo(heap, top.current, top.name, obj)  OBVIOUS
  <2>5. /\ HeapOK(ObjectAddTo(heap, top.current, top.name, obj))
        /\ SameTypes(heap, ObjectAddTo(heap, top.current, top.name, obj))
        /\ Balanced(ObjectAddTo(heap, top.current, top.name, obj), Holders)
    BY ONLY <2>2, <2>3, ObjectAddBalances
  <2>6. [top EXCEPT !.state = "eatws", !.saved = "object_sep", !.name = "none"]
          = [state |-> "eatws", saved |-> "object_sep", current |-> top.current,
             name |-> "none"]
    <3>1. PICK m : m = [top EXCEPT !.state = "eatws", !.saved = "object_sep",
                                   !.name = "none"]
      OBVIOUS
    <3>2. m = [state |-> "eatws", saved |-> "object_sep", current |-> top.current,
               name |-> "none"]
      BY ONLY <1>2, <3>1, LevelWithName
    <3> QED BY <3>1, <3>2
  <2>7. stack' = WithTop(stack, [state |-> "eatws", saved |-> "object_sep",
                                 current |-> top.current, name |-> "none"])
    BY <2>1, <2>6 DEF Level, WithTop
  <2>8. /\ heap' = g /\ HeapOK(g) /\ SameTypes(heap, g) /\ Balanced(g, Holders)
    BY <2>1, <2>4, <2>5
  <2> QED BY <1>1, <1>6, <2>1, <2>2, <2>7, <2>8, AfterAdd
<1>7. CASE top.state = "object_sep"
  <2>1. /\ heap' = heap /\ top.state \notin Adds
        /\ \/ SpaceThen("finish") /\ Break
           \/ SpaceThen("object_field_start") /\ Break
           \/ Fail("value_sep")
    <3>1. CASE c = "}"  BY <1>7, <3>1 DEF Object, In, Adds
    <3>2. CASE c = ","  BY <1>7, <3>2 DEF Object, In, Adds
    <3>3. CASE c # "}" /\ c # ","  BY <1>7, <3>3 DEF Object, In, Adds
    <3> QED BY <3>1, <3>2, <3>3
  <2>2. CASE SpaceThen("finish") /\ Break  BY <1>1, <2>1, <2>2, SpaceThenDoes
  <2>3. CASE SpaceThen("object_field_start") /\ Break
    BY <1>1, <1>7, <2>1, <2>3, SpaceThenDoes
  <2>4. CASE Fail("value_sep")  BY <1>1, <2>1, <2>4, Fails DEF Errors
  <2> QED BY <2>1, <2>2, <2>3, <2>4
<1> QED BY <1>1, <1>3, <1>4, <1>5, <1>6, <1>7
-----------------------------------------------------------------------------
(* A list of one node.                                                     *)
LEMMA OnePlace ==
  ASSUME NEW n, NEW m
  PROVE  Cardinality(Places(<<n>>, m)) = If(n = m)
<1>1. DOMAIN <<n>> = {1} /\ <<n>>[1] = n  OBVIOUS
<1>2. Places(<<n>>, m) = IF n = m THEN {1} ELSE {}  BY <1>1 DEF Places
<1>3. Cardinality({1}) = 1 /\ Cardinality({}) = 0  BY FS_Singleton, FS_EmptySet
<1> QED BY <1>2, <1>3 DEF If

LEMMA SameTypesAll ==
  ASSUME NEW h, NEW g, NEW k, HeapOK(h), HeapOK(g), SameTypes(h, g), SameTypes(g, k)
  PROVE  SameTypes(h, k)
BY HeapFacts DEF SameTypes

(* What the tokener keeps of n as long as it needs it.                     *)
LEMMA TheirOwn ==
  ASSUME IInv, phase # "done", Way(stack, phase, obj) = Null
  PROVE  /\ OwnersOf(heap, stack, Null) \in [DOMAIN heap -> Nat]
         /\ Balanced(heap, OwnersOf(heap, stack, Null))
         /\ top.current # Null => OwnersOf(heap, stack, Null)[top.current] > 0
         /\ \A m \in DOMAIN heap :
              OwnersOf(heap, stack, Null)[m] = Holding(stack, m)
<1> DEFINE old == OwnersOf(heap, stack, Null)
<1>1. /\ stack \in Seq(Levels) /\ DOMAIN heap = 1 .. Len(heap)
      /\ top.current \in 0 .. Len(heap) /\ Len(heap) \in Nat
      /\ \A n : Holding(stack, n) = Below(stack, n) + If(top.current = n)
      /\ \A n : Holding(stack, n) \in Nat /\ Below(stack, n) \in Nat
  BY TopFacts
<1>2. old \in [DOMAIN heap -> Nat] /\ Balanced(heap, old)
  BY <1>1, OwnersOfIsNat, Owned
<1>3. ASSUME NEW m \in DOMAIN heap
      PROVE  old[m] = Holding(stack, m)
  <2>1. If(Null = m) = 0 /\ old[m] = Holding(stack, m) + If(Null = m)
    BY <1>1 DEF If, Null, OwnersOf
  <2> QED BY <1>1, <2>1
<1>4. ASSUME top.current # Null
      PROVE  old[top.current] > 0
  <2>1. PICK n : n = top.current  OBVIOUS
  <2>2. n \in DOMAIN heap /\ If(top.current = n) = 1
    BY <1>1, <1>4, <2>1 DEF Null, If
  <2>3. Holding(stack, n) = Below(stack, n) + 1 /\ Below(stack, n) \in Nat
    BY <1>1, <2>2
  <2>4. old[n] > 0  BY <1>3, <2>2, <2>3
  <2> QED BY <2>1, <2>4
<1> QED BY <1>2, <1>3, <1>4

(* A value is complete: its reference goes with it, and the one of the     *)
(* level that had it is given up.                                          *)
LEMMA FinishStep ==
  ASSUME IInv, Finish PROVE IInv'
<1> DEFINE n == top.current
           old == OwnersOf(heap, stack, Null)
           g1 == Get(heap, n)
           g2 == Puts(g1, <<n>>)
           s == Front(stack)
<1>1. /\ phase = "parse" /\ top.state = "finish" /\ top.state \notin Adds
      /\ UNCHANGED <<text, pos, err, ret>>
  BY DEF Finish, In, Adds
<1>2. /\ stack \in Seq(Levels) /\ stack # << >> /\ Len(stack) \in Nat
      /\ Len(stack) > 0
      /\ n \in 0 .. Len(heap)
      /\ ret = Null /\ Len(heap) \in Nat /\ HeapOK(heap)
      /\ StackOK(heap, stack) /\ TypeRest
      /\ DOMAIN heap = 1 .. Len(heap)
      /\ \A m : Holding(stack, m) = Below(stack, m) + If(n = m)
  BY <1>1, TopFacts, TypeIs DEF IInv
<1>3. CASE depth = 0
  <2>1. phase' = "out" /\ UNCHANGED <<stack, obj, heap>>  BY <1>3 DEF Finish
  <2>2. pos' \in 1 .. Len(text) + 1 /\ err' \in Errors
    BY <1>1, <1>2 DEF TypeRest
  <2> QED BY <1>1, <2>1, <2>2, StandingStep
<1>4. CASE depth # 0
  <2>1. obj' = n /\ heap' = g2 /\ stack' = s /\ phase' = "parse"
    BY <1>1, <1>4 DEF Finish, Put
  <2>2. Len(stack) > 1
    <3>1. Len(stack) \in Nat /\ Len(stack) > 0  BY <1>2
    <3>2. Len(stack) - 1 # 0  BY <1>4 DEF depth
    <3>3. PICK k \in Nat : k = Len(stack)  BY <3>1
    <3>4. k > 0 /\ k - 1 # 0  BY <3>1, <3>2, <3>3
    <3>5. k > 1  BY ONLY <3>4, k \in Nat
    <3> QED BY ONLY <3>3, <3>5
  <2>3. Way(stack, phase, obj) = Null  BY <1>1 DEF Way, top
  <2>4. /\ old \in [DOMAIN heap -> Nat] /\ Balanced(heap, old)
        /\ n # Null => old[n] > 0
        /\ \A m \in DOMAIN heap : old[m] = Holding(stack, m)
    BY <1>1, <2>3, TheirOwn
  <2> HIDE DEF old
  <2>5. /\ HeapOK(g1) /\ SameTypes(heap, g1)
        /\ Balanced(g1, [m \in DOMAIN heap |-> old[m] + If(m = n)])
    <3>1. HeapOK(heap) /\ n \in 0 .. Len(heap)  BY <1>2
    <3> QED BY ONLY <2>4, <3>1, GetBalances
  <2> HIDE DEF g1
  <2>6. DOMAIN g1 = DOMAIN heap /\ Len(g1) = Len(heap)
    BY <1>2, <2>5, HeapFacts DEF SameTypes
  <2>7. \A m \in DOMAIN g1 : Cardinality(Places(<<n>>, m)) = If(m = n)
    <3>1. \A m : If(n = m) = If(m = n)  BY DEF If
    <3> QED BY <3>1, OnePlace
  <2>8. Work(g1, <<n>>)  BY <2>7 DEF Work, If
  <2>9. Balanced(g1, [m \in DOMAIN g1 |-> old[m] + Cardinality(Places(<<n>>, m))])
    BY <2>5, <2>6, <2>7 DEF Balanced
  <2>10. HeapOK(g2) /\ SameTypes(g1, g2) /\ Balanced(g2, old)
    <3>1. old \in [DOMAIN g1 -> Nat]  BY <2>4, <2>6
    <3>2. HeapOK(g1)  BY <2>5
    <3> QED BY ONLY <2>8, <2>9, <3>1, <3>2, PutsBalances
  <2> HIDE DEF g2
  <2>11. SameTypes(heap, g2) /\ Len(g2) = Len(heap) /\ DOMAIN g2 = DOMAIN heap
    <3>1. SameTypes(heap, g2)  BY <1>2, <2>5, <2>10, SameTypesAll
    <3> QED BY <1>2, <2>10, <3>1, HeapFacts DEF SameTypes
  <2>12. /\ StackOK(heap, s) /\ s # << >> /\ Len(s) = Len(stack) - 1
         /\ s[Len(s)].state \in Adds
    BY <1>2, <2>2, PopKeeps
  <2>13. StackOK(g2, s)  BY <1>2, <2>10, <2>11, <2>12, StackKept
  <2>14. \A m : Holding(s, m) = Below(stack, m)
    <3>1. top \in Levels  BY <1>1, TopFacts
    <3> QED BY <1>2, <3>1, StackMoves
  <2> HIDE DEF s
  <2>15. Way(s, phase', obj') = n  BY <2>1, <2>12 DEF Way
  <2>16. Balanced(g2, OwnersOf(g2, s, n))
    <3>1. \A m \in DOMAIN g2 : Holding(s, m) + If(n = m) = old[m]
      BY <1>2, <2>4, <2>11, <2>14
    <3> QED BY <2>10, <3>1 DEF Balanced, OwnersOf
  <2>17. TypeRest'
    <3>1. Len(s) <= MaxDepth
      <4>1. Len(stack) <= MaxDepth  BY <1>2 DEF TypeRest
      <4> QED BY <1>2, <2>12, <4>1, TokenerAssumption
    <3> QED BY <1>1, <1>2, <2>1, <2>11, <3>1 DEF TypeRest
  <2>18. ret' = Null /\ phase' \in {"parse", "out"}  BY <1>1, <1>2, <2>1
  <2> HIDE DEF n
  <2> QED BY <2>1, <2>10, <2>12, <2>13, <2>15, <2>16, <2>17, <2>18, Moved
<1> QED BY <1>3, <1>4
-----------------------------------------------------------------------------
(* All that the levels have, the top one first.                            *)
LEMMA LevelsPut ==
  ASSUME NEW s \in Seq(Levels), NEW m
  PROVE  Cardinality(Places([i \in DOMAIN s |-> Reverse(s)[i].current], m))
           = Holding(s, m)
<1> DEFINE N == Len(s)
           work == [i \in DOMAIN s |-> Reverse(s)[i].current]
           S == {i \in DOMAIN s : s[i].current = m}
           T == Places(work, m)
           f == [i \in S |-> N + 1 - i]
<1>1. N \in Nat /\ DOMAIN s = 1 .. N  OBVIOUS
<1>2. \A i \in 1 .. N : Reverse(s)[i] = s[(N - i) + 1]  BY <1>1 DEF Reverse
<1>3. DOMAIN work = 1 .. N /\ \A i \in 1 .. N : work[i] = s[(N - i) + 1].current
  BY <1>1, <1>2
<1>4. \A i : i \in 1 .. N =>
        N + 1 - i \in 1 .. N /\ (N - (N + 1 - i)) + 1 = i /\ N + 1 - (N + 1 - i) = i
  BY <1>1
<1>5. IsFiniteSet(S)
  <2>1. IsFiniteSet(1 .. N) /\ S \in SUBSET (1 .. N)  BY <1>1, CountUpTo
  <2> HIDE DEF S
  <2> QED BY <2>1, FS_Subset
<1> HIDE DEF work, N
<1>6. f \in [S -> T]
  <2> SUFFICES ASSUME NEW i \in S
               PROVE  N + 1 - i \in T
    OBVIOUS
  <2>1. i \in 1 .. N /\ s[i].current = m  BY <1>1
  <2>2. work[N + 1 - i] = s[i].current  BY <1>3, <1>4, <2>1
  <2> QED BY <1>3, <1>4, <2>1, <2>2 DEF Places
<1>7. \A i, j \in S : f[i] = f[j] => i = j
  <2> SUFFICES ASSUME NEW i \in S, NEW j \in S, N + 1 - i = N + 1 - j
               PROVE  i = j
    OBVIOUS
  <2>1. i \in 1 .. N /\ j \in 1 .. N  BY <1>1
  <2> QED BY <1>1, <2>1
<1>8. \A j \in T : \E i \in S : f[i] = j
  <2> SUFFICES ASSUME NEW j \in T
               PROVE  \E i \in S : f[i] = j
    OBVIOUS
  <2>1. j \in 1 .. N /\ work[j] = m  BY <1>3 DEF Places
  <2>2. N + 1 - j \in 1 .. N /\ N + 1 - (N + 1 - j) = j /\ (N - j) + 1 = N + 1 - j
    BY <1>1, <1>4, <2>1
  <2>3. N + 1 - j \in S  BY <1>1, <1>3, <2>1, <2>2
  <2>4. f[N + 1 - j] = j  BY <2>2, <2>3
  <2> QED BY <2>3, <2>4
<1> HIDE DEF f, S, T
<1>9. Cardinality(T) = Cardinality(S)  BY <1>5, <1>6, <1>7, <1>8, SameCount
<1> QED BY <1>9 DEF T, S, work, Holding

(* The caller gets its reference before the levels give theirs up.         *)
LEMMA ReturnStep ==
  ASSUME IInv, Return PROVE IInv'
<1> DEFINE r == IF err = "success" THEN top.current ELSE Null
           old == OwnersOf(heap, stack, Null)
           new == [m \in DOMAIN heap |-> If(r = m)]
           g1 == Get(heap, r)
           work == [i \in DOMAIN stack |-> Reverse(stack)[i].current]
           g2 == Puts(g1, work)
<1>1. /\ phase = "out" /\ ret' = r /\ heap' = g2
      /\ phase' = "done" /\ UNCHANGED <<text, pos, obj, err>>
  BY DEF Return
<1>2. PICK s : s = << >> /\ stack' = s  BY DEF Return
<1>3. /\ stack \in Seq(Levels)
      /\ r \in 0 .. Len(heap)
      /\ Len(heap) \in Nat /\ HeapOK(heap)
      /\ StackOK(heap, stack) /\ TypeRest
      /\ DOMAIN heap = 1 .. Len(heap)
      /\ \A m : Holding(stack, m) \in Nat
  BY <1>1, TopFacts, TypeIs DEF IInv, Null
<1>4. Way(stack, phase, obj) = Null  BY <1>1 DEF Way
<1>5. /\ old \in [DOMAIN heap -> Nat] /\ Balanced(heap, old)
      /\ r # Null => old[r] > 0
      /\ \A m \in DOMAIN heap : old[m] = Holding(stack, m)
  BY <1>1, <1>4, TheirOwn
<1> HIDE DEF old
<1>6. /\ HeapOK(g1) /\ SameTypes(heap, g1)
      /\ Balanced(g1, [m \in DOMAIN heap |-> old[m] + If(m = r)])
  <2> HIDE DEF r
  <2>1. HeapOK(heap) /\ r \in 0 .. Len(heap)  BY <1>3
  <2> QED BY ONLY <1>5, <2>1, GetBalances
<1> HIDE DEF g1, r
<1>7. DOMAIN g1 = DOMAIN heap /\ Len(g1) = Len(heap)
  BY <1>3, <1>6, HeapFacts DEF SameTypes
<1>8. \A m : Cardinality(Places(work, m)) = Holding(stack, m)
  BY <1>3, LevelsPut
<1> HIDE DEF work
<1>9. Work(g1, work)  BY <1>3, <1>8 DEF Work
<1>10. new \in [DOMAIN g1 -> Nat]  BY <1>7 DEF If
<1>11. Balanced(g1, [m \in DOMAIN g1 |-> new[m] + Cardinality(Places(work, m))])
  <2>1. ASSUME NEW m \in DOMAIN heap
        PROVE  old[m] + If(m = r) = new[m] + Cardinality(Places(work, m))
    <3>1. old[m] = Holding(stack, m) /\ Holding(stack, m) \in Nat
      BY <1>3, <1>5
    <3>2. new[m] = If(m = r) /\ If(m = r) \in Nat  BY DEF If
    <3>3. Cardinality(Places(work, m)) = Holding(stack, m)  BY <1>8
    <3> HIDE DEF new
    <3> QED BY ONLY <3>1, <3>2, <3>3
  <2> QED BY <1>6, <1>7, <2>1 DEF Balanced
<1>12. HeapOK(g2) /\ SameTypes(g1, g2) /\ Balanced(g2, new)
  <2> HIDE DEF new
  <2>1. HeapOK(g1)  BY <1>6
  <2> QED BY ONLY <1>9, <1>10, <1>11, <2>1, PutsBalances
<1> HIDE DEF g2
<1>13. DOMAIN g2 = DOMAIN heap /\ Len(g2) = Len(heap)
  BY <1>3, <1>7, <1>12, HeapFacts DEF SameTypes
<1>14. s \in Seq(Levels) /\ Len(s) = 0 /\ DOMAIN s = {}  BY <1>2
<1>15. StackOK(g2, s)  BY <1>14 DEF StackOK
<1>16. TypeRest'
  <2>1. Len(s) <= MaxDepth  BY <1>14, TokenerAssumption
  <2> QED BY <1>1, <1>2, <1>3, <1>13, <2>1 DEF TypeRest
<1>17. TypeOK'
  BY <1>1, <1>2, <1>12, <1>15, <1>16, TypeFrom DEF TypeOK, TypeRest
<1>18. Balanced(g2, Owners')
  <2>1. ASSUME NEW m \in DOMAIN g2
        PROVE  Owners'[m] = new[m]
    <3>1. Holding(s, m) = 0
      <4>1. {i \in DOMAIN s : s[i].current = m} = {}  BY <1>14
      <4> QED BY <4>1, FS_EmptySet DEF Holding
    <3>2. If(OnItsWay' /\ obj' = m) = 0  BY <1>1 DEF OnItsWay, If
    <3>3. Owners'[m] = (Holding(s, m) + If(OnItsWay' /\ obj' = m)) + If(r = m)
      BY <1>1, <1>2 DEF Owners
    <3>4. If(r = m) \in Nat  BY DEF If
    <3>5. new[m] = If(r = m)  BY <1>13
    <3> HIDE DEF new
    <3> QED BY ONLY <3>1, <3>2, <3>3, <3>4, <3>5
  <2> QED BY <1>12, <1>13, <2>1 DEF Balanced
<1> QED BY <1>1, <1>2, <1>12, <1>15, <1>17, <1>18 DEF IInv
-----------------------------------------------------------------------------
(* Nothing has been read and nothing is in memory.                         *)
LEMMA InitHolds ==
  ASSUME Init PROVE IInv
<1>1. PICK h, s : h = << >> /\ s = <<NewLevel>> /\ heap = h /\ stack = s
  BY DEF Init
<1>2. h \in Seq(Nodes) /\ Len(h) = 0 /\ DOMAIN h = {}  BY <1>1
<1>3. HeapOK(h)  BY <1>2 DEF HeapOK
<1>4. /\ NewLevel \in Levels /\ NewLevel.current = Null
      /\ NewLevel.state = "eatws" /\ Doing(NewLevel) = "start"
  BY DEF NewLevel, Levels, States, Saved, Null, Doing, Spaces
<1>5. /\ s \in Seq(Levels) /\ Len(s) = 1 /\ DOMAIN s = {1} /\ s[1] = NewLevel
      /\ s # << >>
  BY <1>1, <1>4
<1>6. StackOK(h, s)
  <2>1. Holds(h, NewLevel) /\ NewLevel.current \in 0 .. Len(h)
    BY <1>2, <1>4 DEF Holds, Null
  <2> QED BY <1>5, <2>1 DEF StackOK
<1>7. Balanced(h, Owners)  BY <1>2 DEF Balanced
<1>8. TypeRest
  <2>1. text \in Texts /\ pos = 1 /\ obj = 0 /\ ret = 0 /\ err = "success"
        /\ phase = "parse"
    BY DEF Init, Null
  <2>2. Len(text) \in Nat  BY <2>1, TokenerAssumption
  <2>3. Len(stack) <= MaxDepth  BY <1>1, <1>5, TokenerAssumption
  <2>4. pos \in 1 .. Len(text) + 1  BY <2>1, <2>2
  <2> QED BY <1>1, <1>2, <2>1, <2>3, <2>4 DEF TypeRest, Errors
<1>9. TypeOK  BY <1>1, <1>3, <1>6, <1>8, TypeFrom DEF TypeOK, TypeRest
<1> QED BY <1>1, <1>3, <1>5, <1>6, <1>7, <1>9 DEF Init, IInv

LEMMA Inductive == Spec => []IInv
<1>1. Init => IInv  BY InitHolds
<1>2. IInv /\ [Next]_vars => IInv'
  <2> SUFFICES ASSUME IInv, [Next]_vars PROVE IInv'  OBVIOUS
  <2>1. CASE Eatws  BY <2>1, EatwsStep
  <2>2. CASE Comment  BY <2>2, CommentStep
  <2>3. CASE Start  BY <2>3, StartStep
  <2>4. CASE Finish  BY <2>4, FinishStep
  <2>5. CASE Array  BY <2>5, ArrayStep
  <2>6. CASE Object  BY <2>6, ObjectStep
  <2>7. CASE Return  BY <2>7, ReturnStep
  <2>8. CASE UNCHANGED vars
    BY <2>8 DEF vars, IInv, TypeOK, Owners, OnItsWay, top
  <2> QED BY <2>1, <2>2, <2>3, <2>4, <2>5, <2>6, <2>7, <2>8 DEF Next
<1> QED BY <1>1, <1>2, PTL DEF Spec

LEMMA CountsAdd ==
  ASSUME IInv, NEW n \in DOMAIN heap
  PROVE  heap[n].refs =
           Cardinality({i \in DOMAIN stack : stack[i].current = n})
           + Cardinality(UNION {{m} \X Places(Children(heap[m]), n) : m \in Live})
           + (IF OnItsWay /\ obj = n THEN 1 ELSE 0)
           + (IF ret = n THEN 1 ELSE 0)
<1>1. /\ Alive(heap) = Live
      /\ Held(heap, Live, n)
           = Cardinality(UNION {{m} \X Places(Children(heap[m]), n) : m \in Live})
      /\ Holding(stack, n) = Cardinality({i \in DOMAIN stack : stack[i].current = n})
  BY DEF Alive, Live, Held, Pairs, Holding
<1>2. heap \in Seq(Nodes) /\ stack \in Seq(Levels) /\ Live \in SUBSET DOMAIN heap
  BY DEF IInv, HeapOK, StackOK, Live
<1>3. Held(heap, Live, n) \in Nat /\ Holding(stack, n) \in Nat
  BY <1>2, PairsFinite, HoldingIs
<1>4. heap[n].refs = ((Holding(stack, n) + If(OnItsWay /\ obj = n)) + If(ret = n))
                     + Held(heap, Live, n)
  BY <1>1 DEF IInv, Balanced, Owners
<1>5. /\ If(OnItsWay /\ obj = n) = IF OnItsWay /\ obj = n THEN 1 ELSE 0
      /\ If(ret = n) = IF ret = n THEN 1 ELSE 0
      /\ If(OnItsWay /\ obj = n) \in Nat /\ If(ret = n) \in Nat
  BY DEF If
<1> DEFINE A == Cardinality(UNION {{m} \X Places(Children(heap[m]), n) : m \in Live})
           B == Cardinality({i \in DOMAIN stack : stack[i].current = n})
           C == IF OnItsWay /\ obj = n THEN 1 ELSE 0
           D == IF ret = n THEN 1 ELSE 0
<1>6. /\ A \in Nat /\ B \in Nat /\ C \in Nat /\ D \in Nat
      /\ heap[n].refs = ((B + C) + D) + A
  BY <1>1, <1>3, <1>4, <1>5
<1> HIDE DEF A, B, C, D
<1>7. heap[n].refs = ((B + A) + C) + D  BY ONLY <1>6
<1> QED BY <1>7 DEF A, B, C, D

(* json_tokener_parse never reads behind the terminator of the text, its   *)
(* stack never gets higher than JSON_TOKENER_MAX_DEPTH, and every value it *)
(* handles is a node it made.                                              *)
THEOREM TypeCorrect == Spec => []TypeOK
<1>1. IInv => TypeOK  BY DEF IInv
<1> QED BY <1>1, Inductive, PTL

(* The hash tables of all objects stay searchable, whatever the hash       *)
(* function, however many fields an object has and in whatever order they  *)
(* come, as long as a table begins with three slots or more.               *)
THEOREM TablesCorrect == Spec => []TablesAreSearchable
<1>1. IInv => TablesAreSearchable
  BY DEF IInv, HeapOK, Good, TablesAreSearchable, Live
<1> QED BY <1>1, Inductive, PTL
-----------------------------------------------------------------------------
(* A value is made after what it is put into, and what a level has is      *)
(* inside of no node: the level alone refers to it.                        *)
After(a, b) == a = Null \/ a > b

HeapGrows(h) ==
  \A m \in DOMAIN h : \A k \in DOMAIN Children(h[m]) :
    After(Children(h[m])[k], m)

StackGrows(s) ==
  \A i \in DOMAIN s : i > 1 => After(s[i].current, s[i - 1].current)

Inside(h, m) == {Children(h[m])[k] : k \in DOMAIN Children(h[m])}

NotInside(h, o) == \A m \in DOMAIN h : o \notin Inside(h, m)

Apart(h, s) ==
  \A i \in DOMAIN s : s[i].current # Null => NotInside(h, s[i].current)

OrderInv ==
  /\ HeapGrows(heap)
  /\ StackGrows(stack)
  /\ OnItsWay => After(obj, top.current)
  /\ Apart(heap, stack)

LEMMA SameValuesGrow ==
  ASSUME NEW h, HeapGrows(h), NEW g, DOMAIN g = DOMAIN h,
         \A m \in DOMAIN h : g[m].type = h[m].type /\ g[m].val = h[m].val
  PROVE  HeapGrows(g)
<1>1. \A m \in DOMAIN h : Children(g[m]) = Children(h[m])  BY DEF Children
<1> QED BY <1>1 DEF HeapGrows

(* Giving references up changes no values, ...                             *)
LEMMA PutsChange ==
  ASSUME NEW h \in Seq(Nodes), NEW g, NEW work, g = Puts(h, work)
  PROVE  /\ DOMAIN g = DOMAIN h
         /\ \A m \in DOMAIN h : g[m].type = h[m].type /\ g[m].val = h[m].val
<1>1. PICK F : F = Freed(h, work)  OBVIOUS
<1>2. g = [m \in DOMAIN h |-> [h[m] EXCEPT !.refs = @ - Lost(h, work, F, m)]]
  BY <1>1 DEF Puts
<1>3. ASSUME NEW m \in DOMAIN h
      PROVE  g[m].type = h[m].type /\ g[m].val = h[m].val
  <2>1. h[m] \in Nodes  OBVIOUS
  <2>2. PICK r : g[m] = [h[m] EXCEPT !.refs = r]  BY <1>2
  <2> QED BY <2>1, <2>2 DEF Nodes
<1> QED BY <1>2, <1>3

(* ... nor does taking one.                                                *)
LEMMA GetChanges ==
  ASSUME NEW h \in Seq(Nodes), NEW n \in 0 .. Len(h)
  PROVE  /\ DOMAIN Get(h, n) = DOMAIN h
         /\ \A m \in DOMAIN h : /\ Get(h, n)[m].type = h[m].type
                                /\ Get(h, n)[m].val = h[m].val
<1>1. CASE n = Null  BY <1>1 DEF Get
<1>2. CASE n # Null
  <2>1. PICK g : g = [h EXCEPT ![n].refs = @ + 1]  OBVIOUS
  <2>2. n \in DOMAIN h /\ h[n] \in Nodes /\ DOMAIN g = DOMAIN h
    BY <1>2, <2>1 DEF Null
  <2>3. ASSUME NEW m \in DOMAIN h
        PROVE  g[m].type = h[m].type /\ g[m].val = h[m].val
    <3>1. CASE m # n  BY <2>1, <3>1
    <3>2. CASE m = n
      <4>1. PICK r : g[m] = [h[m] EXCEPT !.refs = r]  BY <2>1, <2>2, <3>2
      <4> QED BY <2>2, <3>2, <4>1 DEF Nodes
    <3> QED BY <3>1, <3>2
  <2>4. Get(h, n) = g  BY <1>2, <2>1 DEF Get
  <2> QED BY <2>2, <2>3, <2>4
<1> QED BY <1>1, <1>2

(* Another value in one node: what is in it is that or was there before.   *)
Gains(h, g, o, v) ==
  \A k \in DOMAIN Children(g[o]) :
    \/ Children(g[o])[k] = v
    \/ \E j \in DOMAIN Children(h[o]) : Children(g[o])[k] = Children(h[o])[j]

LEMMA OneGrows ==
  ASSUME NEW h \in Seq(Nodes), HeapGrows(h), NEW o \in DOMAIN h, NEW g,
         DOMAIN g = DOMAIN h, NEW v, After(v, o),
         \A m \in DOMAIN h : m # o =>
           g[m].type = h[m].type /\ g[m].val = h[m].val,
         Gains(h, g, o, v)
  PROVE  HeapGrows(g)
<1> SUFFICES ASSUME NEW m \in DOMAIN h, NEW k \in DOMAIN Children(g[m])
             PROVE  After(Children(g[m])[k], m)
  BY DEF HeapGrows
<1>1. CASE m # o
  <2>1. Children(g[m]) = Children(h[m])  BY <1>1 DEF Children
  <2> QED BY <2>1 DEF HeapGrows
<1>2. CASE m = o  BY <1>2 DEF HeapGrows, Gains
<1> QED BY <1>1, <1>2

(* json_object_array_add and json_object_object_add give one node one more *)
(* value.                                                                  *)
AppendTo(h, o, v) == [h EXCEPT ![o].val = Append(@, v)]

LEMMA ArrayAddChanges ==
  ASSUME NEW h \in Seq(Nodes), NEW o \in DOMAIN h, h[o].type = "array",
         NEW v \in Nat, NEW g, g = AppendTo(h, o, v)
  PROVE  /\ DOMAIN g = DOMAIN h /\ g[o].type = "array"
         /\ g[o].val = Append(h[o].val, v)
         /\ \A m \in DOMAIN h : m # o =>
              g[m].type = h[m].type /\ g[m].val = h[m].val
         /\ Gains(h, g, o, v)
<1>1. h[o] \in Nodes  OBVIOUS
<1>2. h[o].val \in Seq(Nat)  BY <1>1 DEF Nodes
<1>3. PICK s \in Seq(Nat) : s = h[o].val  BY <1>2
<1>4. DOMAIN g = DOMAIN h /\ \A m \in DOMAIN h : m # o => g[m] = h[m]
  BY DEF AppendTo
<1>5. PICK u : u = Append(s, v)  OBVIOUS
<1>6. g[o].type = "array" /\ g[o].val = u
  <2>1. g[o] = [h[o] EXCEPT !.val = u]  BY <1>3, <1>5 DEF AppendTo
  <2> QED BY <1>1, <2>1 DEF Nodes
<1>7. PICK a : a = Children(g[o])  OBVIOUS
<1>8. PICK b : b = Children(h[o])  OBVIOUS
<1>9. a = u /\ b = s  BY <1>3, <1>6, <1>7, <1>8 DEF Children
<1>10. ASSUME NEW k \in DOMAIN u
       PROVE  u[k] = v \/ \E j \in DOMAIN s : u[k] = s[j]
  <2>1. k \in 1 .. Len(s) + 1  BY <1>5
  <2>2. CASE k = Len(s) + 1  BY <1>5, <2>2
  <2>3. CASE k # Len(s) + 1
    <3>1. k \in DOMAIN s /\ u[k] = s[k]  BY <1>5, <2>1, <2>3
    <3> QED BY <3>1
  <2> QED BY <2>2, <2>3
<1>11. \A k \in DOMAIN a : a[k] = v \/ \E j \in DOMAIN b : a[k] = b[j]
  BY ONLY <1>9, <1>10
<1>12. Gains(h, g, o, v)  BY ONLY <1>7, <1>8, <1>11 DEF Gains
<1> QED BY <1>3, <1>4, <1>5, <1>6, <1>12

LEMMA ObjectAddChanges ==
  ASSUME NEW h \in Seq(Nodes), NEW o \in DOMAIN h,
         h[o].type = "object", Good(h[o].val), NEW key \in Key,
         NEW v \in Nat, NEW g, g = ObjectAddTo(h, o, key, v)
  PROVE  /\ DOMAIN g = DOMAIN h /\ g[o].type = "object"
         /\ g[o].val = ObjectAdd(h[o].val, key, v)
         /\ \A m \in DOMAIN h : m # o =>
              g[m].type = h[m].type /\ g[m].val = h[m].val
         /\ Gains(h, g, o, v)
<1>1. PICK t : t = h[o].val  OBVIOUS
<1>2. PICK p : p = Puts(h, ObjectGet(t, key))  OBVIOUS
<1>3. PICK x : x = ObjectAdd(t, key, v)  OBVIOUS
<1>4. /\ DOMAIN p = DOMAIN h
      /\ \A m \in DOMAIN h : p[m].type = h[m].type /\ p[m].val = h[m].val
  BY <1>2, PutsChange
<1>5. g = [p EXCEPT ![o].val = ObjectAdd(@, key, v)]
  BY <1>1, <1>2 DEF ObjectAddTo
<1>6. DOMAIN g = DOMAIN h  BY <1>4, <1>5
<1>7. \A m \in DOMAIN h : m # o => g[m].type = h[m].type /\ g[m].val = h[m].val
  BY <1>4, <1>5
<1>8. g[o] = [p[o] EXCEPT !.val = x]
  <2>1. g[o] = [p[o] EXCEPT !.val = ObjectAdd(@, key, v)]  BY <1>4, <1>5
  <2>2. p[o].val = t  BY <1>1, <1>4
  <2> QED BY <1>3, <2>1, <2>2
<1>9. g[o].type = "object" /\ g[o].val = x
  <2>1. PICK F : F = Freed(h, ObjectGet(t, key))  OBVIOUS
  <2>2. PICK r : p[o] = [h[o] EXCEPT !.refs = r]  BY <1>2, <2>1 DEF Puts
  <2>3. h[o] \in Nodes  OBVIOUS
  <2>4. p[o].type = "object" /\ DOMAIN p[o] = {"type", "val", "refs"}
    BY <2>2, <2>3 DEF Nodes
  <2> QED BY <1>8, <2>4
<1>10. /\ Good(x)
       /\ Contents(x) = {e \in Contents(t) : e.k # key} \cup {[k |-> key, v |-> v]}
  BY <1>1, <1>3, ObjectAddGood
<1>11. /\ Children(g[o]) = [n \in ToSet(x.order) |-> x.slot[n].v]
       /\ Children(h[o]) = [n \in ToSet(t.order) |-> t.slot[n].v]
  BY <1>1, <1>9 DEF Children
<1>12. ASSUME NEW k \in ToSet(x.order)
       PROVE  x.slot[k].v = v \/ \E j \in ToSet(t.order) : x.slot[k].v = t.slot[j].v
  <2>1. x.slot[k] \in Contents(x)  BY DEF Contents
  <2>2. x.slot[k] \in Contents(t) \/ x.slot[k] = [k |-> key, v |-> v]
    BY <1>10, <2>1
  <2> QED BY <2>2 DEF Contents
<1>13. \A k \in DOMAIN Children(g[o]) :
         \/ Children(g[o])[k] = v
         \/ \E j \in DOMAIN Children(h[o]) : Children(g[o])[k] = Children(h[o])[j]
  BY <1>11, <1>12
<1> QED BY <1>1, <1>3, <1>6, <1>7, <1>9, <1>13 DEF Gains
-----------------------------------------------------------------------------
(* The values of the levels are in the order of the levels.                *)
LEMMA LevelsInOrder ==
  ASSUME NEW s \in Seq(Levels), s # << >>, StackGrows(s),
         \A i \in 1 .. Len(s) - 1 : s[i].current # Null
  PROVE  \A i \in 1 .. Len(s) - 1 : After(s[Len(s)].current, s[i].current)
<1> DEFINE N == Len(s)
           a == [i \in 1 .. N |-> s[i].current]
           S == {n \in Nat : n < N => \A i \in 1 .. N - 1 :
                                        i <= n => a[n + 1] = Null \/ a[n + 1] > a[i]}
<1>1. N \in Nat /\ N > 0 /\ DOMAIN s = 1 .. N  OBVIOUS
<1>2. \A i \in 1 .. N : a[i] \in Nat
  <2> SUFFICES ASSUME NEW i \in 1 .. N PROVE a[i] \in Nat  OBVIOUS
  <2>1. s[i] \in Levels /\ a[i] = s[i].current  BY <1>1
  <2> QED BY <2>1, LevelIs
<1>3. \A i \in 1 .. N : i > 1 => a[i] = Null \/ a[i] > a[i - 1]
  <2> SUFFICES ASSUME NEW i \in 1 .. N, i > 1
               PROVE  a[i] = Null \/ a[i] > a[i - 1]
    OBVIOUS
  <2>1. i - 1 \in 1 .. N /\ i \in DOMAIN s  BY <1>1
  <2>2. After(s[i].current, s[i - 1].current)  BY <2>1 DEF StackGrows
  <2>3. a[i] = s[i].current /\ a[i - 1] = s[i - 1].current  BY <2>1
  <2> QED BY <2>2, <2>3 DEF After
<1>4. \A i \in 1 .. N - 1 : a[i] # Null  BY <1>1
<1>5. a[N] = s[N].current /\ \A i \in 1 .. N - 1 : a[i] = s[i].current  BY <1>1
<1> HIDE DEF N, a
<1>6. 0 \in S  BY <1>1
<1>7. ASSUME NEW n \in Nat, n \in S PROVE n + 1 \in S
  <2> SUFFICES ASSUME n + 1 < N, NEW i \in 1 .. N - 1, i <= n + 1,
                      a[n + 1 + 1] # Null
               PROVE  a[n + 1 + 1] > a[i]
    OBVIOUS
  <2>1. n + 1 \in 1 .. N - 1 /\ n + 1 + 1 \in 1 .. N /\ n + 1 \in 1 .. N
        /\ (n + 1 + 1) - 1 = n + 1 /\ n + 1 + 1 > 1 /\ i \in 1 .. N
    BY <1>1
  <2>2. a[n + 1 + 1] > a[n + 1]  BY <1>3, <2>1
  <2>3. CASE i = n + 1  BY <2>2, <2>3
  <2>4. CASE i # n + 1
    <3>1. i <= n /\ n < N  BY <1>1, <2>1, <2>4
    <3>2. a[n + 1] > a[i]  BY <1>4, <1>7, <2>1, <3>1
    <3> QED BY <1>2, <2>1, <2>2, <3>2
  <2> QED BY <2>3, <2>4
<1> HIDE DEF S
<1>8. Nat \subseteq S  BY <1>6, <1>7, SetInduction
<1>9. N - 1 \in S  BY <1>1, <1>8
<1>10. N - 1 < N /\ (N - 1) + 1 = N /\ \A i \in 1 .. N - 1 : i <= N - 1
  BY <1>1
<1>11. \A i \in 1 .. N - 1 : a[N] = Null \/ a[N] > a[i]  BY <1>9, <1>10 DEF S
<1> QED BY <1>5, <1>11 DEF After, N

LEMMA StaysApart ==
  ASSUME NEW h, NEW s, Apart(h, s), NEW g, NEW t,
         \A i \in DOMAIN t :
           \/ t[i].current = Null
           \/ NotInside(g, t[i].current)
           \/ /\ \E j \in DOMAIN s : s[j].current = t[i].current
              /\ \A m \in DOMAIN g : t[i].current \in Inside(g, m) =>
                   \E k \in DOMAIN h : t[i].current \in Inside(h, k)
  PROVE  Apart(g, t)
BY DEF Apart, NotInside

(* As long as no node gets a value ...                                     *)
LEMMA InsideSame ==
  ASSUME NEW h, NEW g, DOMAIN g = DOMAIN h,
         \A m \in DOMAIN h : g[m].type = h[m].type /\ g[m].val = h[m].val
  PROVE  \A m \in DOMAIN h : Inside(g, m) = Inside(h, m)
BY DEF Inside, Children

LEMMA SameApart ==
  ASSUME NEW h, NEW s, Apart(h, s), NEW g, NEW t, DOMAIN g = DOMAIN h,
         \A m \in DOMAIN h : g[m].type = h[m].type /\ g[m].val = h[m].val,
         \A i \in DOMAIN t : \/ t[i].current = Null
                             \/ \E j \in DOMAIN s : s[j].current = t[i].current
  PROVE  Apart(g, t)
<1>1. \A m \in DOMAIN h : Inside(g, m) = Inside(h, m)  BY InsideSame
<1> QED BY <1>1, StaysApart

(* ... and where a new one has a level of its own.                         *)
TakesNew(s, n, t) ==
  \A i \in DOMAIN t : \/ t[i].current = n
                      \/ \E j \in DOMAIN s : s[j].current = t[i].current

LEMMA NewApart ==
  ASSUME NEW h, HeapOK(h), NEW s, Apart(h, s), NEW node,
         DOMAIN Children(node) = {}, NEW g, g = Append(h, node),
         NEW t, TakesNew(s, Len(h) + 1, t)
  PROVE  Apart(g, t)
<1>1. h \in Seq(Nodes) /\ Len(h) \in Nat /\ DOMAIN h = 1 .. Len(h)
  BY HeapFacts
<1>2. /\ DOMAIN g = 1 .. Len(h) + 1 /\ g[Len(h) + 1] = node
      /\ \A m \in DOMAIN h : g[m] = h[m]
  BY <1>1
<1>3. Inside(g, Len(h) + 1) = {}
  <2>1. PICK f : f = Children(node)  OBVIOUS
  <2>2. Children(g[Len(h) + 1]) = f /\ DOMAIN f = {}  BY <1>2, <2>1
  <2> QED BY <2>2 DEF Inside
<1>4. \A m \in DOMAIN h : Inside(g, m) = Inside(h, m)  BY <1>2 DEF Inside
<1>5. \A m \in DOMAIN g : m = Len(h) + 1 \/ m \in DOMAIN h  BY <1>1, <1>2
<1>6. NotInside(g, Len(h) + 1)
  <2> SUFFICES ASSUME NEW m \in DOMAIN h, Len(h) + 1 \in Inside(h, m)
               PROVE  FALSE
    BY <1>3, <1>4, <1>5 DEF NotInside
  <2>1. Len(h) + 1 \in 0 .. Len(h)  BY DEF HeapOK, Inside
  <2> QED BY <1>1, <2>1
<1>7. \A m \in DOMAIN g : \A n : n \in Inside(g, m) =>
        \E k \in DOMAIN h : n \in Inside(h, k)
  BY <1>3, <1>4, <1>5
<1>8. PICK n : n = Len(h) + 1  OBVIOUS
<1>9. \A i \in DOMAIN t : \/ t[i].current = n
                          \/ \E j \in DOMAIN s : s[j].current = t[i].current
  BY <1>8 DEF TakesNew
<1>10. NotInside(g, n)  BY <1>6, <1>8
<1>11. \A i \in DOMAIN t :
         \/ t[i].current = Null
         \/ NotInside(g, t[i].current)
         \/ /\ \E j \in DOMAIN s : s[j].current = t[i].current
            /\ \A m \in DOMAIN g : t[i].current \in Inside(g, m) =>
                 \E k \in DOMAIN h : t[i].current \in Inside(h, k)
  BY ONLY <1>7, <1>9, <1>10
<1> QED BY ONLY <1>11, Apart(h, s), StaysApart

(* The levels of t have nothing that none of s has.                        *)
Takes(s, t) ==
  \A i \in DOMAIN t : \/ t[i].current = Null
                      \/ \E j \in DOMAIN s : s[j].current = t[i].current

LEMMA LevelTakes ==
  ASSUME NEW s, NEW n \in DOMAIN s, NEW l,
         l.current = Null \/ l.current = s[n].current
  PROVE  Takes(s, [s EXCEPT ![n] = l])
<1>1. PICK t : t = [s EXCEPT ![n] = l]  OBVIOUS
<1>2. DOMAIN t = DOMAIN s /\ t[n] = l /\ \A i \in DOMAIN s : i # n => t[i] = s[i]
  BY <1>1
<1>3. Takes(s, t)  BY <1>2 DEF Takes
<1> QED BY <1>1, <1>3

(* A step on such levels.                                                  *)
LEMMA QuietGrows ==
  ASSUME OrderInv, StackGrows(stack'), Takes(stack, stack'),
         OnItsWay' => After(obj, top.current)',
         DOMAIN heap' = DOMAIN heap,
         \A m \in DOMAIN heap : /\ heap'[m].type = heap[m].type
                                /\ heap'[m].val = heap[m].val
  PROVE  OrderInv'
<1>1. PICK t : t = stack'  OBVIOUS
<1>2. PICK g : g = heap'  OBVIOUS
<1>3. HeapGrows(heap) /\ Apart(heap, stack)  BY DEF OrderInv
<1>4. /\ DOMAIN g = DOMAIN heap
      /\ \A m \in DOMAIN heap : g[m].type = heap[m].type /\ g[m].val = heap[m].val
  BY <1>2
<1>5. \A i \in DOMAIN t : \/ t[i].current = Null
                          \/ \E j \in DOMAIN stack : stack[j].current = t[i].current
  BY <1>1 DEF Takes
<1>6. Apart(g, t) /\ HeapGrows(g)
  BY ONLY <1>3, <1>4, <1>5, SameApart, SameValuesGrow
<1> QED BY <1>1, <1>2, <1>6 DEF OrderInv

(* A value that is added was nobody's: it is younger than every level's.   *)
LEMMA GainsInside ==
  ASSUME NEW h, NEW g, NEW o \in DOMAIN h, NEW v, DOMAIN g = DOMAIN h,
         \A m \in DOMAIN h : m # o =>
           g[m].type = h[m].type /\ g[m].val = h[m].val,
         Gains(h, g, o, v)
  PROVE  \A m \in DOMAIN g : \A n \in Inside(g, m) :
           n = v \/ \E k \in DOMAIN h : n \in Inside(h, k)
<1> SUFFICES ASSUME NEW m \in DOMAIN h, NEW n \in Inside(g, m), n # v
             PROVE  n \in Inside(h, m)
  OBVIOUS
<1>1. CASE m = o  BY <1>1 DEF Gains, Inside
<1>2. CASE m # o
  <2>1. Children(g[m]) = Children(h[m])  BY <1>2 DEF Children
  <2> QED BY <2>1 DEF Inside
<1> QED BY <1>1, <1>2

LEMMA AddFacts ==
  ASSUME IInv, OrderInv, phase = "parse", top.state \in Adds
  PROVE  /\ top.current \in DOMAIN heap /\ top.current # Null
         /\ obj \in 0 .. Len(heap) /\ After(obj, top.current)
         /\ \A i \in 1 .. Len(stack) - 1 :
              /\ stack[i].current \in DOMAIN heap
              /\ stack[i].current # top.current
         /\ \A i \in DOMAIN stack : stack[i].current \in DOMAIN heap
                                    /\ (obj # Null => stack[i].current # obj)
<1>1. /\ stack \in Seq(Levels) /\ stack # << >> /\ Len(stack) \in Nat
      /\ Len(stack) > 0 /\ DOMAIN stack = 1 .. Len(stack)
      /\ top \in Levels /\ Holds(heap, top)
      /\ Len(heap) \in Nat /\ DOMAIN heap = 1 .. Len(heap)
  BY TopFacts
<1>2. obj \in 0 .. Len(heap)  BY TypeIs DEF IInv, TypeRest
<1>3. After(obj, top.current)  BY DEF OrderInv, OnItsWay, Adds
<1>4. ASSUME NEW l, Holds(heap, l), l.state \in Adds
      PROVE  l.current \in DOMAIN heap
  BY <1>4 DEF Holds, Doing, Adds, Spaces
<1>5. top.current \in DOMAIN heap  BY <1>1, <1>4
<1>6. \A i \in 1 .. Len(stack) - 1 : stack[i].current \in DOMAIN heap
  <2> SUFFICES ASSUME NEW i \in 1 .. Len(stack) - 1
               PROVE  stack[i].current \in DOMAIN heap
    OBVIOUS
  <2>1. i \in DOMAIN stack /\ i # Len(stack)
    <3>1. PICK n \in Nat : n = Len(stack)  BY <1>1
    <3>2. i \in 1 .. n - 1  BY <3>1
    <3>3. i \in 1 .. n /\ i # n  BY ONLY <3>2, n \in Nat
    <3> QED BY <1>1, <3>1, <3>3
  <2>2. Holds(heap, stack[i]) /\ stack[i].state \in Adds
    BY <2>1 DEF IInv, StackOK
  <2> QED BY <1>4, <2>2
<1>7. \A i \in 1 .. Len(stack) - 1 : After(top.current, stack[i].current)
  <2>1. PICK s : s = stack  OBVIOUS
  <2>2. \A i \in 1 .. Len(s) - 1 : s[i].current # Null
    BY <1>1, <1>6, <2>1 DEF Null
  <2>3. s \in Seq(Levels) /\ s # << >> /\ StackGrows(s)
    BY <1>1, <2>1 DEF OrderInv
  <2>4. \A i \in 1 .. Len(s) - 1 : After(s[Len(s)].current, s[i].current)
    BY ONLY <2>2, <2>3, LevelsInOrder
  <2> QED BY <2>1, <2>4 DEF top
<1>8. top.current # Null  BY <1>1, <1>5 DEF Null
<1>9. ASSUME NEW i \in 1 .. Len(stack) - 1
      PROVE  /\ stack[i].current # top.current
             /\ obj # Null => stack[i].current # obj
  <2>1. /\ stack[i].current \in Nat /\ top.current \in Nat /\ obj \in Nat
    BY <1>1, <1>2, <1>5, <1>6
  <2>2. top.current > stack[i].current  BY <1>7, <1>8 DEF After
  <2>3. obj # Null => obj > top.current  BY <1>3 DEF After
  <2> QED BY <2>1, <2>2, <2>3
<1>10. obj # Null => top.current # obj
  <2>1. top.current \in Nat  BY <1>1, <1>5
  <2> QED BY <1>3, <2>1 DEF After
<1>11. ASSUME NEW i \in DOMAIN stack
       PROVE  stack[i].current \in DOMAIN heap
              /\ (obj # Null => stack[i].current # obj)
  <2>1. CASE i = Len(stack)  BY <1>5, <1>10, <2>1 DEF top
  <2>2. CASE i # Len(stack)
    <3>1. i \in 1 .. Len(stack) - 1  BY <1>1, <2>2
    <3> QED BY <1>6, <1>9, <3>1
  <2> QED BY <2>1, <2>2
<1> QED BY <1>2, <1>3, <1>5, <1>6, <1>8, <1>9, <1>11

LEMMA AddGrows ==
  ASSUME IInv, OrderInv, phase = "parse", top.state \in Adds,
         StackGrows(stack'), Takes(stack, stack'), ~OnItsWay',
         NEW o, o = top.current, NEW g, heap' = g,
         DOMAIN g = DOMAIN heap, Gains(heap, g, o, obj),
         \A m \in DOMAIN heap : m # o =>
           g[m].type = heap[m].type /\ g[m].val = heap[m].val
  PROVE  OrderInv'
<1>1. PICK t : t = stack'  OBVIOUS
<1>2. /\ o \in DOMAIN heap /\ After(obj, o)
      /\ \A i \in DOMAIN stack : obj # Null => stack[i].current # obj
  BY AddFacts
<1>3. HeapGrows(heap) /\ Apart(heap, stack) /\ heap \in Seq(Nodes)
  BY TopFacts DEF OrderInv
<1>4. /\ DOMAIN g = DOMAIN heap /\ Gains(heap, g, o, obj)
      /\ \A m \in DOMAIN heap : m # o =>
           g[m].type = heap[m].type /\ g[m].val = heap[m].val
  OBVIOUS
<1>5. HeapGrows(g)  BY ONLY <1>2, <1>3, <1>4, OneGrows
<1>6. \A m \in DOMAIN g : \A n \in Inside(g, m) :
        n = obj \/ \E k \in DOMAIN heap : n \in Inside(heap, k)
  BY ONLY <1>2, <1>4, GainsInside
<1>7. \A i \in DOMAIN t :
        \/ t[i].current = Null
        \/ NotInside(g, t[i].current)
        \/ /\ \E j \in DOMAIN stack : stack[j].current = t[i].current
           /\ \A m \in DOMAIN g : t[i].current \in Inside(g, m) =>
                \E k \in DOMAIN heap : t[i].current \in Inside(heap, k)
  <2> SUFFICES ASSUME NEW i \in DOMAIN t, t[i].current # Null
               PROVE  /\ \E j \in DOMAIN stack : stack[j].current = t[i].current
                      /\ \A m \in DOMAIN g : t[i].current \in Inside(g, m) =>
                           \E k \in DOMAIN heap : t[i].current \in Inside(heap, k)
    OBVIOUS
  <2>1. PICK j \in DOMAIN stack : stack[j].current = t[i].current
    BY <1>1 DEF Takes
  <2>2. t[i].current # obj  BY <1>2, <2>1
  <2> QED BY <1>6, <2>1, <2>2
<1>8. Apart(g, t)  BY ONLY <1>3, <1>7, StaysApart
<1> QED BY <1>1, <1>5, <1>8 DEF OrderInv
-----------------------------------------------------------------------------
(* A step that does not go deeper keeps the levels' order ...              *)
LEMMA TopGrows ==
  ASSUME NEW s \in Seq(Levels), s # << >>, StackGrows(s), NEW l \in Levels,
         \/ l.current = s[Len(s)].current
         \/ \A i \in 1 .. Len(s) - 1 : After(l.current, s[i].current)
  PROVE  StackGrows(WithTop(s, l))
<1> DEFINE N == Len(s)
           t == WithTop(s, l)
<1>1. N \in Nat /\ N > 0 /\ DOMAIN s = 1 .. N  OBVIOUS
<1>2. /\ DOMAIN t = 1 .. N /\ t[N] = l
      /\ \A i \in 1 .. N - 1 : t[i] = s[i]
  <2>1. /\ t \in Seq(Levels) /\ Len(t) = N /\ t[N] = l
        /\ \A i \in 1 .. N - 1 : t[i] = s[i]
    BY TopIs
  <2> HIDE DEF t, N
  <2> QED BY <2>1
<1>3. \/ l.current = s[N].current
      \/ \A i \in 1 .. N - 1 : After(l.current, s[i].current)
  OBVIOUS
<1> HIDE DEF t, N
<1> SUFFICES ASSUME NEW i \in 1 .. N, i > 1
             PROVE  After(t[i].current, t[i - 1].current)
  BY <1>2 DEF StackGrows, t
<1>4. i - 1 \in 1 .. N - 1 /\ i - 1 \in 1 .. N  BY <1>1
<1>5. After(s[i].current, s[i - 1].current)  BY <1>1 DEF StackGrows
<1>6. CASE i = N  BY <1>2, <1>3, <1>4, <1>5, <1>6
<1>7. CASE i # N
  <2>1. i \in 1 .. N - 1  BY <1>1, <1>7
  <2> QED BY <1>2, <1>4, <1>5, <2>1
<1> QED BY <1>6, <1>7

(* ... one that does begins without a value, and one that comes back has   *)
(* the value of the level it leaves.                                       *)
LEMMA PushGrows ==
  ASSUME NEW s \in Seq(Levels), StackGrows(s), s # << >>,
         NEW l \in Levels, l.current = Null
  PROVE  StackGrows(Append(s, l))
<1> DEFINE N == Len(s)
           t == Append(s, l)
<1>1. /\ N \in Nat /\ DOMAIN s = 1 .. N
      /\ t \in Seq(Levels) /\ Len(t) = N + 1 /\ t[N + 1] = l
      /\ \A i \in 1 .. N : t[i] = s[i]
  BY StackMoves
<1>2. DOMAIN t = 1 .. N + 1  BY <1>1
<1> HIDE DEF t
<1> SUFFICES ASSUME NEW i \in 1 .. N + 1, i > 1
             PROVE  After(t[i].current, t[i - 1].current)
  BY <1>2 DEF StackGrows, t
<1>3. CASE i = N + 1  BY <1>1, <1>3 DEF After
<1>4. CASE i # N + 1
  <2>1. i \in 1 .. N /\ i - 1 \in 1 .. N  BY <1>1, <1>4
  <2>2. After(s[i].current, s[i - 1].current)  BY <1>1, <2>1 DEF StackGrows
  <2> QED BY <1>1, <2>1, <2>2
<1> QED BY <1>3, <1>4

LEMMA PopGrows ==
  ASSUME NEW s \in Seq(Levels), StackGrows(s), Len(s) > 1
  PROVE  /\ StackGrows(Front(s))
         /\ After(s[Len(s)].current, Front(s)[Len(Front(s))].current)
<1> DEFINE N == Len(s)
           t == Front(s)
<1>1. N \in Nat /\ N > 1 /\ DOMAIN s = 1 .. N /\ s # << >>  OBVIOUS
<1>2. PICK l : l = s[N]  OBVIOUS
<1>3. l \in Levels  BY <1>1, <1>2
<1>4. /\ t \in Seq(Levels) /\ Len(t) = N - 1
      /\ \A i \in 1 .. N - 1 : t[i] = s[i]
  BY <1>1, <1>3, StackMoves
<1>5. DOMAIN t = 1 .. N - 1  BY <1>1, <1>4
<1> HIDE DEF t, N
<1>6. ASSUME NEW i \in 1 .. N - 1, i > 1
      PROVE  After(t[i].current, t[i - 1].current)
  <2>1. i \in 1 .. N /\ i - 1 \in 1 .. N - 1  BY <1>1, <1>6
  <2>2. After(s[i].current, s[i - 1].current)
    BY <1>1, <1>6, <2>1 DEF StackGrows
  <2> QED BY <1>4, <2>1, <2>2
<1>7. After(s[N].current, s[N - 1].current)  BY <1>1 DEF StackGrows
<1>8. N - 1 \in 1 .. N - 1 /\ t[N - 1] = s[N - 1]  BY <1>1, <1>4
<1>9. StackGrows(t)  BY <1>5, <1>6 DEF StackGrows
<1>10. After(s[N].current, t[Len(t)].current)  BY <1>4, <1>7, <1>8
<1> QED BY <1>9, <1>10 DEF t, N
-----------------------------------------------------------------------------
(* Steps that leave the memory, or fail.                                   *)
LEMMA FailGrows ==
  ASSUME OrderInv, UNCHANGED <<heap, stack>>, phase' # "parse"
  PROVE  OrderInv'
BY DEF OrderInv, OnItsWay

LEMMA LevelTop ==
  ASSUME IInv, OrderInv, phase = "parse", NEW l \in Levels,
         l.current = top.current, l.state \notin Adds,
         stack' = WithTop(stack, l)
  PROVE  StackGrows(stack') /\ Takes(stack, stack') /\ ~OnItsWay'
<1>1. stack \in Seq(Levels) /\ stack # << >> /\ Len(stack) \in DOMAIN stack
  BY TopFacts
<1>2. PICK s : s = WithTop(stack, l)  OBVIOUS
<1>3. StackGrows(s)  BY <1>1, <1>2, TopGrows DEF OrderInv, top
<1>4. Takes(stack, s)  BY <1>1, <1>2, LevelTakes DEF WithTop, top
<1>5. s[Len(s)] = l
  <2>1. Len(s) = Len(stack) /\ s[Len(stack)] = l  BY <1>1, <1>2, TopIs
  <2> QED BY <2>1
<1>6. ~OnItsWay'  BY <1>2, <1>5 DEF OnItsWay, top, Adds
<1> QED BY <1>2, <1>3, <1>4, <1>6

LEMMA LevelGrows ==
  ASSUME IInv, OrderInv, phase = "parse", UNCHANGED heap, NEW l \in Levels,
         l.current = top.current, l.state \notin Adds,
         stack' = WithTop(stack, l)
  PROVE  OrderInv'
BY LevelTop, QuietGrows

LEMMA ToGrows ==
  ASSUME IInv, OrderInv, phase = "parse", UNCHANGED heap,
         NEW x \in States \ Adds, To(x)
  PROVE  OrderInv'
<1>1. top \in Levels  BY TopFacts
<1>2. PICK l : l = [top EXCEPT !.state = x]  OBVIOUS
<1>3. l \in Levels /\ l.state = x /\ l.current = top.current
  BY <1>1, <1>2 DEF Levels
<1>4. stack' = WithTop(stack, l)  BY <1>2 DEF To, Level, WithTop
<1> QED BY <1>3, <1>4, LevelGrows

LEMMA SpaceTop ==
  ASSUME IInv, OrderInv, phase = "parse", NEW y \in Saved, SpaceThen(y)
  PROVE  StackGrows(stack') /\ Takes(stack, stack') /\ ~OnItsWay'
<1>1. top \in Levels  BY TopFacts
<1>2. PICK l : l = [state |-> "eatws", saved |-> y, current |-> top.current,
                    name |-> top.name]
  OBVIOUS
<1>3. l \in Levels  BY <1>1, <1>2, LevelIs, LevelTo DEF States
<1>4. l.state \notin Adds /\ l.current = top.current  BY <1>2 DEF Adds
<1>5. stack' = WithTop(stack, l)
  <2>1. stack' = [stack EXCEPT ![Len(stack)] =
                    [top EXCEPT !.state = "eatws", !.saved = y]]
    BY DEF SpaceThen, Level
  <2>2. [top EXCEPT !.state = "eatws", !.saved = y] = l
    BY <1>1, <1>2, LevelThen
  <2> QED BY <2>1, <2>2 DEF WithTop
<1> QED BY <1>3, <1>4, <1>5, LevelTop

LEMMA SpaceGrows ==
  ASSUME IInv, OrderInv, phase = "parse", UNCHANGED heap,
         NEW y \in Saved, SpaceThen(y)
  PROVE  OrderInv'
BY SpaceTop, QuietGrows

LEMMA LevelNamed ==
  ASSUME IInv, phase = "parse", NEW y, NEW k,
         Level([top EXCEPT !.state = "eatws", !.saved = y, !.name = k]),
         NEW l, l = [state |-> "eatws", saved |-> y, current |-> top.current,
                     name |-> k]
  PROVE  stack' = WithTop(stack, l)
<1>1. PICK t \in Levels : t = top  BY TopFacts
<1>2. PICK m : m = [t EXCEPT !.state = "eatws", !.saved = y, !.name = k]
  OBVIOUS
<1>3. m = [state |-> "eatws", saved |-> y, current |-> t.current, name |-> k]
  BY ONLY t \in Levels, <1>2, LevelWithName
<1>4. stack' = WithTop(stack, m)  BY <1>1, <1>2 DEF Level, WithTop
<1> QED BY <1>1, <1>3, <1>4

LEMMA NamedTop ==
  ASSUME IInv, OrderInv, phase = "parse", NEW y \in Saved,
         NEW k \in Key \cup {"none"},
         Level([top EXCEPT !.state = "eatws", !.saved = y, !.name = k])
  PROVE  StackGrows(stack') /\ Takes(stack, stack') /\ ~OnItsWay'
<1>1. PICK l : l = [state |-> "eatws", saved |-> y, current |-> top.current,
                    name |-> k]
  OBVIOUS
<1>2. stack' = WithTop(stack, l)  BY <1>1, LevelNamed
<1>3. l \in Levels  BY <1>1, TopFacts, LevelIs, LevelTo DEF States
<1>4. l.state \notin Adds /\ l.current = top.current  BY <1>1 DEF Adds
<1> QED BY <1>2, <1>3, <1>4, LevelTop

LEMMA DeeperGrows ==
  ASSUME IInv, OrderInv, phase = "parse", UNCHANGED heap,
         NEW a \in Adds, Deeper(a)
  PROVE  OrderInv'
<1>1. stack \in Seq(Levels) /\ stack # << >> /\ top \in Levels
      /\ Len(stack) \in DOMAIN stack
  BY TopFacts
<1>2. CASE TooDeep  BY <1>2, FailGrows DEF Deeper, Fail
<1>3. CASE ~TooDeep
  <2>1. PICK l : l = [state |-> a, saved |-> top.saved, current |-> top.current,
                      name |-> top.name]
    OBVIOUS
  <2>2. l \in Levels /\ l.current = top.current
    BY <1>1, <2>1, LevelIs, LevelTo DEF Adds, States
  <2>3. [top EXCEPT !.state = a] = l  BY <1>1, <2>1, LevelIs
  <2>4. PICK s : s = WithTop(stack, l)  OBVIOUS
  <2>5. stack' = Append(s, NewLevel)
    <3>1. stack' = Append([stack EXCEPT ![Len(stack)].state = a], NewLevel)
      BY <1>3 DEF Deeper
    <3>2. [stack EXCEPT ![Len(stack)].state = a]
            = [stack EXCEPT ![Len(stack)] = [top EXCEPT !.state = a]]
      BY DEF top
    <3> QED BY <2>3, <2>4, <3>1, <3>2 DEF WithTop
  <2>6. StackGrows(s)  BY <1>1, <2>2, <2>4, TopGrows DEF OrderInv, top
  <2>7. s \in Seq(Levels) /\ s # << >> /\ Takes(stack, s)
    <3>1. s \in Seq(Levels) /\ s # << >>  BY <1>1, <2>2, <2>4, TopIs
    <3>2. Takes(stack, s)  BY <1>1, <2>2, <2>4, LevelTakes DEF WithTop, top
    <3> QED BY <3>1, <3>2
  <2>8. /\ NewLevel \in Levels /\ NewLevel.current = Null
        /\ NewLevel.state \notin Adds
    BY DEF NewLevel, Levels, States, Saved, Null, Adds
  <2>9. PICK t : t = Append(s, NewLevel)  OBVIOUS
  <2>10. StackGrows(t)  BY <2>6, <2>7, <2>8, <2>9, PushGrows
  <2>11. /\ t \in Seq(Levels) /\ Len(t) = Len(s) + 1 /\ t[Len(t)] = NewLevel
         /\ \A i \in 1 .. Len(s) : t[i] = s[i]
    BY <2>7, <2>8, <2>9, StackMoves
  <2>12. \A i \in DOMAIN t : t[i] = NewLevel \/ (i \in DOMAIN s /\ t[i] = s[i])
    BY <2>7, <2>11
  <2>13. Takes(stack, t)  BY <2>7, <2>8, <2>12 DEF Takes
  <2>14. ~OnItsWay'  BY <2>5, <2>8, <2>9, <2>11 DEF OnItsWay, top, Adds
  <2> QED BY <2>5, <2>9, <2>10, <2>13, <2>14, QuietGrows
<1> QED BY <1>2, <1>3
-----------------------------------------------------------------------------
(* Every action keeps the order.                                           *)
LEMMA EatwsGrows ==
  ASSUME IInv, OrderInv, Eatws PROVE OrderInv'
<1>1. /\ phase = "parse" /\ heap' = heap /\ obj' = obj
      /\ top \in Levels /\ top.state \notin Adds /\ top.saved \in States \ Adds
  <2>1. phase = "parse" /\ top.state = "eatws" /\ heap' = heap /\ obj' = obj
    BY DEF Eatws, In, Same
  <2>2. top \in Levels  BY <2>1, TopFacts
  <2>3. top.saved \in Saved  BY <2>2, LevelIs
  <2> QED BY <2>1, <2>2, <2>3 DEF Saved, States, Adds
<1>2. CASE c = "nl"
  <2>1. stack' = stack  BY <1>2 DEF Eatws
  <2>2. ~OnItsWay'  BY <1>1, <2>1 DEF OnItsWay, top, Adds
  <2> QED BY <1>1, <2>1, <2>2 DEF OrderInv
<1>3. CASE c = "slash"
  <2>1. To("comment_start")  BY <1>3 DEF Eatws
  <2>2. "comment_start" \in States \ Adds  BY DEF States, Adds
  <2> QED BY <1>1, <2>1, <2>2, ToGrows
<1>4. CASE c # "nl" /\ c # "slash"
  <2>1. To(top.saved)  BY <1>4 DEF Eatws
  <2> QED BY <1>1, <2>1, ToGrows
<1> QED BY <1>2, <1>3, <1>4

LEMMA CommentGrows ==
  ASSUME IInv, OrderInv, Comment PROVE OrderInv'
<1>1. phase = "parse" /\ heap' = heap  BY DEF Comment, In, Same
<1>2. \/ \E x \in Spaces : To(x)
      \/ Fail("comment")
  <2>1. CASE In("comment_start")
    <3>1. CASE c = "star"  BY <2>1, <3>1 DEF Comment, In, Spaces
    <3>2. CASE c = "slash"  BY <2>1, <3>2 DEF Comment, In, Spaces
    <3>3. CASE c # "star" /\ c # "slash"  BY <2>1, <3>3 DEF Comment, In, Spaces
    <3> QED BY <3>1, <3>2, <3>3
  <2>2. CASE In("comment")  BY <2>2 DEF Comment, In, Spaces
  <2>3. CASE In("comment_end")  BY <2>3 DEF Comment, In, Spaces
  <2>4. CASE In("comment_eol")  BY <2>4 DEF Comment, In, Spaces
  <2> QED BY <2>1, <2>2, <2>3, <2>4 DEF Comment
<1>3. CASE Fail("comment")  BY <1>1, <1>3, FailGrows DEF Fail
<1>4. ASSUME NEW x \in Spaces, To(x)
      PROVE  OrderInv'
  <2>1. x \in States \ Adds  BY DEF Spaces, States, Adds
  <2> QED BY <1>1, <1>4, <2>1, ToGrows
<1> QED BY <1>2, <1>3, <1>4

(* A new value is the last one.                                            *)
LEMMA NewGrows ==
  ASSUME IInv, OrderInv, phase = "parse",
         NEW node, DOMAIN Children(node) = {}, heap' = Append(heap, node),
         NEW l \in Levels, l.state \notin Adds, l.current = Len(heap) + 1,
         stack' = WithTop(stack, l)
  PROVE  OrderInv'
<1> DEFINE N == Len(heap)
           g == Append(heap, node)
<1>1. /\ stack \in Seq(Levels) /\ stack # << >>
      /\ heap \in Seq(Nodes) /\ N \in Nat /\ DOMAIN heap = 1 .. N
  BY TopFacts
<1>2. /\ DOMAIN g = 1 .. N + 1 /\ g[N + 1] = node
      /\ \A m \in 1 .. N : g[m] = heap[m]
  BY <1>1
<1> HIDE DEF g
<1>3. HeapGrows(g)
  <2> SUFFICES ASSUME NEW m \in 1 .. N + 1, NEW k \in DOMAIN Children(g[m])
               PROVE  After(Children(g[m])[k], m)
    BY <1>2 DEF HeapGrows
  <2>1. m # N + 1  BY <1>2
  <2>2. m \in DOMAIN heap /\ g[m] = heap[m]  BY <1>1, <1>2, <2>1
  <2> QED BY <2>2 DEF OrderInv, HeapGrows
<1>4. PICK s : s = WithTop(stack, l)  OBVIOUS
<1>5. \A i \in 1 .. Len(stack) - 1 : After(l.current, stack[i].current)
  <2> SUFFICES ASSUME NEW i \in 1 .. Len(stack) - 1
               PROVE  N + 1 > stack[i].current
    BY DEF After
  <2>1. i \in DOMAIN stack  BY <1>1
  <2>2. stack[i].current \in 0 .. N  BY <2>1 DEF IInv, StackOK
  <2> QED BY <1>1, <2>2
<1>6. StackGrows(s)  BY <1>1, <1>4, <1>5, TopGrows DEF OrderInv
<1>7. /\ s \in Seq(Levels) /\ Len(s) = Len(stack) /\ s[Len(stack)] = l
      /\ \A i \in 1 .. Len(stack) - 1 : s[i] = stack[i]
  <2>1. /\ WithTop(stack, l) \in Seq(Levels)
        /\ Len(WithTop(stack, l)) = Len(stack)
        /\ WithTop(stack, l)[Len(stack)] = l
        /\ \A i \in 1 .. Len(stack) - 1 : WithTop(stack, l)[i] = stack[i]
    BY ONLY <1>1, l \in Levels, TopIs
  <2> QED BY <1>4, <2>1
<1>8. ~OnItsWay'
  <2>1. s[Len(s)] = l  BY <1>7
  <2> QED BY <1>4, <2>1 DEF OnItsWay, top, Adds
<1>9. Apart(g, s)
  <2>1. \A i \in DOMAIN s : s[i] = l \/ (i \in DOMAIN stack /\ s[i] = stack[i])
    BY <1>1, <1>7
  <2>2. TakesNew(stack, Len(heap) + 1, s)  BY <2>1 DEF TakesNew
  <2>3. HeapOK(heap) /\ Apart(heap, stack) /\ DOMAIN Children(node) = {}
    BY DEF IInv, OrderInv
  <2>4. PICK f : f = Append(heap, node)  OBVIOUS
  <2>5. Apart(f, s)  BY ONLY <2>2, <2>3, <2>4, NewApart
  <2> QED BY <2>4, <2>5 DEF g
<1> QED BY <1>3, <1>4, <1>6, <1>8, <1>9 DEF OrderInv, g
-----------------------------------------------------------------------------
LEMMA StartGrows ==
  ASSUME IInv, OrderInv, Start PROVE OrderInv'
<1>1. phase = "parse" /\ obj' = obj  BY DEF Start, In
<1>2. top \in Levels /\ Len(heap) \in Nat  BY <1>1, TopFacts
<1>3. ASSUME NEW y \in Saved, NEW n \in Nat,
             Level([top EXCEPT !.state = "eatws", !.saved = y, !.current = n])
      PROVE  \E l \in Levels : /\ l.state \notin Adds /\ l.current = n
                               /\ stack' = WithTop(stack, l)
  <2>1. PICK m : m = [top EXCEPT !.state = "eatws", !.saved = y, !.current = n]
    OBVIOUS
  <2>2. m = [state |-> "eatws", saved |-> y, current |-> n, name |-> top.name]
    BY ONLY <1>2, <2>1, LevelWithValue
  <2>3. m \in Levels  BY <1>2, <2>2, LevelIs, LevelTo DEF States
  <2>4. m.state \notin Adds /\ m.current = n  BY <2>2 DEF Adds
  <2>5. stack' = WithTop(stack, m)  BY <1>3, <2>1 DEF Level, WithTop
  <2> QED BY <2>3, <2>4, <2>5
<1>4. ASSUME NEW y \in Saved,
             Level([top EXCEPT !.state = "eatws", !.saved = y,
                               !.current = Len(heap) + 1]),
             NEW node, DOMAIN Children(node) = {}, heap' = Append(heap, node)
      PROVE  OrderInv'
  <2>1. Len(heap) + 1 \in Nat  BY <1>2
  <2>2. PICK l \in Levels : /\ l.state \notin Adds /\ l.current = Len(heap) + 1
                            /\ stack' = WithTop(stack, l)
    BY <1>3, <1>4, <2>1
  <2> QED BY <1>1, <1>4, <2>2, NewGrows
<1> DEFINE object == Node("object", NewTable(DefEntries))
           array == Node("array", << >>)
           leaf == Node("leaf", c)
<1>5. CASE /\ c \in {"{", "["}
           /\ NewNode(IF c = "{" THEN object ELSE array)
           /\ Level([top EXCEPT !.state = "eatws",
                                !.saved = IF c = "{" THEN "object_field_start"
                                                     ELSE "array",
                                !.current = NewId])
  <2>1. CASE c = "{"
    <3>1. Level([top EXCEPT !.state = "eatws", !.saved = "object_field_start",
                            !.current = Len(heap) + 1])
      BY <1>5, <2>1 DEF NewId
    <3>2. heap' = Append(heap, object)  BY <1>5, <2>1 DEF NewNode
    <3>3. DOMAIN Children(object) = {}
      <4>1. PICK t : t = NewTable(DefEntries)  OBVIOUS
      <4>2. t.order = << >>  BY <4>1 DEF NewTable
      <4>3. object = [type |-> "object", val |-> t, refs |-> 1]
        BY <4>1 DEF Node
      <4>4. Children(object) = [n \in ToSet(t.order) |-> t.slot[n].v]
        BY <4>3 DEF Children
      <4>5. ToSet(t.order) = {}  BY <4>2 DEF ToSet
      <4> QED BY ONLY <4>4, <4>5
    <3>4. "object_field_start" \in Saved  BY DEF Saved
    <3> HIDE DEF object
    <3> QED BY <1>4, <3>1, <3>2, <3>3, <3>4
  <2>2. CASE c # "{"
    <3>1. Level([top EXCEPT !.state = "eatws", !.saved = "array",
                            !.current = Len(heap) + 1])
      BY <1>5, <2>2 DEF NewId
    <3>2. heap' = Append(heap, array)  BY <1>5, <2>2 DEF NewNode
    <3>3. DOMAIN Children(array) = {}
      <4>1. PICK s : s = << >>  OBVIOUS
      <4>2. Children(array) = s /\ DOMAIN s = {}  BY <4>1 DEF Node, Children
      <4> QED BY <4>2
    <3>4. "array" \in Saved  BY DEF Saved
    <3> HIDE DEF array
    <3> QED BY <1>4, <3>1, <3>2, <3>3, <3>4
  <2> QED BY <2>1, <2>2
<1>6. CASE NewNode(leaf) /\ Value(NewId)
  <2>1. Level([top EXCEPT !.state = "eatws", !.saved = "finish",
                          !.current = Len(heap) + 1])
    BY <1>6 DEF Value, NewId
  <2>2. heap' = Append(heap, leaf)  BY <1>6 DEF NewNode
  <2>3. DOMAIN Children(leaf) = {}
    <3>1. PICK s : s = << >>  OBVIOUS
    <3>2. Children(leaf) = s /\ DOMAIN s = {}  BY <3>1 DEF Node, Children
    <3> QED BY <3>2
  <2>4. "finish" \in Saved  BY DEF Saved
  <2> HIDE DEF leaf
  <2> QED BY <1>4, <2>1, <2>2, <2>3, <2>4
<1>7. CASE Value(Null) /\ UNCHANGED heap
  <2>1. Level([top EXCEPT !.state = "eatws", !.saved = "finish",
                          !.current = Null])
    BY <1>7 DEF Value
  <2>2. Null \in Nat /\ "finish" \in Saved  BY DEF Null, Saved
  <2>3. PICK l \in Levels : /\ l.state \notin Adds /\ l.current = Null
                            /\ stack' = WithTop(stack, l)
    BY <1>3, <2>1, <2>2
  <2>4. top.current = Null
    <3>1. top.state = "start" /\ Holds(heap, top)
      BY <1>1, TopFacts DEF Start, In
    <3> QED BY <3>1 DEF Holds, Doing, Spaces
  <2> QED BY <1>1, <1>7, <2>3, <2>4, LevelGrows
<1>8. CASE /\ Fail(IF c = "open" THEN "eof" ELSE "unexpected")
           /\ UNCHANGED heap
  BY <1>8, FailGrows DEF Fail
<1> QED BY <1>5, <1>6, <1>7, <1>8 DEF Start
-----------------------------------------------------------------------------
(* The value on its way is put where the level on top is: it is younger.   *)
LEMMA ArrayGrows ==
  ASSUME IInv, OrderInv, Array PROVE OrderInv'
<1>1. phase = "parse" /\ obj' = obj  BY DEF Array, In
<1>2. /\ top \in Levels /\ Holds(heap, top) /\ heap \in Seq(Nodes)
      /\ stack \in Seq(Levels) /\ stack # << >>
  BY <1>1, TopFacts
<1>3. {"finish", "array_sep", "array"} \subseteq Saved  BY DEF Saved
<1>4. CASE In("array")
  <2>1. heap' = heap /\ (SpaceThen("finish") \/ Deeper("array_add"))
    BY <1>4 DEF Array, In
  <2> QED BY <1>1, <1>3, <2>1, SpaceGrows, DeeperGrows DEF Adds
<1>5. CASE In("array_add")
  <2>1. /\ heap' = [heap EXCEPT ![top.current].val = Append(@, obj)]
        /\ SpaceThen("array_sep")
    BY <1>5 DEF Array, In
  <2>2. top.current \in DOMAIN heap /\ heap[top.current].type = "array"
    BY <1>2, <1>5 DEF Holds, Doing, Spaces, In
  <2>3. /\ obj \in Nat /\ top.state \in Adds
        /\ StackGrows(stack') /\ Takes(stack, stack') /\ ~OnItsWay'
    BY <1>1, <1>3, <1>5, <2>1, SpaceTop, TypeIs DEF IInv, TypeRest, In, Adds
  <2>4. PICK o : o = top.current  OBVIOUS
  <2>5. PICK g : g = AppendTo(heap, o, obj)  OBVIOUS
  <2>6. /\ DOMAIN g = DOMAIN heap /\ Gains(heap, g, o, obj)
        /\ \A m \in DOMAIN heap : m # o =>
             g[m].type = heap[m].type /\ g[m].val = heap[m].val
    <3>1. o \in DOMAIN heap /\ heap[o].type = "array"  BY <2>2, <2>4
    <3> QED BY ONLY <1>2, <2>3, <2>5, <3>1, ArrayAddChanges
  <2>7. heap' = g  BY <2>1, <2>4, <2>5 DEF AppendTo
  <2> QED BY <1>1, <2>3, <2>4, <2>6, <2>7, AddGrows
<1>6. CASE In("array_sep")
  <2>1. /\ heap' = heap
        /\ SpaceThen("finish") \/ SpaceThen("array") \/ Fail("array")
    <3>1. CASE c = "]"  BY <1>6, <3>1 DEF Array, In
    <3>2. CASE c = ","  BY <1>6, <3>2 DEF Array, In
    <3>3. CASE c # "]" /\ c # ","  BY <1>6, <3>3 DEF Array, In
    <3> QED BY <3>1, <3>2, <3>3
  <2>2. CASE Fail("array")  BY <2>1, <2>2, FailGrows DEF Fail
  <2> QED BY <1>1, <1>3, <2>1, <2>2, SpaceGrows
<1> QED BY <1>4, <1>5, <1>6 DEF Array

LEMMA ObjectGrows ==
  ASSUME IInv, OrderInv, Object PROVE OrderInv'
<1>1. phase = "parse" /\ obj' = obj  BY DEF Object, In
<1>2. /\ top \in Levels /\ Holds(heap, top) /\ heap \in Seq(Nodes)
      /\ stack \in Seq(Levels) /\ stack # << >>
  BY <1>1, TopFacts
<1>3. /\ {"finish", "object_field_start", "object_field_end", "object_value",
          "object_sep"} \subseteq Saved
      /\ "object_value_add" \in Adds
  BY DEF Saved, Adds
<1>4. CASE In("object_field_start")
  <2>1. /\ heap' = heap
        /\ \/ SpaceThen("finish")
           \/ c \in Key /\ Level([top EXCEPT !.state = "eatws",
                                             !.saved = "object_field_end",
                                             !.name = c])
           \/ Fail("eof") \/ Fail("key_name")
    BY <1>4 DEF Object, In
  <2>2. CASE SpaceThen("finish")  BY <1>1, <1>3, <2>1, <2>2, SpaceGrows
  <2>3. CASE c \in Key /\ Level([top EXCEPT !.state = "eatws",
                                            !.saved = "object_field_end",
                                            !.name = c])
    <3>1. PICK k \in Key : k = c  BY <2>3
    <3>2. PICK y \in Saved : y = "object_field_end"  BY <1>3
    <3> QED BY <1>1, <2>1, <2>3, <3>1, <3>2, NamedTop, QuietGrows
  <2>4. CASE Fail("eof") \/ Fail("key_name")  BY <2>1, <2>4, FailGrows DEF Fail
  <2> QED BY <2>1, <2>2, <2>3, <2>4
<1>5. CASE In("object_field_end")
  <2>1. heap' = heap /\ (SpaceThen("object_value") \/ Fail("key_sep"))
    BY <1>5 DEF Object, In
  <2>2. CASE Fail("key_sep")  BY <2>1, <2>2, FailGrows DEF Fail
  <2> QED BY <1>1, <1>3, <2>1, <2>2, SpaceGrows
<1>6. CASE In("object_value")
  <2>1. heap' = heap /\ Deeper("object_value_add")  BY <1>6 DEF Object, In
  <2> QED BY <1>1, <1>3, <2>1, DeeperGrows
<1>7. CASE In("object_value_add")
  <2>1. /\ heap' = ObjectAddTo(heap, top.current, top.name, obj)
        /\ Level([top EXCEPT !.state = "eatws", !.saved = "object_sep",
                             !.name = "none"])
    BY <1>7 DEF Object, In
  <2>2. /\ top.current \in DOMAIN heap /\ heap[top.current].type = "object"
        /\ top.name \in Key
    BY <1>2, <1>7 DEF Holds, Doing, Spaces, In
  <2>3. StackGrows(stack') /\ Takes(stack, stack') /\ ~OnItsWay'
    <3>1. PICK y \in Saved : y = "object_sep"  BY <1>3
    <3>2. PICK k \in Key \cup {"none"} : k = "none"  OBVIOUS
    <3> QED BY <1>1, <2>1, <3>1, <3>2, NamedTop
  <2>4. obj \in Nat /\ top.state \in Adds
    BY <1>7, TypeIs DEF IInv, TypeRest, In, Adds
  <2>5. PICK o : o = top.current  OBVIOUS
  <2>6. PICK g : g = heap'  OBVIOUS
  <2>7. /\ DOMAIN g = DOMAIN heap /\ Gains(heap, g, o, obj)
        /\ \A m \in DOMAIN heap : m # o =>
             g[m].type = heap[m].type /\ g[m].val = heap[m].val
    <3>1. PICK key : key = top.name  OBVIOUS
    <3>2. /\ o \in DOMAIN heap /\ heap[o].type = "object" /\ key \in Key
          /\ Good(heap[o].val)
      BY <2>2, <2>5, <3>1 DEF IInv, HeapOK
    <3>3. g = ObjectAddTo(heap, o, key, obj)  BY <2>1, <2>5, <2>6, <3>1
    <3> QED BY ONLY <1>2, <2>4, <3>2, <3>3, ObjectAddChanges
  <2> QED BY <1>1, <2>3, <2>4, <2>5, <2>6, <2>7, AddGrows
<1>8. CASE In("object_sep")
  <2>1. /\ heap' = heap
        /\ SpaceThen("finish") \/ SpaceThen("object_field_start")
           \/ Fail("value_sep")
    <3>1. CASE c = "}"  BY <1>8, <3>1 DEF Object, In
    <3>2. CASE c = ","  BY <1>8, <3>2 DEF Object, In
    <3>3. CASE c # "}" /\ c # ","  BY <1>8, <3>3 DEF Object, In
    <3> QED BY <3>1, <3>2, <3>3
  <2>2. CASE Fail("value_sep")  BY <2>1, <2>2, FailGrows DEF Fail
  <2> QED BY <1>1, <1>3, <2>1, <2>2, SpaceGrows
<1> QED BY <1>4, <1>5, <1>6, <1>7, <1>8 DEF Object
-----------------------------------------------------------------------------
(* The memory that references are given up in.                             *)
LEMMA GetKeeps ==
  ASSUME IInv, phase # "done", Way(stack, phase, obj) = Null,
         NEW n, n = Null \/ n = top.current
  PROVE  HeapOK(Get(heap, n))
<1>1. PICK old : old = OwnersOf(heap, stack, Null)  OBVIOUS
<1>2. /\ old \in [DOMAIN heap -> Nat] /\ Balanced(heap, old)
      /\ n # Null => old[n] > 0
  BY <1>1, TheirOwn
<1>3. HeapOK(heap) /\ n \in 0 .. Len(heap)  BY TopFacts DEF IInv, Null
<1> QED BY ONLY <1>2, <1>3, GetBalances

(* The memory when a reference has been taken and some are given up.       *)
LEMMA PassedOn ==
  ASSUME IInv, phase # "done", Way(stack, phase, obj) = Null,
         NEW n, n = Null \/ n = top.current, NEW work,
         heap' = Puts(Get(heap, n), work)
  PROVE  /\ DOMAIN heap' = DOMAIN heap
         /\ \A m \in DOMAIN heap : /\ heap'[m].type = heap[m].type
                                   /\ heap'[m].val = heap[m].val
<1>1. PICK g : g = Get(heap, n)  OBVIOUS
<1>2. heap \in Seq(Nodes) /\ n \in 0 .. Len(heap)  BY TopFacts DEF Null
<1>3. g \in Seq(Nodes)
  <2>1. HeapOK(g)  BY <1>1, GetKeeps
  <2> QED BY <2>1 DEF HeapOK
<1>4. /\ DOMAIN g = DOMAIN heap
      /\ \A m \in DOMAIN heap : g[m].type = heap[m].type /\ g[m].val = heap[m].val
  BY <1>1, <1>2, GetChanges
<1>5. PICK f : f = heap'  OBVIOUS
<1>6. f = Puts(g, work)  BY <1>1, <1>5
<1>7. /\ DOMAIN f = DOMAIN g
      /\ \A m \in DOMAIN g : f[m].type = g[m].type /\ f[m].val = g[m].val
  BY ONLY <1>3, <1>6, PutsChange
<1> QED BY <1>4, <1>5, <1>7

LEMMA FinishGrows ==
  ASSUME IInv, OrderInv, Finish PROVE OrderInv'
<1>1. phase = "parse" /\ top.state = "finish"  BY DEF Finish, In
<1>2. /\ stack \in Seq(Levels) /\ Len(stack) \in Nat /\ Len(stack) > 0
      /\ heap \in Seq(Nodes) /\ top.current \in 0 .. Len(heap)
  BY <1>1, TopFacts
<1>3. CASE depth = 0  BY <1>3, FailGrows DEF Finish
<1>4. CASE depth # 0
  <2>1. PICK n : n = top.current  OBVIOUS
  <2>2. PICK s : s = Front(stack)  OBVIOUS
  <2>3. obj' = n /\ stack' = s  BY <1>4, <2>1, <2>2 DEF Finish
  <2>4. Len(stack) > 1
    <3>1. PICK k : k = Len(stack)  OBVIOUS
    <3>2. k \in Nat /\ k > 0 /\ k - 1 # 0  BY <1>2, <1>4, <3>1 DEF depth
    <3>3. k > 1  BY ONLY <3>2
    <3> QED BY <3>1, <3>3
  <2>5. /\ DOMAIN heap' = DOMAIN heap
        /\ \A m \in DOMAIN heap : /\ heap'[m].type = heap[m].type
                                  /\ heap'[m].val = heap[m].val
    <3>1. Way(stack, phase, obj) = Null /\ phase # "done"
      BY <1>1 DEF Way, top, Adds
    <3>2. PICK work : work = <<n>>  OBVIOUS
    <3>3. heap' = Puts(Get(heap, n), work)  BY <1>4, <2>1, <3>2 DEF Finish, Put
    <3> QED BY <2>1, <3>1, <3>3, PassedOn
  <2>6. StackGrows(s) /\ After(n, s[Len(s)].current)
    BY <1>2, <2>1, <2>2, <2>4, PopGrows DEF OrderInv, top
  <2>7. \A i \in DOMAIN s : i \in DOMAIN stack /\ s[i] = stack[i]
    <3>1. /\ s \in Seq(Levels) /\ Len(s) = Len(stack) - 1
          /\ \A i \in 1 .. Len(stack) - 1 : s[i] = stack[i]
      <4>1. stack # << >> /\ top \in Levels  BY <1>1, TopFacts
      <4> QED BY <1>2, <2>2, <4>1, StackMoves
    <3> QED BY <1>2, <3>1
  <2>8. Takes(stack, s)  BY <2>7 DEF Takes
  <2> QED BY <2>3, <2>5, <2>6, <2>8, QuietGrows DEF top
<1> QED BY <1>3, <1>4

LEMMA ReturnGrows ==
  ASSUME IInv, OrderInv, Return PROVE OrderInv'
<1>1. PICK r : r = IF err = "success" THEN top.current ELSE Null  OBVIOUS
<1>2. PICK work : work = [i \in DOMAIN stack |-> Reverse(stack)[i].current]
  OBVIOUS
<1>3. PICK s : s = << >>  OBVIOUS
<1>4. /\ phase = "out" /\ heap' = Puts(Get(heap, r), work)
      /\ stack' = s /\ phase' = "done"
  BY <1>1, <1>2, <1>3 DEF Return
<1>5. /\ DOMAIN heap' = DOMAIN heap
      /\ \A m \in DOMAIN heap : /\ heap'[m].type = heap[m].type
                                /\ heap'[m].val = heap[m].val
  <2>1. Way(stack, phase, obj) = Null  BY <1>4 DEF Way
  <2> QED BY <1>1, <1>4, <2>1, PassedOn
<1>6. DOMAIN s = {}  BY <1>3
<1>7. StackGrows(stack') /\ Takes(stack, stack') /\ ~OnItsWay'
  BY <1>4, <1>6 DEF StackGrows, Takes, OnItsWay
<1> QED BY <1>5, <1>7, QuietGrows

LEMMA Ordered == Spec => []OrderInv
<1>1. Init => OrderInv
  <2> SUFFICES ASSUME Init PROVE OrderInv  OBVIOUS
  <2>1. PICK s : s = <<NewLevel>>  OBVIOUS
  <2>2. PICK h : h = << >>  OBVIOUS
  <2>3. stack = s /\ heap = h /\ Len(s) = 1 /\ s[1] = NewLevel /\ DOMAIN s = {1}
    BY <2>1, <2>2 DEF Init
  <2>4. HeapGrows(h)  BY <2>2 DEF HeapGrows
  <2>5. StackGrows(s)  BY <2>3 DEF StackGrows
  <2>6. Apart(h, s) /\ ~OnItsWay  BY <2>3 DEF Apart, OnItsWay, top, NewLevel
  <2> QED BY <2>3, <2>4, <2>5, <2>6 DEF OrderInv
<1>2. IInv /\ OrderInv /\ [Next]_vars => OrderInv'
  <2> SUFFICES ASSUME IInv, OrderInv, [Next]_vars PROVE OrderInv'  OBVIOUS
  <2>1. CASE Eatws  BY <2>1, EatwsGrows
  <2>2. CASE Comment  BY <2>2, CommentGrows
  <2>3. CASE Start  BY <2>3, StartGrows
  <2>4. CASE Finish  BY <2>4, FinishGrows
  <2>5. CASE Array  BY <2>5, ArrayGrows
  <2>6. CASE Object  BY <2>6, ObjectGrows
  <2>7. CASE Return  BY <2>7, ReturnGrows
  <2>8. CASE UNCHANGED vars  BY <2>8 DEF vars, OrderInv, OnItsWay, top
  <2> QED BY <2>1, <2>2, <2>3, <2>4, <2>5, <2>6, <2>7, <2>8 DEF Next
<1> QED BY <1>1, <1>2, Inductive, PTL DEF Spec
-----------------------------------------------------------------------------
(* json_tokener_free has put every level when the function returns.        *)
DoneInv == phase = "done" => stack = << >>

LEMMA Done == Spec => []DoneInv
<1>1. Init => DoneInv  BY DEF Init, DoneInv
<1>2. DoneInv /\ [Next]_vars => DoneInv'
  <2> SUFFICES ASSUME DoneInv, [Next]_vars PROVE DoneInv'  OBVIOUS
  <2>1. ASSUME phase = "parse", Break \/ Redo \/ \E e : Fail(e)
        PROVE  phase' # "done"
    BY <2>1 DEF Break, Redo, Fail
  <2>2. ASSUME phase = "parse", NEW a, Deeper(a)
        PROVE  phase' # "done"
    BY <2>1, <2>2 DEF Deeper
  <2>3. CASE Eatws
    <3>1. phase = "parse" /\ (Break \/ Redo)  BY <2>3 DEF Eatws, In
    <3> QED BY <2>1, <3>1 DEF DoneInv
  <2>4. CASE Comment
    <3>1. phase = "parse" /\ (Break \/ \E e : Fail(e))  BY <2>4 DEF Comment, In
    <3> QED BY <2>1, <3>1 DEF DoneInv
  <2>5. CASE Start
    <3>1. phase = "parse" /\ (Break \/ \E e : Fail(e))  BY <2>5 DEF Start, In
    <3> QED BY <2>1, <3>1 DEF DoneInv
  <2>6. CASE Finish
    <3>1. phase' # "done"  BY <2>6 DEF Finish, In
    <3> QED BY <3>1 DEF DoneInv
  <2>7. CASE Array
    <3>1. /\ phase = "parse"
          /\ Break \/ Redo \/ (\E e : Fail(e)) \/ \E a : Deeper(a)
      BY <2>7 DEF Array, In
    <3> QED BY <2>1, <2>2, <3>1 DEF DoneInv
  <2>8. CASE Object
    <3>1. /\ phase = "parse"
          /\ Break \/ Redo \/ (\E e : Fail(e)) \/ \E a : Deeper(a)
      BY <2>8 DEF Object, In
    <3> QED BY <2>1, <2>2, <3>1 DEF DoneInv
  <2>9. CASE Return  BY <2>9 DEF Return, DoneInv
  <2>10. CASE UNCHANGED vars  BY <2>10 DEF vars, DoneInv
  <2> QED BY <2>3, <2>4, <2>5, <2>6, <2>7, <2>8, <2>9, <2>10 DEF Next
<1> QED BY <1>1, <1>2, PTL DEF Spec

(* So whatever is left when the function returns, but not returned, is     *)
(* inside of something older.                                              *)
LEMMA AllInside ==
  ASSUME IInv, OrderInv, DoneInv, phase = "done", NEW n \in Live \ {ret}
  PROVE  \E m \in Live : m < n /\ Places(Children(heap[m]), n) # {}
<1> DEFINE H == {i \in DOMAIN stack : stack[i].current = n}
           P == UNION {{m} \X Places(Children(heap[m]), n) : m \in Live}
<1>1. n \in DOMAIN heap /\ heap[n].refs > 0 /\ n # ret /\ ~OnItsWay
  BY DEF Live, OnItsWay
<1>2. Cardinality(H) = 0
  <2>1. PICK s : s = << >>  OBVIOUS
  <2>2. stack = s /\ DOMAIN s = {}  BY <2>1 DEF DoneInv
  <2>3. H = {}  BY <2>2
  <2> QED BY <2>3, FS_EmptySet
<1>3. heap[n].refs = Cardinality(H) + Cardinality(P)
                     + (IF OnItsWay /\ obj = n THEN 1 ELSE 0)
                     + (IF ret = n THEN 1 ELSE 0)
  BY <1>1, CountsAdd
<1> HIDE DEF H, P
<1>4. P # {}
  <2>1. ASSUME P = {} PROVE FALSE
    <3>1. Cardinality(P) = 0  BY <2>1, FS_EmptySet
    <3>2. heap[n].refs = 0 + 0 + 0 + 0  BY <1>1, <1>2, <1>3, <3>1
    <3> QED BY <1>1, <3>2
  <2> QED BY <2>1
<1>5. PICK m \in Live : Places(Children(heap[m]), n) # {}  BY <1>4 DEF P
<1>6. PICK k \in DOMAIN Children(heap[m]) : Children(heap[m])[k] = n
  BY <1>5 DEF Places
<1>7. m \in DOMAIN heap /\ m \in Nat /\ n \in Nat /\ n # Null
  <2>1. DOMAIN heap = 1 .. Len(heap) /\ Len(heap) \in Nat
    BY HeapFacts DEF IInv
  <2> QED BY <1>1, <2>1 DEF Live, Null
<1>8. After(n, m)  BY <1>6, <1>7 DEF OrderInv, HeapGrows
<1>9. m < n  BY <1>7, <1>8 DEF After
<1> QED BY <1>5, <1>9

(* Reference counts count the references in every state, whatever the text *)
(* is and wherever it stops being JSON: no node in use is ever freed, and  *)
(* every node is freed with its last reference.  When the function returns *)
(* only what it returns is left, and what that contains.                   *)
THEOREM CountsAreRight == Spec => []RefsAreOwners
<1>1. IInv /\ OrderInv /\ DoneInv => RefsAreOwners
  BY CountsAdd, AllInside DEF RefsAreOwners
<1> QED BY <1>1, Inductive, Ordered, Done, PTL
-----------------------------------------------------------------------------
(* The grammar.  The units of a text.                                      *)
LEMMA UnitFacts ==
  ASSUME NEW s \in Seq(Char)
  PROVE  /\ Len(s) \in Nat /\ Positions(s) = 1 .. Len(s) + 1
         /\ \A i \in Positions(s) :
              /\ i \in Nat
              /\ At(s, i) = "nul" <=> i = Len(s) + 1
              /\ At(s, i) \in Char \cup {"nul"}
<1>1. Len(s) \in Nat /\ Positions(s) = 1 .. Len(s) + 1  BY DEF Positions
<1>2. ASSUME NEW i \in 1 .. Len(s) + 1
      PROVE  /\ i \in Nat
             /\ At(s, i) = "nul" <=> i = Len(s) + 1
             /\ At(s, i) \in Char \cup {"nul"}
  <2>1. CASE i = Len(s) + 1  BY <1>1, <2>1 DEF At
  <2>2. CASE i # Len(s) + 1
    <3>1. i \in 1 .. Len(s)  BY <1>1, <2>2
    <3>2. At(s, i) = s[i] /\ s[i] \in Char  BY <1>1, <3>1 DEF At
    <3>3. "nul" \notin Char  BY TokenerAssumption DEF Char, Mark
    <3>4. At(s, i) \in Char /\ At(s, i) # "nul"  BY ONLY <3>2, <3>3
    <3>5. i \in Nat  BY <1>1
    <3> QED BY ONLY <2>2, <3>4, <3>5
  <2> QED BY <2>1, <2>2
<1> QED BY <1>1, <1>2

LEMMA FromFacts ==
  ASSUME NEW s \in Seq(Char), NEW i \in Positions(s)
  PROVE  /\ From(s, i) \in Positions(s) /\ i <= From(s, i)
         /\ At(s, From(s, i)) # "nl"
         /\ At(s, i) # "nl" => From(s, i) = i
         /\ At(s, i) = "nl" => /\ i + 1 \in Positions(s)
                               /\ From(s, i) = From(s, i + 1)
<1> DEFINE N == Len(s)
           Is(k, j) == At(s, j) # "nl" /\ \A l \in k .. j - 1 : At(s, l) = "nl"
<1>1. /\ N \in Nat /\ i \in 1 .. N + 1 /\ i \in Nat
      /\ Positions(s) = 1 .. N + 1
  BY UnitFacts
<1>2. At(s, N + 1) = "nul" /\ "nul" # "nl"  BY <1>1, UnitFacts
<1>3. \A k : From(s, k) = CHOOSE j \in k .. N + 1 : Is(k, j)  BY DEF From
<1> HIDE DEF N
<1>4. ASSUME NEW k \in 1 .. N + 1
      PROVE  From(s, k) \in k .. N + 1 /\ Is(k, From(s, k))
  <2> DEFINE T == {j \in Nat : j \in k .. N + 1 /\ At(s, j) # "nl"}
  <2>1. N + 1 \in T  BY <1>1, <1>2
  <2>2. PICK j \in T : \A l \in T : j <= l  BY <2>1, Least
  <2>3. j \in k .. N + 1 /\ Is(k, j)
    <3>1. \A l \in k .. j - 1 : l \in k .. N + 1 /\ l \in Nat /\ ~(j <= l)
      BY <1>1, <2>2
    <3> QED BY <2>2, <3>1
  <2> HIDE DEF Is
  <2> QED BY <1>3, <2>3
<1>5. ASSUME NEW k \in 1 .. N + 1, NEW j \in k .. N + 1, Is(k, j)
      PROVE  From(s, k) = j
  <2>1. PICK f : f = From(s, k)  OBVIOUS
  <2>2. f \in k .. N + 1 /\ Is(k, f)  BY <1>4, <2>1
  <2>3. ~(f < j)
    <3>1. f < j => f \in k .. j - 1  BY <1>1, <2>2
    <3> QED BY <1>5, <2>2, <3>1
  <2>4. ~(j < f)
    <3>1. j < f => j \in k .. f - 1  BY <1>1, <2>2
    <3> QED BY <1>5, <2>2, <3>1
  <2> QED BY <1>1, <2>1, <2>2, <2>3, <2>4
<1>6. From(s, i) \in Positions(s) /\ i <= From(s, i) /\ At(s, From(s, i)) # "nl"
  <2>1. From(s, i) \in i .. N + 1 /\ Is(i, From(s, i))  BY <1>1, <1>4
  <2> QED BY <1>1, <2>1
<1>7. ASSUME At(s, i) # "nl" PROVE From(s, i) = i
  <2>1. i \in i .. N + 1 /\ \A l \in i .. i - 1 : FALSE  BY <1>1
  <2>2. Is(i, i)  BY <1>7, <2>1
  <2> QED BY <1>1, <1>5, <2>1, <2>2
<1>8. ASSUME At(s, i) = "nl"
      PROVE  i + 1 \in Positions(s) /\ From(s, i) = From(s, i + 1)
  <2>1. i + 1 \in 1 .. N + 1  BY <1>1, <1>2, <1>8
  <2>2. PICK f : f = From(s, i + 1)  OBVIOUS
  <2>3. f \in i + 1 .. N + 1 /\ Is(i + 1, f)  BY <1>4, <2>1, <2>2
  <2>4. f \in i .. N + 1 /\ \A l \in i .. f - 1 : l = i \/ l \in i + 1 .. f - 1
    BY <1>1, <2>3
  <2>5. Is(i, f)  BY <1>8, <2>3, <2>4
  <2> QED BY <1>1, <1>5, <2>1, <2>2, <2>4, <2>5
<1> QED BY <1>6, <1>7, <1>8

(* Behind a unit there is another one, the terminator at last.             *)
LEMMA BehindFacts ==
  ASSUME NEW s \in Seq(Char), NEW i \in Positions(s), At(s, i) # "nul"
  PROVE  Behind(s, i) \in Positions(s) /\ i < Behind(s, i)
<1>1. i + 1 \in Positions(s) /\ i \in Nat /\ Positions(s) = 1 .. Len(s) + 1
      /\ Len(s) \in Nat
  BY UnitFacts
<1>2. From(s, i + 1) \in Positions(s) /\ i + 1 <= From(s, i + 1)
  BY <1>1, FromFacts
<1> QED BY <1>1, <1>2 DEF Behind
-----------------------------------------------------------------------------
(* The recursive functions of the grammar are what their definitions say.  *)
LEMMA NestedIs ==
  ASSUME NEW s
  PROVE  /\ Nested(s)[0] = Nothing(s)
         /\ \A h \in 1 .. MaxDepth :
              Nested(s)[h] =
                [i \in Positions(s) |-> ValueAt(s, Nested(s)[h - 1], i)]
<1> DEFINE N == MaxDepth
           First == Nothing(s)
           Step(v) == [i \in Positions(s) |-> ValueAt(s, v, i)]
           Upto(m) == \E f : f = [h \in 0 .. m |-> IF h = 0 THEN First
                                                  ELSE Step(f[h - 1])]
           V == CHOOSE f : f = [h \in 0 .. N |-> IF h = 0 THEN First
                                                 ELSE Step(f[h - 1])]
<1>1. N \in Nat  BY TokenerAssumption
<1>2. Nested(s) = V  BY DEF Nested
<1> HIDE DEF First, Step, N
<1>3. Upto(0)
  <2> DEFINE f == [h \in 0 .. 0 |-> First]
  <2>1. f = [h \in 0 .. 0 |-> IF h = 0 THEN First ELSE Step(f[h - 1])]  OBVIOUS
  <2> QED BY <2>1
<1>4. ASSUME NEW m \in Nat, Upto(m) PROVE Upto(m + 1)
  <2>1. PICK f : f = [h \in 0 .. m |-> IF h = 0 THEN First ELSE Step(f[h - 1])]
    BY <1>4
  <2> DEFINE g == [h \in 0 .. m + 1 |-> IF h = m + 1 THEN Step(f[m]) ELSE f[h]]
  <2>2. ASSUME NEW h \in 0 .. m + 1
        PROVE  g[h] = IF h = 0 THEN First ELSE Step(g[h - 1])
    <3>1. CASE h = m + 1  BY <3>1
    <3>2. CASE h # m + 1
      <4>1. h \in 0 .. m /\ (h # 0 => h - 1 \in 0 .. m /\ h - 1 # m + 1)
        BY <3>2
      <4>2. g[h] = f[h] /\ (h # 0 => g[h - 1] = f[h - 1])  BY <3>2, <4>1
      <4>3. f[h] = IF h = 0 THEN First ELSE Step(f[h - 1])  BY <2>1, <4>1
      <4> QED BY <4>2, <4>3
    <3> QED BY <3>1, <3>2
  <2>3. g = [h \in 0 .. m + 1 |-> g[h]]  OBVIOUS
  <2> HIDE DEF g
  <2>4. g = [h \in 0 .. m + 1 |-> IF h = 0 THEN First ELSE Step(g[h - 1])]
    BY <2>2, <2>3
  <2> QED BY <2>4
<1>5. Upto(N)
  <2> DEFINE T == {m \in Nat : Upto(m)}
  <2> HIDE DEF Upto
  <2>1. 0 \in T /\ \A m \in Nat : m \in T => m + 1 \in T  BY <1>3, <1>4
  <2> HIDE DEF T
  <2>2. N \in T  BY <1>1, <2>1, SetInduction
  <2> QED BY <2>2 DEF T
<1>6. V = [h \in 0 .. N |-> IF h = 0 THEN First ELSE Step(V[h - 1])]  BY <1>5
<1> HIDE DEF V
<1>7. V[0] = First /\ \A h \in 1 .. N : V[h] = Step(V[h - 1])  BY <1>1, <1>6
<1> QED BY <1>2, <1>7 DEF First, Step, N

LEMMA ListsAre ==
  ASSUME NEW s, Len(s) \in Nat, NEW type, NEW E, NEW i, NEW L,
         L = Lists(s, type, E, i)
  PROVE  /\ L[0] = [v |-> << >>, next |-> i]
         /\ \A n \in Nat :
              n + 1 <= Len(s) => L[n + 1] = Longer(s, type, E, L[n])
<1> DEFINE N == Len(s)
           First == [v |-> << >>, next |-> i]
           Step(b) == Longer(s, type, E, b)
           Upto(m) == \E f : f = [h \in 0 .. m |-> IF h = 0 THEN First
                                                  ELSE Step(f[h - 1])]
           V == CHOOSE f : f = [h \in 0 .. N |-> IF h = 0 THEN First
                                                 ELSE Step(f[h - 1])]
<1>1. N \in Nat  OBVIOUS
<1>2. Lists(s, type, E, i) = V  BY DEF Lists
<1> HIDE DEF First, Step, N
<1>3. Upto(0)
  <2> DEFINE f == [h \in 0 .. 0 |-> First]
  <2>1. f = [h \in 0 .. 0 |-> IF h = 0 THEN First ELSE Step(f[h - 1])]  OBVIOUS
  <2> QED BY <2>1
<1>4. ASSUME NEW m \in Nat, Upto(m) PROVE Upto(m + 1)
  <2>1. PICK f : f = [h \in 0 .. m |-> IF h = 0 THEN First ELSE Step(f[h - 1])]
    BY <1>4
  <2> DEFINE g == [h \in 0 .. m + 1 |-> IF h = m + 1 THEN Step(f[m]) ELSE f[h]]
  <2>2. ASSUME NEW h \in 0 .. m + 1
        PROVE  g[h] = IF h = 0 THEN First ELSE Step(g[h - 1])
    <3>1. CASE h = m + 1  BY <3>1
    <3>2. CASE h # m + 1
      <4>1. h \in 0 .. m /\ (h # 0 => h - 1 \in 0 .. m /\ h - 1 # m + 1)
        BY <3>2
      <4>2. g[h] = f[h] /\ (h # 0 => g[h - 1] = f[h - 1])  BY <3>2, <4>1
      <4>3. f[h] = IF h = 0 THEN First ELSE Step(f[h - 1])  BY <2>1, <4>1
      <4> QED BY <4>2, <4>3
    <3> QED BY <3>1, <3>2
  <2>3. g = [h \in 0 .. m + 1 |-> g[h]]  OBVIOUS
  <2> HIDE DEF g
  <2>4. g = [h \in 0 .. m + 1 |-> IF h = 0 THEN First ELSE Step(g[h - 1])]
    BY <2>2, <2>3
  <2> QED BY <2>4
<1>5. Upto(N)
  <2> DEFINE T == {m \in Nat : Upto(m)}
  <2> HIDE DEF Upto
  <2>1. 0 \in T /\ \A m \in Nat : m \in T => m + 1 \in T  BY <1>3, <1>4
  <2> HIDE DEF T
  <2>2. N \in T  BY <1>1, <2>1, SetInduction
  <2> QED BY <2>2 DEF T
<1>6. V = [h \in 0 .. N |-> IF h = 0 THEN First ELSE Step(V[h - 1])]  BY <1>5
<1> HIDE DEF V
<1>7. V[0] = First /\ \A h \in 1 .. N : V[h] = Step(V[h - 1])  BY <1>1, <1>6
<1>8. \A n \in Nat : n + 1 <= N => V[n + 1] = Step(V[n])
  <2> SUFFICES ASSUME NEW n \in Nat, n + 1 <= N PROVE V[n + 1] = Step(V[n])
    OBVIOUS
  <2>1. n + 1 \in 1 .. N /\ (n + 1) - 1 = n  BY <1>1
  <2>2. V[n + 1] = Step(V[(n + 1) - 1])  BY <1>7, <2>1
  <2> QED BY <2>1, <2>2
<1> QED BY <1>2, <1>7, <1>8 DEF First, Step, N
-----------------------------------------------------------------------------
(* The marks are different and no names or values.                         *)
Types == {"array", "object"}

Marks == {Open("array"), Open("object"), Close("array"), Close("object"),
          Comma, Colon, "null", "nul"}

LEMMA MarkFacts ==
  /\ \A x \in Marks : x \notin Atom /\ x \notin Key
  /\ {Comma, Colon, "null", "nul"} \subseteq Marks
  /\ Open("array") # Open("object") /\ Close("array") # Close("object")
  /\ \A type, other : /\ Open(type) # Close(other)
                      /\ Open(type) # Comma /\ Close(type) # Comma
                      /\ Open(type) # Colon /\ Close(type) # Colon
                      /\ Open(type) # "null" /\ Close(type) # "null"
                      /\ Open(type) # "nul" /\ Close(type) # "nul"
                      /\ Open(type) # "nl" /\ Close(type) # "nl"
                      /\ Open(type) \in Marks /\ Close(type) \in Marks
  /\ Comma # Colon /\ Comma # "null" /\ Comma # "nul"
  /\ Colon # "null" /\ Colon # "nul"
<1>1. \A x \in Marks : x \in Mark \cup {"nul"}
  BY Zenon DEF Marks, Mark, Open, Close, Comma, Colon
<1>2. \A x \in Marks : x \notin Atom /\ x \notin Key
  BY <1>1, TokenerAssumption
<1>3. Open("array") # Open("object") /\ Close("array") # Close("object")
  BY Zenon DEF Open, Close
<1>4. ASSUME NEW type
      PROVE  /\ Open(type) = Open("array") \/ Open(type) = Open("object")
             /\ Close(type) = Close("array") \/ Close(type) = Close("object")
  BY Zenon DEF Open, Close
<1>5. /\ \A x \in {Open("array"), Open("object")} : 
           x \notin {Close("array"), Close("object"), Comma, Colon, "null", "nul", "nl"}
      /\ \A x \in {Close("array"), Close("object")} : 
           x \notin {Comma, Colon, "null", "nul", "nl"}
  BY Zenon DEF Open, Close, Comma, Colon
<1>6. /\ Comma # Colon /\ Comma # "null" /\ Comma # "nul"
      /\ Colon # "null" /\ Colon # "nul"
  BY Zenon DEF Comma, Colon
<1>7. ASSUME NEW type
      PROVE  /\ Open(type) \in {Open("array"), Open("object")}
             /\ Close(type) \in {Close("array"), Close("object")}
             /\ Open(type) \in Marks /\ Close(type) \in Marks
  BY <1>4 DEF Marks
<1>8. ASSUME NEW type, NEW other
      PROVE  /\ Open(type) # Close(other)
             /\ Open(type) # Comma /\ Close(type) # Comma
             /\ Open(type) # Colon /\ Close(type) # Colon
             /\ Open(type) # "null" /\ Close(type) # "null"
             /\ Open(type) # "nul" /\ Close(type) # "nul"
             /\ Open(type) # "nl" /\ Close(type) # "nl"
             /\ Open(type) \in Marks /\ Close(type) \in Marks
  BY Zenon, <1>5, <1>7
<1>9. {Comma, Colon, "null", "nul"} \subseteq Marks  BY Zenon DEF Marks
<1> QED BY Zenon, <1>2, <1>3, <1>6, <1>8, <1>9

(* What is there ends behind where it begins, within the text.             *)
Bounded(s, V) ==
  \A i \in Positions(s) : V[i] # NoValue => V[i].next \in Positions(s)
                                            /\ i < V[i].next

LEMMA SomeValue ==
  ASSUME NEW v, NEW j, j # 0 PROVE [v |-> v, next |-> j] # NoValue
<1>1. [v |-> v, next |-> j].next = j /\ NoValue.next = 0  BY DEF NoValue
<1> QED BY <1>1

LEMMA ElementsBounded ==
  ASSUME NEW s \in Seq(Char), NEW type \in Types, NEW V, Bounded(s, V)
  PROVE  Bounded(s, Elements(s, type, V))
<1>1. CASE type = "array"  BY <1>1 DEF Elements
<1>2. CASE type = "object"
  <2>1. Elements(s, type, V) = [i \in Positions(s) |-> FieldAt(s, V, i)]
    BY <1>2 DEF Elements
  <2>2. ASSUME NEW i \in Positions(s), FieldAt(s, V, i) # NoValue
        PROVE  /\ FieldAt(s, V, i).next \in Positions(s)
               /\ i < FieldAt(s, V, i).next
    <3>1. PICK j : j = Behind(s, i)  OBVIOUS
    <3>2. PICK k : k = Behind(s, j)  OBVIOUS
    <3>3. PICK x : x = V[k]  OBVIOUS
    <3>4. /\ At(s, i) \in Key /\ At(s, j) = Colon /\ x # NoValue
          /\ FieldAt(s, V, i) = [v |-> <<At(s, i), x.v>>, next |-> x.next]
      BY <2>2, <3>1, <3>2, <3>3 DEF FieldAt
    <3>5. At(s, i) # "nul" /\ At(s, j) # "nul"
      <4>1. \A y \in Marks : y \notin Key  BY MarkFacts
      <4>2. "nul" \in Marks /\ Colon # "nul"  BY MarkFacts
      <4> QED BY <3>4, <4>1, <4>2
    <3>6. j \in Positions(s) /\ i < j /\ k \in Positions(s) /\ j < k
      BY <3>1, <3>2, <3>5, BehindFacts
    <3>7. x.next \in Positions(s) /\ k < x.next
      BY <3>3, <3>4, <3>6 DEF Bounded
    <3>8. i < x.next  BY <3>6, <3>7, UnitFacts
    <3> QED BY <3>4, <3>7, <3>8
  <2> QED BY <2>1, <2>2 DEF Bounded
<1> QED BY <1>1, <1>2 DEF Types

(* A list that is longer has one more element, and what has to follow.     *)
LEMMA LongerIs ==
  ASSUME NEW s, NEW type, NEW E, NEW b, NEW x, x = E[b.next],
         NEW r, r = Longer(s, type, E, b), r # NoValue
  PROVE  /\ b # NoValue /\ x # NoValue
         /\ r.v = WithElement(type, b.v, x.v)
         /\ \/ At(s, x.next) = Comma /\ r.next = Behind(s, x.next)
            \/ At(s, x.next) = Close(type) /\ r.next = x.next
<1>1. PICK i : i = x.next  OBVIOUS
<1>2. PICK list : list = WithElement(type, b.v, x.v)  OBVIOUS
<1>3. PICK j : j = Behind(s, x.next)  OBVIOUS
<1>4. r = IF b = NoValue \/ x = NoValue THEN NoValue
          ELSE CASE At(s, x.next) = Comma         -> [v |-> list, next |-> j]
                 [] At(s, x.next) = Close(type) -> [v |-> list, next |-> i]
                 [] OTHER                       -> NoValue
  BY <1>1, <1>2, <1>3 DEF Longer
<1>5. b # NoValue /\ x # NoValue  BY <1>4
<1> HIDE DEF NoValue
<1>6. CASE At(s, x.next) = Comma
  <2>1. Comma # Close(type)  BY MarkFacts
  <2>2. r = [v |-> list, next |-> j]  BY ONLY <1>4, <1>5, <1>6, <2>1
  <2> QED BY <1>2, <1>3, <1>5, <1>6, <2>2
<1>7. CASE At(s, x.next) # Comma
  <2>1. At(s, x.next) = Close(type) /\ r = [v |-> list, next |-> i]
    BY ONLY <1>4, <1>5, <1>7, r # NoValue
  <2> QED BY <1>1, <1>2, <1>5, <2>1
<1> QED BY <1>6, <1>7

LEMMA ListBounded ==
  ASSUME NEW s \in Seq(Char), NEW type, NEW E, Bounded(s, E),
         NEW i \in Positions(s), NEW n \in 0 .. Len(s), NEW b,
         b = Lists(s, type, E, i)[n], b # NoValue
  PROVE  b.next \in Positions(s) /\ i + n <= b.next
<1> DEFINE L == Lists(s, type, E, i)
           Fits(m) == L[m] # NoValue => /\ L[m].next \in Positions(s)
                                        /\ i + m <= L[m].next
           T == {m \in Nat : m <= Len(s) => Fits(m)}
<1>1. Len(s) \in Nat /\ i \in Nat  BY UnitFacts
<1>2. L = Lists(s, type, E, i)  OBVIOUS
<1> HIDE DEF L
<1>3. L[0] = [v |-> << >>, next |-> i]
      /\ \A m \in Nat : m + 1 <= Len(s) => L[m + 1] = Longer(s, type, E, L[m])
  BY <1>2, <1>1, ListsAre
<1>4. 0 \in T  BY <1>3, <1>1
<1>5. ASSUME NEW m \in Nat, m \in T PROVE m + 1 \in T
  <2> SUFFICES ASSUME m + 1 <= Len(s), L[m + 1] # NoValue
               PROVE  L[m + 1].next \in Positions(s) /\ i + (m + 1) <= L[m + 1].next
    OBVIOUS
  <2>1. PICK a : a = L[m]  OBVIOUS
  <2>2. PICK x : x = E[a.next]  OBVIOUS
  <2>3. PICK r : r = L[m + 1]  OBVIOUS
  <2>4. r = Longer(s, type, E, a)  BY <1>3, <2>3, <2>1
  <2>5. r # NoValue  BY <2>3
  <2>6. /\ a # NoValue /\ x # NoValue
        /\ \/ /\ At(s, x.next) = Comma
              /\ r.next = Behind(s, x.next)
           \/ r.next = x.next
    BY ONLY <2>2, <2>4, <2>5, LongerIs
  <2>7. a.next \in Positions(s) /\ i + m <= a.next
    <3>1. Fits(m)  BY <1>1, <1>5
    <3> QED BY <2>1, <2>6, <3>1
  <2>8. x.next \in Positions(s) /\ a.next < x.next
    BY <2>2, <2>6, <2>7 DEF Bounded
  <2>9. r.next \in Positions(s) /\ x.next <= r.next
    <3>1. CASE At(s, x.next) = Comma /\ r.next = Behind(s, x.next)
      <4>1. Behind(s, x.next) \in Positions(s) /\ x.next < Behind(s, x.next)
        <5>1. Comma # "nul"  BY MarkFacts
        <5> QED BY <2>8, <3>1, <5>1, BehindFacts
      <4> QED BY <2>8, <3>1, <4>1, UnitFacts
    <3>2. CASE r.next = x.next  BY <2>8, <3>2, UnitFacts
    <3> QED BY <2>6, <3>1, <3>2
  <2>10. PICK y : y = r.next  OBVIOUS
  <2>11. y \in Nat /\ x.next \in Nat /\ a.next \in Nat
    BY <2>7, <2>8, <2>9, <2>10, UnitFacts
  <2>12. i + (m + 1) <= y
    BY ONLY <1>1, <2>7, <2>8, <2>9, <2>10, <2>11, m \in Nat
  <2> QED BY <2>3, <2>9, <2>10, <2>12
<1>6. n \in T
  <2> HIDE DEF T
  <2> QED BY <1>1, <1>4, <1>5, SetInduction
<1>7. Fits(n)  BY <1>1, <1>6
<1> QED BY <1>7 DEF L

(* Nothing is longer than what is no list, ...                             *)
LEMMA LongerNone ==
  ASSUME NEW s, NEW type, NEW E, NEW b, b = NoValue \/ E[b.next] = NoValue
  PROVE  Longer(s, type, E, b) = NoValue
<1> DEFINE x == E[b.next]
<1>1. b = NoValue \/ x = NoValue  OBVIOUS
<1>2. Longer(s, type, E, b) =
        IF b = NoValue \/ x = NoValue THEN NoValue
        ELSE CASE At(s, x.next) = Comma       ->
                    [v |-> WithElement(type, b.v, x.v),
                     next |-> Behind(s, x.next)]
               [] At(s, x.next) = Close(type) ->
                    [v |-> WithElement(type, b.v, x.v), next |-> x.next]
               [] OTHER                       -> NoValue
  BY Zenon DEF Longer
<1> HIDE DEF x, NoValue
<1> QED BY Zenon, <1>1, <1>2

LEMMA NoneBehind ==
  ASSUME NEW s \in Seq(Char), NEW type, NEW E, NEW i, NEW n \in 0 .. Len(s),
         n + 1 <= Len(s) => Lists(s, type, E, i)[n + 1] = NoValue
  PROVE  \A m \in n + 1 .. Len(s) : Lists(s, type, E, i)[m] = NoValue
<1> DEFINE L == Lists(s, type, E, i)
           N == Len(s)
           T == {k \in Nat : n + 1 + k <= N => L[n + 1 + k] = NoValue}
<1>1. N \in Nat /\ N = Len(s) /\ L = Lists(s, type, E, i)  BY UnitFacts
<1>2. n \in 0 .. N /\ (n + 1 <= N => L[n + 1] = NoValue)  OBVIOUS
<1> HIDE DEF L, N
<1>3. L[0] = [v |-> << >>, next |-> i]
      /\ \A m \in Nat : m + 1 <= Len(s) => L[m + 1] = Longer(s, type, E, L[m])
  BY ONLY <1>1, Len(s) \in Nat, ListsAre
<1>4. /\ N \in Nat /\ n \in 0 .. N
      /\ n + 1 <= N => L[n + 1] = NoValue
      /\ \A m \in Nat : m + 1 <= N => L[m + 1] = Longer(s, type, E, L[m])
  BY <1>1, <1>2, <1>3
<1>5. 0 \in T
  <2>1. n + 1 + 0 = n + 1  BY <1>4
  <2> QED BY <1>4, <2>1
<1>6. ASSUME NEW k \in Nat, k \in T PROVE k + 1 \in T
  <2> SUFFICES ASSUME n + 1 + (k + 1) <= N
               PROVE  L[n + 1 + (k + 1)] = NoValue
    OBVIOUS
  <2>1. PICK m : m = n + 1 + k  OBVIOUS
  <2>2. m \in Nat /\ m + 1 = n + 1 + (k + 1) /\ m + 1 <= N /\ m <= N
    BY <1>4, <2>1
  <2>3. L[m] = NoValue  BY <1>6, <2>1, <2>2
  <2>4. L[m + 1] = Longer(s, type, E, NoValue)  BY <1>4, <2>2, <2>3
  <2>5. Longer(s, type, E, NoValue) = NoValue  BY LongerNone
  <2> QED BY <2>2, <2>4, <2>5
<1>7. Nat \subseteq T
  <2> HIDE DEF T
  <2> QED BY <1>5, <1>6, SetInduction
<1>8. ASSUME NEW m \in n + 1 .. N PROVE L[m] = NoValue
  <2>1. PICK k \in Nat : k = m - (n + 1)  BY <1>4
  <2>2. n + 1 + k = m /\ m <= N  BY <1>4, <2>1
  <2>3. k \in T  BY <1>7
  <2> QED BY <2>2, <2>3
<1> QED BY <1>8 DEF L, N

(* ... and nothing follows where a bracket closes, ...                     *)
Barred(s, type, E) ==
  \A i \in Positions(s) : At(s, i) = Close(type) => E[i] = NoValue

(* ... so that there is one list that can end.                             *)
LEMMA OneList ==
  ASSUME NEW s \in Seq(Char), NEW type, NEW E, Bounded(s, E),
         Barred(s, type, E), NEW i \in Positions(s), NEW n \in 0 .. Len(s),
         Lists(s, type, E, i)[n] # NoValue,
         n + 1 <= Len(s) => Lists(s, type, E, i)[n + 1] = NoValue,
         NEW m \in 0 .. Len(s), NEW b, b = Lists(s, type, E, i)[m],
         b # NoValue, At(s, b.next) = Close(type)
  PROVE  m = n
<1>1. ~(m > n)
  <2>1. m > n => m \in n + 1 .. Len(s)  OBVIOUS
  <2> QED BY <2>1, NoneBehind
<1>2. ASSUME m < n PROVE FALSE
  <2>1. b.next \in Positions(s)  BY ListBounded
  <2>2. E[b.next] = NoValue  BY <2>1 DEF Barred
  <2>3. Longer(s, type, E, b) = NoValue  BY <2>2, LongerNone
  <2>4. m \in Nat /\ m + 1 <= Len(s) /\ n \in m + 1 .. Len(s)  BY <1>2
  <2>5. Lists(s, type, E, i)[m + 1] = NoValue
    <3>1. PICK L : L = Lists(s, type, E, i)  OBVIOUS
    <3>2. /\ L[0] = [v |-> << >>, next |-> i]
          /\ \A k \in Nat :
               k + 1 <= Len(s) => L[k + 1] = Longer(s, type, E, L[k])
      BY ONLY <3>1, Len(s) \in Nat, ListsAre
    <3>3. L[m + 1] = Longer(s, type, E, L[m])  BY ONLY <2>4, <3>2
    <3> QED BY <2>3, <3>1, <3>3
  <2> QED BY <2>4, <2>5, NoneBehind
<1> QED BY <1>1, <1>2

LEMMA EnclosedIs ==
  ASSUME NEW s \in Seq(Char), NEW type, NEW V, NEW E,
         E = Elements(s, type, V), Bounded(s, E), Barred(s, type, E),
         NEW p \in Positions(s), At(s, p) # "nul",
         NEW n \in 0 .. Len(s), NEW b,
         b = Lists(s, type, E, Behind(s, p))[n], b # NoValue,
         \/ At(s, b.next) = Close(type)
         \/ n + 1 <= Len(s) =>
              Lists(s, type, E, Behind(s, p))[n + 1] = NoValue
  PROVE  Enclosed(s, type, V, p) =
           IF At(s, b.next) = Close(type)
           THEN [v |-> <<type, b.v>>, next |-> Behind(s, b.next)]
           ELSE NoValue
<1> DEFINE L == Lists(s, type, E, Behind(s, p))
           N == {m \in 0 .. Len(s) : /\ L[m] # NoValue
                                     /\ At(s, L[m].next) = Close(type)}
<1>1. Behind(s, p) \in Positions(s)  BY BehindFacts
<1>2. b.next \in Positions(s)  BY <1>1, ListBounded
<1>3. ASSUME n + 1 <= Len(s) PROVE L[n + 1] = NoValue
  <2>1. CASE At(s, b.next) = Close(type)
    <3>1. E[b.next] = NoValue  BY <1>2, <2>1 DEF Barred
    <3>2. Longer(s, type, E, b) = NoValue  BY <3>1, LongerNone
    <3>3. L[n + 1] = Longer(s, type, E, L[n])
      <4>1. L = Lists(s, type, E, Behind(s, p)) /\ Len(s) \in Nat
            /\ n \in Nat
        OBVIOUS
      <4> HIDE DEF L
      <4>2. /\ L[0] = [v |-> << >>, next |-> Behind(s, p)]
            /\ \A k \in Nat :
                 k + 1 <= Len(s) => L[k + 1] = Longer(s, type, E, L[k])
        BY ONLY <4>1, ListsAre
      <4> QED BY ONLY <1>3, <4>1, <4>2
    <3> QED BY <3>2, <3>3
  <2>2. CASE At(s, b.next) # Close(type)  BY <1>3, <2>2
  <2> QED BY <2>1, <2>2
<1>4. \A m \in N : m = n
  <2> SUFFICES ASSUME NEW m \in 0 .. Len(s), L[m] # NoValue,
                      At(s, L[m].next) = Close(type)
               PROVE  m = n
    OBVIOUS
  <2> HIDE DEF L
  <2>1. L = Lists(s, type, E, Behind(s, p))  BY DEF L
  <2> QED BY <1>1, <1>3, <2>1, OneList
<1>5. Enclosed(s, type, V, p) =
        IF N = {} THEN NoValue
        ELSE [v    |-> <<type, L[CHOOSE m \in N : TRUE].v>>,
              next |-> Behind(s, L[CHOOSE m \in N : TRUE].next)]
  BY Zenon DEF Enclosed
<1>6. L[n] = b  OBVIOUS
<1> HIDE DEF L
<1>7. CASE At(s, b.next) = Close(type)
  <2>1. N = {n}  BY <1>4, <1>6, <1>7
  <2> HIDE DEF N
  <2>2. (CHOOSE m \in N : TRUE) = n  BY <2>1
  <2> QED BY <1>5, <1>6, <1>7, <2>1, <2>2
<1>8. CASE At(s, b.next) # Close(type)
  <2>1. N = {}  BY <1>4, <1>6, <1>8
  <2> QED BY <1>5, <1>8, <2>1
<1> QED BY <1>7, <1>8
-----------------------------------------------------------------------------
(* Values of at most h levels: where they end, and where none begins.      *)
Begins == {Open("array"), Open("object"), "null"} \cup Atom \cup Key

Proper(s, V) ==
  /\ Bounded(s, V)
  /\ \A i \in Positions(s) : At(s, i) \notin Begins => V[i] = NoValue

LEMMA CloseBegins ==
  ASSUME NEW type
  PROVE  Close(type) \notin Begins /\ "nul" \notin Begins
         /\ Close(type) \notin Key
<1>1. /\ Close(type) # Open("array") /\ Close(type) # Open("object")
      /\ Close(type) # "null" /\ Close(type) \in Marks
      /\ Open("array") # "nul" /\ Open("object") # "nul" /\ "nul" \in Marks
  BY MarkFacts
<1>2. Close(type) \notin Atom \cup Key /\ "nul" \notin Atom \cup Key
  BY <1>1, MarkFacts
<1>3. "nul" # "null"  OBVIOUS
<1> QED BY ONLY <1>1, <1>2, <1>3 DEF Begins

LEMMA ElementsProper ==
  ASSUME NEW s \in Seq(Char), NEW type \in Types, NEW V, Proper(s, V)
  PROVE  /\ Bounded(s, Elements(s, type, V))
         /\ Barred(s, type, Elements(s, type, V))
<1>1. Bounded(s, Elements(s, type, V))  BY ElementsBounded DEF Proper
<1>2. CASE type = "array"
  <2>1. Elements(s, type, V) = V  BY <1>2 DEF Elements
  <2>2. \A i \in Positions(s) : At(s, i) = Close(type) => V[i] = NoValue
    BY CloseBegins DEF Proper
  <2> QED BY <1>1, <2>1, <2>2 DEF Barred
<1>3. CASE type = "object"
  <2>1. Elements(s, type, V) = [i \in Positions(s) |-> FieldAt(s, V, i)]
    BY <1>3 DEF Elements
  <2>2. ASSUME NEW i \in Positions(s), At(s, i) = Close(type)
        PROVE  FieldAt(s, V, i) = NoValue
    BY <2>2, CloseBegins DEF FieldAt
  <2> QED BY <1>1, <2>1, <2>2 DEF Barred
<1> QED BY <1>2, <1>3 DEF Types

LEMMA EnclosedBounded ==
  ASSUME NEW s \in Seq(Char), NEW type \in Types, NEW V, Proper(s, V),
         NEW p \in Positions(s), At(s, p) # "nul",
         NEW x, x = Enclosed(s, type, V, p), x # NoValue
  PROVE  x.next \in Positions(s) /\ p < x.next
<1> DEFINE E == Elements(s, type, V)
           L == Lists(s, type, E, Behind(s, p))
           N == {m \in 0 .. Len(s) : /\ L[m] # NoValue
                                     /\ At(s, L[m].next) = Close(type)}
           n == CHOOSE m \in N : TRUE
<1>1. x = IF N = {} THEN NoValue
          ELSE [v |-> <<type, L[n].v>>, next |-> Behind(s, L[n].next)]
  BY Zenon DEF Enclosed
<1>2. n \in N
  <2>1. N # {}  BY <1>1
  <2> HIDE DEF N
  <2> QED BY <2>1
<1>3. PICK b : b = L[n]  OBVIOUS
<1>4. n \in 0 .. Len(s) /\ b # NoValue /\ At(s, b.next) = Close(type)
  BY <1>2, <1>3
<1>5. Behind(s, p) \in Positions(s) /\ p < Behind(s, p)  BY BehindFacts
<1>6. Bounded(s, E)  BY ElementsProper
<1>7. x = [v |-> <<type, b.v>>, next |-> Behind(s, b.next)]
  BY <1>1, <1>2, <1>3
<1> HIDE DEF E, n
<1>8. b.next \in Positions(s) /\ Behind(s, p) + n <= b.next
  BY <1>3, <1>4, <1>5, <1>6, ListBounded
<1>9. Behind(s, b.next) \in Positions(s) /\ b.next < Behind(s, b.next)
  BY <1>4, <1>8, MarkFacts, BehindFacts
<1>10. /\ p \in Nat /\ Behind(s, p) \in Nat /\ b.next \in Nat
       /\ Behind(s, b.next) \in Nat /\ n \in Nat
  BY <1>4, <1>5, <1>8, <1>9, UnitFacts
<1>11. p < Behind(s, b.next)  BY ONLY <1>5, <1>8, <1>9, <1>10
<1>12. x.next = Behind(s, b.next)  BY <1>7
<1> QED BY <1>9, <1>11, <1>12

LEMMA ValueCases ==
  ASSUME NEW s, NEW V, NEW i
  PROVE  /\ \A type \in Types : At(s, i) = Open(type) =>
              ValueAt(s, V, i) = Enclosed(s, type, V, i)
         /\ At(s, i) \in Atom \cup Key =>
              ValueAt(s, V, i) = [v    |-> <<"leaf", At(s, i)>>,
                                  next |-> Behind(s, i)]
         /\ At(s, i) = "null" =>
              ValueAt(s, V, i) = [v |-> <<"null">>, next |-> Behind(s, i)]
         /\ At(s, i) \notin Begins => ValueAt(s, V, i) = NoValue
<1> DEFINE x == At(s, i)
<1>1. /\ Open("array") # Open("object") /\ Open("array") # "null"
      /\ Open("object") # "null"
      /\ Open("array") \notin Atom \cup Key
      /\ Open("object") \notin Atom \cup Key
      /\ "null" \notin Atom \cup Key
  BY MarkFacts
<1>2. ValueAt(s, V, i) =
        CASE x = Open("array")   -> Enclosed(s, "array", V, i)
          [] x = Open("object")  -> Enclosed(s, "object", V, i)
          [] x \in Atom \cup Key -> [v |-> <<"leaf", x>>, next |-> Behind(s, i)]
          [] x = "null"          -> [v |-> <<"null">>, next |-> Behind(s, i)]
          [] OTHER               -> NoValue
  BY Zenon DEF ValueAt
<1> HIDE DEF x
<1>3. x = Open("array") => ValueAt(s, V, i) = Enclosed(s, "array", V, i)
  BY ONLY <1>1, <1>2
<1>4. x = Open("object") => ValueAt(s, V, i) = Enclosed(s, "object", V, i)
  BY ONLY <1>1, <1>2
<1>5. x \in Atom \cup Key =>
        ValueAt(s, V, i) = [v |-> <<"leaf", x>>, next |-> Behind(s, i)]
  BY ONLY <1>1, <1>2
<1>6. x = "null" =>
        ValueAt(s, V, i) = [v |-> <<"null">>, next |-> Behind(s, i)]
  BY ONLY <1>1, <1>2
<1>7. x \notin Begins => ValueAt(s, V, i) = NoValue
  BY ONLY <1>1, <1>2 DEF Begins
<1> QED BY <1>3, <1>4, <1>5, <1>6, <1>7 DEF Types, x

LEMMA NestedProper ==
  ASSUME NEW s \in Seq(Char)
  PROVE  \A h \in 0 .. MaxDepth : Proper(s, Nested(s)[h])
<1> DEFINE V == Nested(s)
           T == {h \in Nat : h <= MaxDepth => Proper(s, V[h])}
<1>1. /\ V[0] = Nothing(s)
      /\ \A h \in 1 .. MaxDepth :
           V[h] = [i \in Positions(s) |-> ValueAt(s, V[h - 1], i)]
  BY NestedIs
<1>2. MaxDepth \in Nat  BY TokenerAssumption
<1> HIDE DEF V
<1>3. 0 \in T  BY <1>1 DEF Nothing, Proper, Bounded
<1>4. ASSUME NEW h \in Nat, h \in T PROVE h + 1 \in T
  <2> SUFFICES ASSUME h + 1 <= MaxDepth PROVE Proper(s, V[h + 1])  OBVIOUS
  <2>1. PICK W : W = V[h]  OBVIOUS
  <2>2. h + 1 \in 1 .. MaxDepth /\ (h + 1) - 1 = h /\ h <= MaxDepth  BY <1>2
  <2>3. V[h + 1] = [i \in Positions(s) |-> ValueAt(s, W, i)]
    BY <1>1, <2>1, <2>2
  <2>4. Proper(s, W)  BY <1>4, <2>1, <2>2
  <2>5. ASSUME NEW i \in Positions(s), ValueAt(s, W, i) # NoValue
        PROVE  /\ ValueAt(s, W, i).next \in Positions(s)
               /\ i < ValueAt(s, W, i).next
    <3>1. At(s, i) \in Begins  BY <2>5, ValueCases
    <3>2. At(s, i) # "nul"  BY <3>1, CloseBegins
    <3>3. ASSUME NEW type \in Types, At(s, i) = Open(type)
          PROVE  /\ ValueAt(s, W, i).next \in Positions(s)
                 /\ i < ValueAt(s, W, i).next
      <4>1. ValueAt(s, W, i) = Enclosed(s, type, W, i)  BY <3>3, ValueCases
      <4> QED BY <2>4, <2>5, <3>2, <4>1, EnclosedBounded
    <3>4. CASE At(s, i) \in Atom \cup Key \/ At(s, i) = "null"
      <4>1. ValueAt(s, W, i).next = Behind(s, i)
        <5>1. PICK x : x = ValueAt(s, W, i)  OBVIOUS
        <5>2. \/ x = [v |-> <<"leaf", At(s, i)>>, next |-> Behind(s, i)]
              \/ x = [v |-> <<"null">>, next |-> Behind(s, i)]
          BY <3>4, <5>1, ValueCases
        <5> QED BY <5>1, <5>2
      <4> QED BY <3>2, <4>1, BehindFacts
    <3> QED BY <3>1, <3>3, <3>4 DEF Begins, Types
  <2>6. \A i \in Positions(s) :
          At(s, i) \notin Begins => ValueAt(s, W, i) = NoValue
    BY ValueCases
  <2> QED BY <2>3, <2>5, <2>6 DEF Proper, Bounded
<1>5. Nat \subseteq T
  <2> HIDE DEF T
  <2> QED BY <1>3, <1>4, SetInduction
<1>6. ASSUME NEW h \in 0 .. MaxDepth PROVE Proper(s, V[h])
  <2>1. h \in T /\ h <= MaxDepth  BY <1>2, <1>5
  <2> QED BY <2>1
<1> QED BY <1>6 DEF V
-----------------------------------------------------------------------------
(* What the tokener has read of an array or object that begins at p and    *)
(* has at most h levels, when it is at q: the elements before q, which     *)
(* are x, ...                                                              *)
ElementsAt(s, type, h) == Elements(s, type, Nested(s)[h - 1])

ListsAt(s, type, h, p) == Lists(s, type, ElementsAt(s, type, h), Behind(s, p))

AtElement(s, x, type, h, p, q) ==
  /\ At(s, p) = Open(type)
  /\ \E n \in 0 .. Len(s) :
       LET b == ListsAt(s, type, h, p)[n]
       IN  b # NoValue /\ b.next = q /\ x = <<type, b.v>>

(* ... and the name k of a field, ...                                      *)
AtColon(s, x, k, h, p, q) ==
  \E i \in Positions(s) :
    AtElement(s, x, "object", h, p, i) /\ At(s, i) = k /\ k \in Key
    /\ q = Behind(s, i)

(* ... and all that comes before the value of an element, ...              *)
Before(s, x, type, k, h, p, q) ==
  \E i \in Positions(s) :
    /\ AtElement(s, x, type, h, p, i)
    /\ IF type = "array"
       THEN q = i /\ At(s, i) # Close(type)
       ELSE At(s, i) = k /\ k \in Key /\ At(s, Behind(s, i)) = Colon
            /\ q = Behind(s, Behind(s, i))

(* ... and one element more than a list.                                   *)
BehindElement(s, x, type, h, p, q) ==
  /\ At(s, p) = Open(type)
  /\ \E n \in 0 .. Len(s) :
       LET b == ListsAt(s, type, h, p)[n]
           e == ElementsAt(s, type, h)[b.next]
       IN  /\ b # NoValue /\ e # NoValue /\ e.next = q
           /\ x = <<type, WithElement(type, b.v, e.v)>>

LEMMA LevelFacts ==
  ASSUME NEW s \in Seq(Char), NEW type \in Types, NEW h \in 1 .. MaxDepth,
         NEW p \in Positions(s), At(s, p) = Open(type),
         NEW E, E = ElementsAt(s, type, h)
  PROVE  /\ Nested(s)[h][p] = Enclosed(s, type, Nested(s)[h - 1], p)
         /\ Proper(s, Nested(s)[h - 1]) /\ Bounded(s, E) /\ Barred(s, type, E)
         /\ At(s, p) # "nul"
         /\ Behind(s, p) \in Positions(s) /\ p < Behind(s, p)
<1>1. h \in 1 .. MaxDepth /\ h - 1 \in 0 .. MaxDepth  BY TokenerAssumption
<1>2. Nested(s)[h][p] = ValueAt(s, Nested(s)[h - 1], p)
  <2>1. \A g \in 1 .. MaxDepth :
          Nested(s)[g] =
            [i \in Positions(s) |-> ValueAt(s, Nested(s)[g - 1], i)]
    BY NestedIs
  <2>2. Nested(s)[h] = [i \in Positions(s) |-> ValueAt(s, Nested(s)[h - 1], i)]
    BY <2>1
  <2> QED BY <2>2
<1>3. Proper(s, Nested(s)[h - 1])  BY <1>1, NestedProper
<1>4. At(s, p) # "nul"  BY MarkFacts
<1>5. Behind(s, p) \in Positions(s) /\ p < Behind(s, p)  BY <1>4, BehindFacts
<1>6. Bounded(s, E) /\ Barred(s, type, E)
  BY <1>3, ElementsProper DEF ElementsAt
<1>7. Nested(s)[h][p] = Enclosed(s, type, Nested(s)[h - 1], p)
  BY <1>2, ValueCases
<1> QED BY <1>3, <1>4, <1>5, <1>6, <1>7

(* A list that ends ends the value, one that neither ends nor goes on      *)
(* leaves none.                                                            *)
LEMMA LevelLists ==
  ASSUME NEW s, Len(s) \in Nat, NEW type, NEW h, NEW p,
         NEW L, L = ListsAt(s, type, h, p)
  PROVE  /\ L[0] = [v |-> << >>, next |-> Behind(s, p)]
         /\ \A n \in Nat : n + 1 <= Len(s) =>
              L[n + 1] = Longer(s, type, ElementsAt(s, type, h), L[n])
<1>1. L = Lists(s, type, ElementsAt(s, type, h), Behind(s, p))  BY DEF ListsAt
<1> QED BY ONLY <1>1, Len(s) \in Nat, ListsAre

LEMMA LevelEnds ==
  ASSUME NEW s \in Seq(Char), NEW type \in Types, NEW h \in 1 .. MaxDepth,
         NEW p \in Positions(s), At(s, p) = Open(type),
         NEW n \in 0 .. Len(s), NEW b, b = ListsAt(s, type, h, p)[n],
         b # NoValue,
         \/ At(s, b.next) = Close(type)
         \/ Longer(s, type, ElementsAt(s, type, h), b) = NoValue
  PROVE  Nested(s)[h][p] =
           IF At(s, b.next) = Close(type)
           THEN [v |-> <<type, b.v>>, next |-> Behind(s, b.next)]
           ELSE NoValue
<1>1. PICK E : E = ElementsAt(s, type, h)  OBVIOUS
<1>2. PICK L : L = ListsAt(s, type, h, p)  OBVIOUS
<1>3. /\ Nested(s)[h][p] = Enclosed(s, type, Nested(s)[h - 1], p)
      /\ Bounded(s, E) /\ Barred(s, type, E) /\ At(s, p) # "nul"
  BY <1>1, LevelFacts
<1>4. PICK V : V = Nested(s)[h - 1]  OBVIOUS
<1>5. E = Elements(s, type, V) /\ L = Lists(s, type, E, Behind(s, p))
  BY <1>1, <1>2, <1>4 DEF ElementsAt, ListsAt
<1>6. /\ L[0] = [v |-> << >>, next |-> Behind(s, p)]
      /\ \A m \in Nat : m + 1 <= Len(s) => L[m + 1] = Longer(s, type, E, L[m])
  <2>1. L = Lists(s, type, E, Behind(s, p))  BY <1>5
  <2> QED BY ONLY <2>1, Len(s) \in Nat, ListsAre
<1>7. \/ At(s, b.next) = Close(type)
      \/ n + 1 <= Len(s) => L[n + 1] = NoValue
  BY <1>1, <1>2, <1>6
<1>8. Enclosed(s, type, V, p) =
        IF At(s, b.next) = Close(type)
        THEN [v |-> <<type, b.v>>, next |-> Behind(s, b.next)]
        ELSE NoValue
  BY <1>2, <1>3, <1>5, <1>7, EnclosedIs
<1> QED BY <1>3, <1>4, <1>8

LEMMA FirstElement ==
  ASSUME NEW s \in Seq(Char), NEW type \in Types, NEW h \in 1 .. MaxDepth,
         NEW p \in Positions(s), At(s, p) = Open(type)
  PROVE  AtElement(s, <<type, << >> >>, type, h, p, Behind(s, p))
<1>1. PICK E : E = ElementsAt(s, type, h)  OBVIOUS
<1>2. PICK L : L = ListsAt(s, type, h, p)  OBVIOUS
<1>3. L[0] = [v |-> << >>, next |-> Behind(s, p)]
  <2>1. /\ L[0] = [v |-> << >>, next |-> Behind(s, p)]
        /\ \A m \in Nat : m + 1 <= Len(s) =>
             L[m + 1] = Longer(s, type, ElementsAt(s, type, h), L[m])
    BY ONLY <1>2, Len(s) \in Nat, LevelLists
  <2> QED BY <2>1
<1>4. Behind(s, p) \in Positions(s) /\ Behind(s, p) # 0 /\ 0 \in 0 .. Len(s)
  <2>1. Behind(s, p) \in Positions(s)  BY LevelFacts
  <2> QED BY <2>1, UnitFacts DEF Positions
<1>5. L[0] # NoValue  BY <1>3, <1>4, SomeValue
<1>6. L[0].next = Behind(s, p) /\ L[0].v = << >>  BY <1>3
<1> QED BY <1>2, <1>4, <1>5, <1>6 DEF AtElement

LEMMA ElementFacts ==
  ASSUME NEW s \in Seq(Char), NEW x, NEW type \in Types,
         NEW h \in 1 .. MaxDepth, NEW p \in Positions(s), NEW q,
         AtElement(s, x, type, h, p, q),
         NEW e, e = ElementsAt(s, type, h)[q]
  PROVE  /\ q \in Positions(s) /\ p < q /\ At(s, p) = Open(type)
         /\ At(s, q) = Close(type) =>
              Nested(s)[h][p] = [v |-> x, next |-> Behind(s, q)]
         /\ e = NoValue /\ At(s, q) # Close(type) =>
              Nested(s)[h][p] = NoValue
         /\ e # NoValue =>
              BehindElement(s, <<type, WithElement(type, x[2], e.v)>>, type,
                            h, p, e.next)
<1>1. PICK E : E = ElementsAt(s, type, h)  OBVIOUS
<1>2. PICK L : L = ListsAt(s, type, h, p)  OBVIOUS
<1>3. PICK n \in 0 .. Len(s) : /\ L[n] # NoValue /\ L[n].next = q
                               /\ x = <<type, L[n].v>>
  BY <1>2 DEF AtElement
<1>4. PICK b : b = L[n]  OBVIOUS
<1>5. At(s, p) = Open(type)  BY DEF AtElement
<1>6. /\ Bounded(s, E) /\ Behind(s, p) \in Positions(s) /\ p < Behind(s, p)
  BY <1>1, <1>5, LevelFacts
<1>7. q \in Positions(s) /\ Behind(s, p) + n <= q
  <2>1. L = Lists(s, type, E, Behind(s, p)) /\ b = L[n] /\ b # NoValue
    BY <1>1, <1>2, <1>3, <1>4 DEF ListsAt
  <2>2. b.next \in Positions(s) /\ Behind(s, p) + n <= b.next
    BY <1>6, <2>1, ListBounded
  <2> QED BY <1>3, <1>4, <2>2
<1>8. p < q  BY <1>6, <1>7, UnitFacts
<1>9. b = ListsAt(s, type, h, p)[n] /\ b # NoValue /\ b.next = q
      /\ x = <<type, b.v>>
  BY <1>2, <1>3, <1>4
<1>10. ASSUME At(s, q) = Close(type)
       PROVE  Nested(s)[h][p] = [v |-> x, next |-> Behind(s, q)]
  BY <1>5, <1>9, <1>10, LevelEnds
<1>11. ASSUME e = NoValue, At(s, q) # Close(type)
       PROVE  Nested(s)[h][p] = NoValue
  <2>1. Longer(s, type, ElementsAt(s, type, h), b) = NoValue
    BY <1>9, <1>11, LongerNone
  <2> QED BY <1>5, <1>9, <1>11, <2>1, LevelEnds
<1>12. ASSUME e # NoValue
       PROVE  BehindElement(s, <<type, WithElement(type, x[2], e.v)>>, type,
                            h, p, e.next)
  <2>1. x[2] = b.v  BY <1>9
  <2> QED BY <1>5, <1>9, <1>12, <2>1 DEF BehindElement
<1> QED BY <1>5, <1>7, <1>8, <1>10, <1>11, <1>12

LEMMA BehindElementFacts ==
  ASSUME NEW s \in Seq(Char), NEW x, NEW type \in Types,
         NEW h \in 1 .. MaxDepth, NEW p \in Positions(s), NEW q,
         BehindElement(s, x, type, h, p, q)
  PROVE  /\ q \in Positions(s)
         /\ At(s, q) = Comma => AtElement(s, x, type, h, p, Behind(s, q))
         /\ At(s, q) = Close(type) =>
              Nested(s)[h][p] = [v |-> x, next |-> Behind(s, q)]
         /\ At(s, q) \notin {Comma, Close(type)} => Nested(s)[h][p] = NoValue
<1>1. PICK E : E = ElementsAt(s, type, h)  OBVIOUS
<1>2. PICK L : L = ListsAt(s, type, h, p)  OBVIOUS
<1>3. PICK n \in 0 .. Len(s) :
        /\ L[n] # NoValue /\ E[L[n].next] # NoValue
        /\ E[L[n].next].next = q
        /\ x = <<type, WithElement(type, L[n].v, E[L[n].next].v)>>
  BY <1>1, <1>2 DEF BehindElement
<1>4. PICK b : b = L[n]  OBVIOUS
<1>5. PICK e : e = E[b.next]  OBVIOUS
<1>6. At(s, p) = Open(type)  BY DEF BehindElement
<1>7. /\ Bounded(s, E) /\ Behind(s, p) \in Positions(s) /\ p < Behind(s, p)
      /\ Barred(s, type, E)
  BY <1>1, <1>6, LevelFacts
<1>8. b.next \in Positions(s) /\ Behind(s, p) + n <= b.next
  <2>1. L = Lists(s, type, E, Behind(s, p)) /\ b = L[n] /\ b # NoValue
    BY <1>1, <1>2, <1>3, <1>4 DEF ListsAt
  <2> QED BY <1>7, <2>1, ListBounded
<1>9. e # NoValue /\ e.next = q /\ q \in Positions(s) /\ b.next < q
  BY <1>3, <1>4, <1>5, <1>7, <1>8 DEF Bounded
<1>10. n \in Nat /\ n + 1 <= Len(s) /\ n + 1 \in 0 .. Len(s)
  <2>1. /\ Len(s) \in Nat /\ q <= Len(s) + 1 /\ q \in Nat /\ b.next \in Nat
        /\ Behind(s, p) \in Nat /\ p \in Nat /\ 1 <= p
    BY <1>7, <1>8, <1>9, UnitFacts DEF Positions
  <2> QED BY ONLY <1>7, <1>8, <1>9, <2>1, n \in 0 .. Len(s)
<1>11. /\ L[0] = [v |-> << >>, next |-> Behind(s, p)]
       /\ \A m \in Nat : m + 1 <= Len(s) =>
            L[m + 1] = Longer(s, type, ElementsAt(s, type, h), L[m])
  BY ONLY <1>2, Len(s) \in Nat, LevelLists
<1>12. L[n + 1] = Longer(s, type, E, b)  BY <1>1, <1>4, <1>10, <1>11
<1>13. PICK list : list = WithElement(type, b.v, e.v)  OBVIOUS
<1>14. x = <<type, list>>  BY <1>3, <1>4, <1>5, <1>13
<1>15. b # NoValue /\ q # 0  BY <1>3, <1>4, <1>9 DEF Positions
<1>16. PICK j : j = Behind(s, q)  OBVIOUS
<1>17. Longer(s, type, E, b) =
         IF b = NoValue \/ e = NoValue THEN NoValue
         ELSE CASE At(s, q) = Comma       -> [v |-> list, next |-> j]
                [] At(s, q) = Close(type) -> [v |-> list, next |-> q]
                [] OTHER                  -> NoValue
  BY ONLY <1>5, <1>9, <1>13, <1>16 DEF Longer
<1>18. Comma # Close(type)  BY MarkFacts
<1>19. Longer(s, type, E, b) =
         CASE At(s, q) = Comma       -> [v |-> list, next |-> j]
           [] At(s, q) = Close(type) -> [v |-> list, next |-> q]
           [] OTHER                  -> NoValue
  BY ONLY <1>9, <1>15, <1>17
<1>20. ASSUME NEW i, NEW r, r = [v |-> list, next |-> i], i # 0,
              L[n + 1] = r
       PROVE  AtElement(s, x, type, h, p, i)
  <2>1. r # NoValue /\ r.next = i /\ r.v = list  BY <1>20, SomeValue
  <2> QED BY <1>2, <1>6, <1>10, <1>14, <1>20, <2>1 DEF AtElement
<1>21. ASSUME At(s, q) = Comma PROVE AtElement(s, x, type, h, p, j)
  <2>1. Longer(s, type, E, b) = [v |-> list, next |-> j]
    BY ONLY <1>18, <1>19, <1>21
  <2>2. j # 0
    <3>1. Comma # "nul"  BY MarkFacts
    <3>2. j \in Positions(s)  BY <1>9, <1>16, <1>21, <3>1, BehindFacts
    <3> QED BY <3>2 DEF Positions
  <2> QED BY <1>12, <1>20, <2>1, <2>2
<1>22. ASSUME At(s, q) = Close(type)
       PROVE  Nested(s)[h][p] = [v |-> x, next |-> j]
  <2>1. Longer(s, type, E, b) = [v |-> list, next |-> q]
    BY ONLY <1>18, <1>19, <1>22
  <2>2. AtElement(s, x, type, h, p, q)  BY <1>12, <1>15, <1>20, <2>1
  <2> QED BY <1>16, <1>22, <2>2, ElementFacts
<1>23. ASSUME At(s, q) # Comma, At(s, q) # Close(type)
       PROVE  Nested(s)[h][p] = NoValue
  <2>1. Longer(s, type, E, b) = NoValue  BY ONLY <1>19, <1>23
  <2>2. At(s, b.next) # Close(type)  BY <1>5, <1>7, <1>8, <1>9 DEF Barred
  <2>3. b = ListsAt(s, type, h, p)[n]  BY <1>2, <1>4
  <2>4. Longer(s, type, ElementsAt(s, type, h), b) = NoValue  BY <1>1, <2>1
  <2> QED BY <1>6, <1>15, <2>2, <2>3, <2>4, LevelEnds
<1> QED BY <1>9, <1>16, <1>21, <1>22, <1>23

(* A field: its name, the colon, the value.                                *)
LEMMA FieldIs ==
  ASSUME NEW s \in Seq(Char), NEW h, NEW i \in Positions(s),
         NEW e, e = ElementsAt(s, "object", h)[i],
         NEW q, q = Behind(s, Behind(s, i)), NEW y, y = Nested(s)[h - 1][q]
  PROVE  IF At(s, i) \in Key /\ At(s, Behind(s, i)) = Colon /\ y # NoValue
         THEN e = [v |-> <<At(s, i), y.v>>, next |-> y.next]
         ELSE e = NoValue
<1>1. PICK V : V = Nested(s)[h - 1]  OBVIOUS
<1>2. e = FieldAt(s, V, i)  BY <1>1, Zenon DEF ElementsAt, Elements
<1>3. FieldAt(s, V, i) =
        IF At(s, i) \in Key /\ At(s, Behind(s, i)) = Colon /\ y # NoValue
        THEN [v |-> <<At(s, i), y.v>>, next |-> y.next]
        ELSE NoValue
  BY <1>1 DEF FieldAt
<1> QED BY <1>2, <1>3

LEMMA NameFacts ==
  ASSUME NEW s \in Seq(Char), NEW x, NEW h \in 1 .. MaxDepth,
         NEW p \in Positions(s), NEW q, AtElement(s, x, "object", h, p, q)
  PROVE  /\ At(s, q) \in Key =>
              AtColon(s, x, At(s, q), h, p, Behind(s, q))
         /\ At(s, q) \notin Key /\ At(s, q) # Close("object") =>
              Nested(s)[h][p] = NoValue
<1>1. PICK type : type = "object"  OBVIOUS
<1>2. type \in Types /\ AtElement(s, x, type, h, p, q)  BY <1>1 DEF Types
<1>3. PICK e : e = ElementsAt(s, type, h)[q]  OBVIOUS
<1>4. /\ q \in Positions(s) /\ p < q /\ At(s, p) = Open(type)
      /\ At(s, q) = Close(type) =>
           Nested(s)[h][p] = [v |-> x, next |-> Behind(s, q)]
      /\ e = NoValue /\ At(s, q) # Close(type) => Nested(s)[h][p] = NoValue
      /\ e # NoValue =>
           BehindElement(s, <<type, WithElement(type, x[2], e.v)>>, type,
                         h, p, e.next)
  BY <1>2, <1>3, ElementFacts
<1>5. At(s, q) \notin Key => e = NoValue  BY <1>1, <1>4, <1>3, FieldIs
<1> QED BY <1>1, <1>4, <1>5 DEF AtColon

LEMMA ColonFacts ==
  ASSUME NEW s \in Seq(Char), NEW x, NEW k, NEW h \in 1 .. MaxDepth,
         NEW p \in Positions(s), NEW q, AtColon(s, x, k, h, p, q)
  PROVE  /\ q \in Positions(s)
         /\ At(s, q) = Colon =>
              Before(s, x, "object", k, h, p, Behind(s, q))
         /\ At(s, q) # Colon => Nested(s)[h][p] = NoValue
<1>1. PICK i \in Positions(s) :
        /\ AtElement(s, x, "object", h, p, i) /\ At(s, i) = k /\ k \in Key
        /\ q = Behind(s, i)
  BY DEF AtColon
<1>2. PICK type : type = "object"  OBVIOUS
<1>3. PICK e : e = ElementsAt(s, type, h)[i]  OBVIOUS
<1>4. type \in Types /\ type # "array" /\ AtElement(s, x, type, h, p, i)
  BY <1>1, <1>2 DEF Types
<1>5. /\ i \in Positions(s) /\ p < i /\ At(s, p) = Open(type)
      /\ At(s, i) = Close(type) =>
           Nested(s)[h][p] = [v |-> x, next |-> Behind(s, i)]
      /\ e = NoValue /\ At(s, i) # Close(type) => Nested(s)[h][p] = NoValue
      /\ e # NoValue =>
           BehindElement(s, <<type, WithElement(type, x[2], e.v)>>, type,
                         h, p, e.next)
  BY <1>3, <1>4, ElementFacts
<1>6. At(s, i) # Close(type) /\ At(s, i) # "nul"
  BY <1>1, MarkFacts, CloseBegins DEF Begins
<1>7. q \in Positions(s)  BY <1>1, <1>6, BehindFacts
<1>8. At(s, q) # Colon => e = NoValue  BY <1>1, <1>3, <1>2, FieldIs
<1>9. ASSUME At(s, q) = Colon
      PROVE  Before(s, x, "object", k, h, p, Behind(s, q))
  BY <1>1, <1>4, <1>9, <1>2 DEF Before
<1> QED BY <1>5, <1>6, <1>7, <1>8, <1>9

(* The value x of a level with one element more, which is y.               *)
Grown(x, type, k, y) ==
  <<type, WithElement(type, x[2], IF type = "array" THEN y ELSE <<k, y>>)>>

LEMMA BeforeFacts ==
  ASSUME NEW s \in Seq(Char), NEW x, NEW type \in Types, NEW k,
         NEW h \in 1 .. MaxDepth, NEW p \in Positions(s), NEW q,
         Before(s, x, type, k, h, p, q), NEW V, V = Nested(s)[h - 1]
  PROVE  /\ q \in Positions(s)
         /\ V[q] = NoValue => Nested(s)[h][p] = NoValue
         /\ \A y, r : V[q] = [v |-> y, next |-> r] /\ r # 0 =>
              BehindElement(s, Grown(x, type, k, y), type, h, p, r)
<1>1. PICK i \in Positions(s) :
        /\ AtElement(s, x, type, h, p, i)
        /\ IF type = "array"
           THEN q = i /\ At(s, i) # Close(type)
           ELSE At(s, i) = k /\ k \in Key /\ At(s, Behind(s, i)) = Colon
                /\ q = Behind(s, Behind(s, i))
  BY Zenon DEF Before
<1>2. PICK e : e = ElementsAt(s, type, h)[i]  OBVIOUS
<1>3. /\ i \in Positions(s) /\ p < i /\ At(s, p) = Open(type)
      /\ At(s, i) = Close(type) =>
           Nested(s)[h][p] = [v |-> x, next |-> Behind(s, i)]
      /\ e = NoValue /\ At(s, i) # Close(type) => Nested(s)[h][p] = NoValue
      /\ e # NoValue =>
           BehindElement(s, <<type, WithElement(type, x[2], e.v)>>, type,
                         h, p, e.next)
  BY <1>1, <1>2, ElementFacts
<1>4. At(s, i) # Close(type) /\ q \in Positions(s)
  <2>1. CASE type = "array"  BY <1>1, <2>1
  <2>2. CASE type # "array"
    <3>1. At(s, i) # Close(type) /\ At(s, i) # "nul"
      BY <1>1, <2>2, MarkFacts, CloseBegins DEF Begins
    <3>2. Behind(s, i) \in Positions(s) /\ At(s, Behind(s, i)) # "nul"
      BY <1>1, <2>2, <3>1, BehindFacts, MarkFacts
    <3> QED BY <1>1, <2>2, <3>1, <3>2, BehindFacts
  <2> QED BY <2>1, <2>2
<1>5. PICK z : z = V[q]  OBVIOUS
<1>6. z = NoValue => e = NoValue
  <2>1. CASE type = "array"
    <3>1. e = V[i] /\ q = i  BY <1>1, <1>2, <2>1 DEF ElementsAt, Elements
    <3> QED BY <1>5, <3>1
  <2>2. CASE type # "array"
    <3>1. type = "object"  BY <2>2 DEF Types
    <3>2. /\ e = ElementsAt(s, "object", h)[i] /\ z = Nested(s)[h - 1][q]
          /\ q = Behind(s, Behind(s, i))
      BY <1>1, <1>2, <1>5, <2>2, <3>1
    <3>3. IF At(s, i) \in Key /\ At(s, Behind(s, i)) = Colon /\ z # NoValue
          THEN e = [v |-> <<At(s, i), z.v>>, next |-> z.next]
          ELSE e = NoValue
      BY <3>2, FieldIs
    <3> QED BY <3>3
  <2> QED BY <2>1, <2>2
<1>7. ASSUME NEW y, NEW r, z = [v |-> y, next |-> r], r # 0
      PROVE  /\ e # NoValue /\ e.next = r
             /\ e.v = IF type = "array" THEN y ELSE <<k, y>>
  <2>1. z # NoValue /\ z.v = y /\ z.next = r  BY <1>7, SomeValue
  <2>2. CASE type = "array"
    <3>1. e = V[i] /\ q = i  BY <1>1, <1>2, <2>2 DEF ElementsAt, Elements
    <3> QED BY <1>5, <2>1, <2>2, <3>1
  <2>3. CASE type # "array"
    <3>1. type = "object"  BY <2>3 DEF Types
    <3>2. At(s, i) = k /\ k \in Key /\ At(s, Behind(s, i)) = Colon
          /\ q = Behind(s, Behind(s, i))
      BY <1>1, <2>3
    <3>3. e = ElementsAt(s, "object", h)[i] /\ z = Nested(s)[h - 1][q]
      BY <1>2, <1>5, <3>1
    <3>4. IF At(s, i) \in Key /\ At(s, Behind(s, i)) = Colon /\ z # NoValue
          THEN e = [v |-> <<At(s, i), z.v>>, next |-> z.next]
          ELSE e = NoValue
      BY <3>2, <3>3, FieldIs
    <3>5. e = [v |-> <<k, y>>, next |-> r]  BY <2>1, <3>2, <3>4
    <3> QED BY <1>7, <2>3, <3>5, SomeValue
  <2> QED BY <2>2, <2>3
<1>8. ASSUME NEW y, NEW r, z = [v |-> y, next |-> r], r # 0
      PROVE  BehindElement(s, Grown(x, type, k, y), type, h, p, r)
  BY <1>3, <1>7, <1>8 DEF Grown
<1> QED BY <1>3, <1>4, <1>5, <1>6, <1>8
-----------------------------------------------------------------------------
(* What nodes mean.  The nodes inside a node are its children.             *)
LEMMA InsideIs ==
  ASSUME NEW h, HeapOK(h), NEW m \in DOMAIN h
  PROVE  /\ Inside(h, m) \subseteq 0 .. Len(h)
         /\ h[m].type \in {"leaf", "array", "object"}
         /\ h[m].type = "array" =>
              /\ h[m].val \in Seq(Nat)
              /\ Inside(h, m) = {h[m].val[i] : i \in DOMAIN h[m].val}
         /\ h[m].type = "object" =>
              LET t == h[m].val
              IN  /\ Good(t) /\ t.order \in Seq(0 .. t.size - 1)
                  /\ Inside(h, m) = {t.slot[t.order[i]].v : i \in DOMAIN t.order}
<1>1. h[m] \in Nodes  BY HeapFacts
<1>2. h[m].type \in {"leaf", "array", "object"}  BY <1>1 DEF Nodes
<1>3. Inside(h, m) \subseteq 0 .. Len(h)  BY DEF HeapOK, Inside
<1>4. ASSUME h[m].type = "array"
      PROVE  /\ h[m].val \in Seq(Nat)
             /\ Inside(h, m) = {h[m].val[i] : i \in DOMAIN h[m].val}
  <2>1. h[m].val \in Seq(Nat)  BY <1>1, <1>4 DEF Nodes
  <2>2. Children(h[m]) = h[m].val  BY <1>4 DEF Children
  <2> QED BY <2>1, <2>2 DEF Inside
<1>5. ASSUME h[m].type = "object", NEW t, t = h[m].val
      PROVE  /\ Good(t) /\ t.order \in Seq(0 .. t.size - 1)
             /\ Inside(h, m) = {t.slot[t.order[i]].v : i \in DOMAIN t.order}
  <2>1. Good(t)  BY <1>5 DEF HeapOK
  <2>2. t.order \in Seq(0 .. t.size - 1)  BY <2>1, TableFacts DEF Good
  <2>3. Children(h[m]) = [n \in ToSet(t.order) |-> t.slot[n].v]
    BY <1>5 DEF Children
  <2>4. ToSet(t.order) = {t.order[i] : i \in DOMAIN t.order}  BY DEF ToSet
  <2>5. Inside(h, m) = {t.slot[n].v : n \in ToSet(t.order)}  BY <2>3 DEF Inside
  <2> QED BY <2>1, <2>2, <2>4, <2>5
<1> QED BY <1>2, <1>3, <1>4, <1>5

(* What a node is told to mean depends on what is inside of it.            *)
LEMMA ToldAlike ==
  ASSUME NEW h, HeapOK(h), NEW m \in DOMAIN h, NEW g, NEW M, NEW N,
         g[m].type = h[m].type, g[m].val = h[m].val,
         \A n \in Inside(h, m) : M[n] = N[n]
  PROVE  Told(h, M, m) = Told(g, N, m)
<1>1. h[m].type \in {"leaf", "array", "object"}  BY InsideIs
<1>2. CASE h[m].type = "leaf"  BY <1>2 DEF Told
<1>3. CASE h[m].type = "array"
  <2>1. PICK a : a = h[m].val  OBVIOUS
  <2>2. \A i \in DOMAIN a : M[a[i]] = N[a[i]]  BY <1>3, <2>1, InsideIs
  <2>3. [i \in DOMAIN a |-> M[a[i]]] = [i \in DOMAIN a |-> N[a[i]]]  BY <2>2
  <2>4. /\ Told(h, M, m) = <<"array", [i \in DOMAIN a |-> M[a[i]]]>>
        /\ Told(g, N, m) = <<"array", [i \in DOMAIN a |-> N[a[i]]]>>
    BY <1>3, <2>1 DEF Told
  <2> QED BY <2>3, <2>4
<1>4. CASE h[m].type = "object"
  <2>1. PICK t : t = h[m].val  OBVIOUS
  <2>2. PICK f : f = Fields(t)  OBVIOUS
  <2>3. \A i \in DOMAIN f : M[f[i].v] = N[f[i].v]
    <3>1. \A i \in DOMAIN t.order : t.slot[t.order[i]].v \in Inside(h, m)
      BY <1>4, <2>1, InsideIs
    <3>2. DOMAIN f = DOMAIN t.order
          /\ \A i \in DOMAIN t.order : f[i] = t.slot[t.order[i]]
      BY <2>2 DEF Fields
    <3> QED BY <3>1, <3>2
  <2>4. [i \in DOMAIN f |-> <<f[i].k, M[f[i].v]>>]
          = [i \in DOMAIN f |-> <<f[i].k, N[f[i].v]>>]
    BY <2>3
  <2>5. /\ Told(h, M, m) = <<"object", [i \in DOMAIN f |-> <<f[i].k, M[f[i].v]>>]>>
        /\ Told(g, N, m) = <<"object", [i \in DOMAIN f |-> <<f[i].k, N[f[i].v]>>]>>
    BY <1>4, <2>1, <2>2 DEF Told
  <2> QED BY <2>4, <2>5
<1> QED BY <1>1, <1>2, <1>3, <1>4

LEMMA InsideIsAfter ==
  ASSUME NEW h, HeapOK(h), HeapGrows(h), NEW m \in DOMAIN h,
         NEW n \in Inside(h, m)
  PROVE  n \in 0 .. Len(h) /\ (n = Null \/ n > m)
<1>1. n \in 0 .. Len(h)  BY InsideIs
<1>2. PICK k \in DOMAIN Children(h[m]) : n = Children(h[m])[k]  BY DEF Inside
<1> QED BY <1>1, <1>2 DEF HeapGrows, After

LEMMA MeaningIs ==
  ASSUME NEW h, HeapOK(h), HeapGrows(h)
  PROVE  /\ Meaning(h)[Null] = <<"null">>
         /\ \A n \in DOMAIN h : Meaning(h)[n] = Told(h, Meaning(h), n)
<1> DEFINE N == Len(h)
           Is(f) == f = [n \in 0 .. N |-> IF n = Null THEN <<"null">>
                                          ELSE Told(h, f, n)]
           Right(f, k) == /\ f = [n \in 0 .. N |-> f[n]]
                         /\ f[Null] = <<"null">>
                         /\ \A n \in 1 .. N : n > k => f[n] = Told(h, f, n)
           T == {k \in Nat : k <= N => \E f : Right(f, N - k)}
<1>1. N \in Nat /\ DOMAIN h = 1 .. N  BY HeapFacts
<1>2. 0 \in T
  <2> DEFINE f == [n \in 0 .. N |-> <<"null">>]
  <2>1. f = [n \in 0 .. N |-> f[n]] /\ f[Null] = <<"null">>  BY <1>1 DEF Null
  <2>2. \A n \in 1 .. N : ~(n > N - 0)  BY <1>1
  <2> HIDE DEF f
  <2>3. Right(f, N - 0)  BY <2>1, <2>2
  <2> HIDE DEF Right
  <2> QED BY <2>3
<1>3. ASSUME NEW k \in Nat, k \in T PROVE k + 1 \in T
  <2> SUFFICES ASSUME k + 1 <= N PROVE \E f : Right(f, N - (k + 1))  OBVIOUS
  <2>1. PICK m : m = N - k  OBVIOUS
  <2>2. m \in 1 .. N /\ N - (k + 1) = m - 1 /\ k <= N  BY <1>1, <2>1
  <2>3. PICK f : Right(f, m)  BY <1>3, <2>1, <2>2
  <2> DEFINE g == [n \in 0 .. N |-> IF n = m THEN Told(h, f, m) ELSE f[n]]
  <2>4. \A n \in 0 .. N : n # m => g[n] = f[n]  OBVIOUS
  <2>5. g[m] = Told(h, f, m) /\ g = [n \in 0 .. N |-> g[n]]  BY <2>2
  <2> HIDE DEF g
  <2>6. ASSUME NEW n \in 1 .. N, n >= m PROVE Told(h, f, n) = Told(h, g, n)
    <3>1. \A i \in Inside(h, n) : f[i] = g[i]
      <4> SUFFICES ASSUME NEW i \in Inside(h, n) PROVE f[i] = g[i]  OBVIOUS
      <4>1. i \in 0 .. N /\ (i = Null \/ i > n)  BY <1>1, InsideIsAfter
      <4>2. i # m  BY <2>2, <2>6, <4>1 DEF Null
      <4> QED BY <2>4, <4>1, <4>2
    <3> HIDE DEF N
    <3> QED BY <1>1, <3>1, ToldAlike
  <2>7. ASSUME NEW n \in 1 .. N, n > m - 1 PROVE g[n] = Told(h, g, n)
    <3>1. n >= m /\ n \in 0 .. N  BY <2>2, <2>7
    <3>2. Told(h, f, n) = Told(h, g, n)  BY <2>6, <3>1
    <3>3. CASE n = m  BY <2>5, <3>2, <3>3
    <3>4. CASE n # m
      <4>1. n > m  BY <2>2, <3>1, <3>4
      <4>2. f[n] = Told(h, f, n)  BY <2>3, <4>1
      <4> QED BY <2>4, <3>1, <3>2, <3>4, <4>2
    <3> QED BY <3>3, <3>4
  <2>8. g[Null] = <<"null">>
    <3>1. Null \in 0 .. N /\ Null # m  BY <1>1, <2>2 DEF Null
    <3> QED BY <2>3, <2>4, <3>1
  <2>9. Right(g, N - (k + 1))  BY <2>2, <2>5, <2>7, <2>8
  <2> HIDE DEF Right
  <2> QED BY <2>9
<1>4. \E f : Right(f, 0)
  <2> HIDE DEF T, Right
  <2>1. N \in T  BY <1>1, <1>2, <1>3, SetInduction
  <2>2. N - N = 0  BY <1>1
  <2> QED BY <1>1, <2>1, <2>2 DEF T
<1>5. PICK f : Right(f, 0)  BY <1>4
<1>6. Is(f)
  <2>1. \A n \in 0 .. N : f[n] = IF n = Null THEN <<"null">> ELSE Told(h, f, n)
    <3> SUFFICES ASSUME NEW n \in 0 .. N
                 PROVE  f[n] = IF n = Null THEN <<"null">> ELSE Told(h, f, n)
      OBVIOUS
    <3>1. n # Null => n \in 1 .. N /\ n > 0  BY <1>1 DEF Null
    <3> QED BY <1>5, <3>1
  <2> QED BY <1>5, <2>1
<1>7. Meaning(h) = CHOOSE g : Is(g)  BY DEF Meaning
<1> HIDE DEF Is
<1>8. Is(Meaning(h))  BY <1>6, <1>7
<1>9. PICK M : M = Meaning(h)  OBVIOUS
<1>10. M = [n \in 0 .. N |-> IF n = Null THEN <<"null">> ELSE Told(h, M, n)]
  BY <1>8, <1>9 DEF Is
<1>11. Null \in 0 .. N /\ \A n \in 1 .. N : n \in 0 .. N /\ n # Null
  BY <1>1 DEF Null
<1>12. M[Null] = <<"null">> /\ \A n \in 1 .. N : M[n] = Told(h, M, n)
  BY <1>10, <1>11
<1> QED BY <1>1, <1>9, <1>12

(* A part of the memory that has nothing of the rest inside means the same *)
(* as long as it is not changed.                                           *)
LEMMA MeaningKept ==
  ASSUME NEW h, HeapOK(h), HeapGrows(h), NEW g, HeapOK(g), HeapGrows(g),
         NEW R \in SUBSET (DOMAIN h), R \subseteq DOMAIN g,
         \A m \in R : /\ g[m].type = h[m].type /\ g[m].val = h[m].val
                      /\ Inside(h, m) \subseteq R \cup {Null}
  PROVE  \A m \in R \cup {Null} : Meaning(g)[m] = Meaning(h)[m]
<1> DEFINE N == Len(h)
           T == {k \in Nat : \A m \in R : m > N - k =>
                                            Meaning(g)[m] = Meaning(h)[m]}
<1>1. N \in Nat /\ DOMAIN h = 1 .. N  BY HeapFacts
<1>2. Meaning(g)[Null] = Meaning(h)[Null]
  <2>1. Meaning(g)[Null] = <<"null">>  BY MeaningIs
  <2>2. Meaning(h)[Null] = <<"null">>  BY MeaningIs
  <2> QED BY <2>1, <2>2
<1>3. 0 \in T  BY <1>1
<1>4. ASSUME NEW k \in Nat, k \in T PROVE k + 1 \in T
  <2> SUFFICES ASSUME NEW m \in R, m > N - (k + 1)
               PROVE  Meaning(g)[m] = Meaning(h)[m]
    OBVIOUS
  <2>1. \A n \in Inside(h, m) : Meaning(h)[n] = Meaning(g)[n]
    <3> SUFFICES ASSUME NEW n \in Inside(h, m)
                 PROVE  Meaning(h)[n] = Meaning(g)[n]
      OBVIOUS
    <3>1. n \in 0 .. N /\ (n = Null \/ n > m)  BY InsideIsAfter
    <3>2. n \in R \cup {Null}  OBVIOUS
    <3>3. n # Null => n > N - k  BY <1>1, <3>1
    <3> QED BY <1>2, <1>4, <3>2, <3>3
  <2>2. PICK M : M = Meaning(h)  OBVIOUS
  <2>3. PICK L : L = Meaning(g)  OBVIOUS
  <2>4. m \in DOMAIN h /\ m \in DOMAIN g
        /\ g[m].type = h[m].type /\ g[m].val = h[m].val
    OBVIOUS
  <2>5. \A n \in Inside(h, m) : M[n] = L[n]  BY <2>1, <2>2, <2>3
  <2>6. Told(h, M, m) = Told(g, L, m)  BY ONLY <2>4, <2>5, HeapOK(h), ToldAlike
  <2>7. M[m] = Told(h, M, m)  BY <2>2, <2>4, MeaningIs
  <2>8. L[m] = Told(g, L, m)  BY <2>3, <2>4, MeaningIs
  <2> QED BY <2>2, <2>3, <2>6, <2>7, <2>8
<1>5. N \in T
  <2> HIDE DEF T
  <2> QED BY <1>1, <1>3, <1>4, SetInduction
<1>6. \A m \in R : m > N - N  BY <1>1
<1>7. \A m \in R : Meaning(g)[m] = Meaning(h)[m]  BY <1>5, <1>6
<1> QED BY <1>2, <1>7

LEMMA OthersMean ==
  ASSUME NEW h, HeapOK(h), HeapGrows(h), NEW g, HeapOK(g), HeapGrows(g),
         NEW o, NotInside(h, o), DOMAIN h \subseteq DOMAIN g,
         \A m \in DOMAIN h : m # o =>
           g[m].type = h[m].type /\ g[m].val = h[m].val
  PROVE  \A m \in 0 .. Len(h) : m # o => Meaning(g)[m] = Meaning(h)[m]
<1> DEFINE R == DOMAIN h \ {o}
<1>1. DOMAIN h = 1 .. Len(h) /\ Len(h) \in Nat  BY HeapFacts
<1>2. \A m \in R : Inside(h, m) \subseteq R \cup {Null}
  <2> SUFFICES ASSUME NEW m \in R, NEW n \in Inside(h, m)
               PROVE  n \in R \cup {Null}
    OBVIOUS
  <2>1. n \in 0 .. Len(h)  BY InsideIs
  <2>2. n # o  BY DEF NotInside
  <2> QED BY <1>1, <2>1, <2>2 DEF Null
<1>3. \A m \in R : g[m].type = h[m].type /\ g[m].val = h[m].val  OBVIOUS
<1>4. R \in SUBSET (DOMAIN h) /\ R \subseteq DOMAIN g  OBVIOUS
<1> HIDE DEF R
<1>5. \A m \in R : /\ g[m].type = h[m].type /\ g[m].val = h[m].val
                   /\ Inside(h, m) \subseteq R \cup {Null}
  BY <1>2, <1>3
<1>6. \A m \in R \cup {Null} : Meaning(g)[m] = Meaning(h)[m]
  BY ONLY HeapOK(h), HeapGrows(h), HeapOK(g), HeapGrows(g), <1>4, <1>5,
          MeaningKept
<1> QED BY <1>1, <1>6 DEF R, Null

LEMMA ToldIs ==
  ASSUME NEW h, NEW M, NEW n, NEW u, u = h[n].val
  PROVE  /\ h[n].type = "leaf" => Told(h, M, n) = <<"leaf", u>>
         /\ h[n].type = "array" =>
              Told(h, M, n) = <<"array", [i \in DOMAIN u |-> M[u[i]]]>>
         /\ h[n].type = "object" =>
              Told(h, M, n) =
                <<"object", [i \in DOMAIN u.order |->
                               <<u.slot[u.order[i]].k, M[u.slot[u.order[i]].v]>>]>>
<1>1. ASSUME h[n].type = "object"
      PROVE  Told(h, M, n) =
               <<"object", [i \in DOMAIN u.order |->
                              <<u.slot[u.order[i]].k, M[u.slot[u.order[i]].v]>>]>>
  <2>1. PICK f : f = Fields(u)  OBVIOUS
  <2>2. Told(h, M, n) =
          <<"object", [i \in DOMAIN f |-> <<f[i].k, M[f[i].v]>>]>>
    BY <1>1, <2>1 DEF Told
  <2>3. DOMAIN f = DOMAIN u.order
        /\ \A i \in DOMAIN u.order : f[i] = u.slot[u.order[i]]
    BY <2>1 DEF Fields
  <2>4. [i \in DOMAIN f |-> <<f[i].k, M[f[i].v]>>]
          = [i \in DOMAIN u.order |->
               <<u.slot[u.order[i]].k, M[u.slot[u.order[i]].v]>>]
    BY <2>3
  <2> QED BY <2>2, <2>4
<1>2. ASSUME h[n].type = "array"
      PROVE  Told(h, M, n) = <<"array", [i \in DOMAIN u |-> M[u[i]]]>>
  BY <1>2 DEF Told
<1>3. ASSUME h[n].type = "leaf" PROVE Told(h, M, n) = <<"leaf", u>>
  BY <1>3 DEF Told
<1> QED BY <1>1, <1>2, <1>3

(* A list of anything, one longer.                                         *)
LEMMA AppendIs ==
  ASSUME NEW n \in Nat, NEW f, NEW y, NEW w,
         \A i \in 1 .. n : w[i] = f[i], w[n + 1] = y
  PROVE  Append([i \in 1 .. n |-> f[i]], y) = [i \in 1 .. n + 1 |-> w[i]]
<1> DEFINE S == {f[i] : i \in 1 .. n} \cup {y}
           b == [i \in 1 .. n |-> f[i]]
<1>1. b \in Seq(S) /\ Len(b) = n /\ \A i \in 1 .. n : b[i] = f[i]
  <2>1. b \in [1 .. n -> S]  OBVIOUS
  <2> HIDE DEF S
  <2> QED BY <2>1
<1>2. y \in S  OBVIOUS
<1> HIDE DEF S, b
<1>3. PICK u : u = Append(b, y)  OBVIOUS
<1>4. /\ u \in Seq(S) /\ Len(u) = n + 1 /\ u[n + 1] = y
      /\ \A i \in 1 .. n : u[i] = b[i]
  BY <1>1, <1>2, <1>3
<1>5. u = [i \in 1 .. n + 1 |-> u[i]]  BY <1>4
<1>6. \A i \in 1 .. n + 1 : i = n + 1 \/ i \in 1 .. n  OBVIOUS
<1>7. \A i \in 1 .. n + 1 : u[i] = w[i]  BY <1>1, <1>4, <1>6
<1>8. [i \in 1 .. n + 1 |-> u[i]] = [i \in 1 .. n + 1 |-> w[i]]  BY <1>7
<1> QED BY <1>3, <1>5, <1>8 DEF b

LEMMA ArrayAddMeans ==
  ASSUME NEW h, HeapOK(h), HeapGrows(h), NEW g, HeapOK(g), HeapGrows(g),
         NEW o \in DOMAIN h, h[o].type = "array", NotInside(h, o),
         NEW v \in 0 .. Len(h), After(v, o),
         DOMAIN g = DOMAIN h, g[o].type = "array",
         g[o].val = Append(h[o].val, v),
         \A m \in DOMAIN h : m # o =>
           g[m].type = h[m].type /\ g[m].val = h[m].val
  PROVE  /\ \A k : Meaning(g)[o] = Grown(Meaning(h)[o], "array", k, Meaning(h)[v])
         /\ \A m \in 0 .. Len(h) : m # o => Meaning(g)[m] = Meaning(h)[m]
<1>1. PICK M : M = Meaning(h)  OBVIOUS
<1>2. PICK L : L = Meaning(g)  OBVIOUS
<1>3. PICK s : s = h[o].val  OBVIOUS
<1>4. h \in Seq(Nodes) /\ Len(h) \in Nat /\ DOMAIN h = 1 .. Len(h)
      /\ h[o] \in Nodes
  BY HeapFacts
<1>5. s \in Seq(Nat) /\ \A i \in DOMAIN s : s[i] \in Inside(h, o)
  BY <1>3, InsideIs
<1>6. PICK u : u = Append(s, v)  OBVIOUS
<1>7. /\ DOMAIN g = DOMAIN h /\ g[o].type = "array" /\ g[o].val = u
      /\ \A m \in DOMAIN h : m # o =>
           g[m].type = h[m].type /\ g[m].val = h[m].val
  BY <1>3, <1>6
<1>8. \A m \in 0 .. Len(h) : m # o => L[m] = M[m]
  <2>1. DOMAIN h \subseteq DOMAIN g  BY <1>7
  <2>2. \A m \in DOMAIN h : m # o =>
          g[m].type = h[m].type /\ g[m].val = h[m].val
    BY <1>7
  <2>3. \A m \in 0 .. Len(h) : m # o => Meaning(g)[m] = Meaning(h)[m]
    BY ONLY HeapOK(h), HeapGrows(h), HeapOK(g), HeapGrows(g), NotInside(h, o),
            <2>1, <2>2, OthersMean
  <2> QED BY <1>1, <1>2, <2>3
<1>9. L[v] = M[v]
  <2>1. v # o  BY <1>4 DEF After, Null
  <2> QED BY <1>8, <2>1
<1>10. \A i \in DOMAIN s : L[s[i]] = M[s[i]]
  <2> SUFFICES ASSUME NEW i \in DOMAIN s PROVE L[s[i]] = M[s[i]]  OBVIOUS
  <2>1. s[i] \in 0 .. Len(h) /\ s[i] # o  BY <1>5, InsideIs DEF NotInside
  <2> QED BY <1>8, <2>1
<1>11. PICK n \in Nat : n = Len(s)  BY <1>5
<1>12. /\ DOMAIN s = 1 .. n /\ DOMAIN u = 1 .. n + 1 /\ u[n + 1] = v
       /\ \A i \in 1 .. n : u[i] = s[i]
  <2>1. v \in Nat  BY <1>4
  <2> QED BY ONLY <1>5, <1>6, <1>11, <2>1
<1>13. PICK f : f = [i \in 1 .. n |-> M[s[i]]]  OBVIOUS
<1>14. PICK w : w = [i \in 1 .. n + 1 |-> L[u[i]]]  OBVIOUS
<1>15. Append(f, M[v]) = w
  <2>1. \A i \in 1 .. n : w[i] = f[i]
    <3>1. \A i \in 1 .. n : i \in 1 .. n + 1  OBVIOUS
    <3> QED BY <1>10, <1>12, <1>13, <1>14, <3>1
  <2>2. n + 1 \in 1 .. n + 1  OBVIOUS
  <2>3. PICK y : y = M[v]  OBVIOUS
  <2>4. w[n + 1] = y  BY <1>9, <1>12, <1>14, <2>2, <2>3
  <2>5. f = [i \in 1 .. n |-> f[i]]  BY <1>13
  <2>6. w = [i \in 1 .. n + 1 |-> w[i]]  BY <1>14
  <2>7. Append([i \in 1 .. n |-> f[i]], y) = [i \in 1 .. n + 1 |-> w[i]]
    BY ONLY <2>1, <2>4, n \in Nat, AppendIs
  <2> QED BY <2>3, <2>5, <2>6, <2>7
<1>16. M[o] = <<"array", f>>
  <2>1. M[o] = Told(h, M, o)  BY <1>1, MeaningIs
  <2>2. Told(h, M, o) = <<"array", [i \in DOMAIN s |-> M[s[i]]]>>
    BY <1>3, ToldIs
  <2> QED BY <1>12, <1>13, <2>1, <2>2
<1>17. L[o] = <<"array", w>>
  <2>1. L[o] = Told(g, L, o)  BY <1>2, <1>7, MeaningIs
  <2>2. Told(g, L, o) = <<"array", [i \in DOMAIN u |-> L[u[i]]]>>
    <3>1. u = g[o].val /\ g[o].type = "array"  BY <1>7
    <3> QED BY ONLY <3>1, ToldIs
  <2> QED BY <1>12, <1>14, <2>1, <2>2
<1>18. WithElement("array", f, M[v]) = Append(f, M[v])  BY DEF WithElement
<1>19. M[o][2] = f  BY <1>16
<1>20. L[o] = <<"array", WithElement("array", M[o][2], M[v])>>
  BY <1>15, <1>17, <1>18, <1>19
<1>21. \A k : L[o] = Grown(M[o], "array", k, M[v])  BY <1>20 DEF Grown
<1> QED BY <1>1, <1>2, <1>8, <1>21

(* The fields of a table, without one of them, and with one more.          *)
FieldsOf(t, M) ==
  [i \in DOMAIN t.order |->
     <<t.slot[t.order[i]].k, M[t.slot[t.order[i]].v]>>]

LEMMA WithoutIs ==
  ASSUME NEW t, Good(t), NEW key \in Key, NEW M
  PROVE  Without(FieldsOf(t, M), key) = FieldsOf(Delete(t, key), M)
<1>1. PICK f : f = FieldsOf(t, M)  OBVIOUS
<1>2. PICK u : u = Delete(t, key)  OBVIOUS
<1>3. /\ Listed(t) /\ t \in Table
      /\ (Has(t, key) <=> \E e \in Contents(t) : e.k = key)
  BY GoodIsListed DEF Good
<1>4. PICK n \in Nat : /\ n = Len(t.order) /\ DOMAIN t.order = 1 .. n
                       /\ t.order \in Seq(0 .. t.size - 1)
  BY <1>3, TableFacts
<1>5. /\ DOMAIN f = 1 .. n
      /\ \A i \in 1 .. n : f[i] = <<t.slot[t.order[i]].k,
                                    M[t.slot[t.order[i]].v]>>
  BY <1>1, <1>4 DEF FieldsOf
<1> DEFINE I == {i \in DOMAIN f : f[i][1] = key}
<1>6. Without(f, key) = IF I = {} THEN f
                        ELSE RemoveAt(f, CHOOSE i \in I : TRUE)
  BY DEF Without
<1>7. \A i \in 1 .. n : i \in I <=> t.slot[t.order[i]].k = key  BY <1>5
<1>8. I \subseteq 1 .. n  BY <1>5
<1> HIDE DEF I
<1>9. CASE ~Has(t, key)
  <2>1. u = t  BY <1>2, <1>9 DEF Delete
  <2>2. I = {}
    <3>1. \A i \in 1 .. n : t.slot[t.order[i]] \in Contents(t)
      BY <1>4 DEF Contents, ToSet
    <3> QED BY <1>3, <1>7, <1>8, <1>9, <3>1
  <2> QED BY <1>1, <1>2, <1>6, <2>1, <2>2
<1>10. CASE Has(t, key)
  <2>1. PICK i \in 1 .. n : t.slot[t.order[i]].k = key /\ CutFrom(t, u, i)
    BY <1>2, <1>4, <1>10, DeleteCuts
  <2>2. \A j, m \in 1 .. n :
          t.slot[t.order[j]].k = t.slot[t.order[m]].k => j = m
    <3>1. \A j \in 1 .. n : t.order[j] \in ToSet(t.order)  BY <1>4 DEF ToSet
    <3> QED BY <1>3, <1>4, <3>1 DEF Listed, IsInjective
  <2>3. I = {i}  BY <1>7, <1>8, <2>1, <2>2
  <2>4. Without(f, key) = RemoveAt(f, i)
    <3>1. (CHOOSE j \in I : TRUE) = i  BY <2>3
    <3> QED BY <1>6, <2>3, <3>1
  <2>5. PICK S : f \in Seq(S) /\ Len(f) = n
    <3>1. f \in [1 .. n -> {f[j] : j \in 1 .. n}]
      <4>1. f = [j \in 1 .. n |-> f[j]]  BY <1>1, <1>4, <1>5 DEF FieldsOf
      <4> QED BY <4>1
    <3>2. f \in Seq({f[j] : j \in 1 .. n}) /\ Len(f) = n  BY <3>1
    <3> QED BY <3>2
  <2>6. IsInjective(f)
    <3>1. \A j \in 1 .. n : f[j][1] = t.slot[t.order[j]].k  BY <1>5
    <3> QED BY <1>5, <2>2, <3>1 DEF IsInjective
  <2>7. PICK r : r = RemoveAt(f, i)  OBVIOUS
  <2>8. /\ r \in Seq(S) /\ Len(r) = n - 1
        /\ \A j \in 1 .. n - 1 : r[j] = IF j < i THEN f[j] ELSE f[j + 1]
    <3>1. i \in DOMAIN f /\ f \in Seq(S)  BY <1>5, <2>5
    <3>2. /\ RemoveAt(f, i) \in Seq(S) /\ Len(RemoveAt(f, i)) = Len(f) - 1
          /\ \A j \in 1 .. Len(f) - 1 :
               RemoveAt(f, i)[j] = IF j < i THEN f[j] ELSE f[j + 1]
      BY ONLY <2>6, <3>1, RemoveList
    <3> QED BY ONLY <2>5, <2>7, <3>2
  <2>9. r = [j \in 1 .. n - 1 |-> r[j]]  BY <2>8
  <2>10. DOMAIN u.order = 1 .. n - 1
    <3>1. Listed(u)  BY <1>2, DeleteLists
    <3>2. DOMAIN u.order = 1 .. Len(u.order)  BY <3>1, TableFacts DEF Listed
    <3> QED BY <1>4, <2>1, <3>2 DEF CutFrom
  <2>11. ASSUME NEW j \in 1 .. n - 1
         PROVE  r[j] = <<u.slot[u.order[j]].k, M[u.slot[u.order[j]].v]>>
    <3>1. u.slot[u.order[j]] = IF j < i THEN t.slot[t.order[j]]
                                        ELSE t.slot[t.order[j + 1]]
      BY <1>4, <2>1 DEF CutFrom
    <3>2. j \in 1 .. n /\ j + 1 \in 1 .. n  OBVIOUS
    <3>3. r[j] = IF j < i THEN f[j] ELSE f[j + 1]  BY <2>8
    <3>4. CASE j < i  BY <1>5, <3>1, <3>2, <3>3, <3>4
    <3>5. CASE ~(j < i)  BY <1>5, <3>1, <3>2, <3>3, <3>5
    <3> QED BY <3>4, <3>5
  <2>12. r = FieldsOf(u, M)
    <3>1. [j \in 1 .. n - 1 |-> r[j]] =
            [j \in 1 .. n - 1 |-> <<u.slot[u.order[j]].k,
                                    M[u.slot[u.order[j]].v]>>]
      BY <2>11
    <3> QED BY <2>9, <2>10, <3>1 DEF FieldsOf
  <2> QED BY <1>1, <1>2, <2>4, <2>7, <2>12
<1> QED BY <1>9, <1>10

LEMMA ObjectAddMeans ==
  ASSUME NEW h, HeapOK(h), HeapGrows(h), NEW g, HeapOK(g), HeapGrows(g),
         NEW o \in DOMAIN h, h[o].type = "object", NotInside(h, o),
         NEW v \in 0 .. Len(h), After(v, o), NEW key \in Key,
         DOMAIN g = DOMAIN h, g[o].type = "object",
         g[o].val = ObjectAdd(h[o].val, key, v),
         \A m \in DOMAIN h : m # o =>
           g[m].type = h[m].type /\ g[m].val = h[m].val
  PROVE  /\ Meaning(g)[o] = Grown(Meaning(h)[o], "object", key, Meaning(h)[v])
         /\ \A m \in 0 .. Len(h) : m # o => Meaning(g)[m] = Meaning(h)[m]
<1>1. PICK M : M = Meaning(h)  OBVIOUS
<1>2. PICK L : L = Meaning(g)  OBVIOUS
<1>3. PICK t : t = h[o].val  OBVIOUS
<1>4. Len(h) \in Nat /\ DOMAIN h = 1 .. Len(h) /\ v \in Nat  BY HeapFacts
<1>5. /\ Good(t)
      /\ Inside(h, o) = {t.slot[t.order[i]].v : i \in DOMAIN t.order}
  BY <1>3, InsideIs
<1>6. PICK u : u = Delete(t, key)  OBVIOUS
<1>7. PICK w : w = ObjectAdd(t, key, v)  OBVIOUS
<1>8. /\ Good(w) /\ Prolongs(u, w, key, v)
  BY <1>4, <1>5, <1>6, <1>7, ObjectAddGood
<1>9. Listed(u) /\ Contents(u) \subseteq Contents(t)
  BY <1>5, <1>6, DeleteLists
<1>10. \A m \in 0 .. Len(h) : m # o => L[m] = M[m]
  <2>1. DOMAIN h \subseteq DOMAIN g  OBVIOUS
  <2>2. \A m \in DOMAIN h : m # o =>
          g[m].type = h[m].type /\ g[m].val = h[m].val
    OBVIOUS
  <2>3. \A m \in 0 .. Len(h) : m # o => Meaning(g)[m] = Meaning(h)[m]
    BY ONLY HeapOK(h), HeapGrows(h), HeapOK(g), HeapGrows(g), NotInside(h, o),
            <2>1, <2>2, OthersMean
  <2> QED BY <1>1, <1>2, <2>3
<1>11. L[v] = M[v]
  <2>1. v # o  BY <1>4 DEF After, Null
  <2> QED BY <1>10, <2>1
<1>12. PICK n \in Nat : n = Len(u.order) /\ DOMAIN u.order = 1 .. n
  BY <1>9, TableFacts DEF Listed
<1>13. DOMAIN w.order = 1 .. n + 1
  <2>1. DOMAIN w.order = 1 .. Len(w.order)  BY <1>8, TableFacts DEF Good
  <2> QED BY <1>8, <1>12, <2>1 DEF Prolongs
<1>14. ASSUME NEW i \in 1 .. n
       PROVE  /\ w.slot[w.order[i]] = u.slot[u.order[i]]
              /\ L[u.slot[u.order[i]].v] = M[u.slot[u.order[i]].v]
  <2>1. w.slot[w.order[i]] = u.slot[u.order[i]]  BY <1>8, <1>12 DEF Prolongs
  <2>2. u.slot[u.order[i]] \in Contents(t)  BY <1>9, <1>12 DEF Contents, ToSet
  <2>3. u.slot[u.order[i]].v \in Inside(h, o)
    BY <1>5, <2>2 DEF Contents, ToSet
  <2>4. u.slot[u.order[i]].v \in 0 .. Len(h) /\ u.slot[u.order[i]].v # o
    BY <2>3, InsideIs DEF NotInside
  <2> QED BY <1>10, <2>1, <2>4
<1>15. w.slot[w.order[n + 1]] = [k |-> key, v |-> v]
  BY <1>8, <1>12 DEF Prolongs
<1>16. PICK y : y = <<key, M[v]>>  OBVIOUS
<1>17. PICK a : a = FieldsOf(u, M)  OBVIOUS
<1>18. PICK b : b = FieldsOf(w, L)  OBVIOUS
<1>19. a = [i \in 1 .. n |-> a[i]] /\ b = [i \in 1 .. n + 1 |-> b[i]]
  BY <1>12, <1>13, <1>17, <1>18 DEF FieldsOf
<1>20. \A i \in 1 .. n : b[i] = a[i]
  <2> SUFFICES ASSUME NEW i \in 1 .. n PROVE b[i] = a[i]  OBVIOUS
  <2>1. i \in 1 .. n + 1  OBVIOUS
  <2>2. b[i] = <<w.slot[w.order[i]].k, L[w.slot[w.order[i]].v]>>
    BY <1>13, <1>18, <2>1 DEF FieldsOf
  <2>3. a[i] = <<u.slot[u.order[i]].k, M[u.slot[u.order[i]].v]>>
    BY <1>12, <1>17 DEF FieldsOf
  <2> QED BY <1>14, <2>2, <2>3
<1>21. b[n + 1] = y
  <2>1. n + 1 \in 1 .. n + 1  OBVIOUS
  <2>2. b[n + 1] = <<w.slot[w.order[n + 1]].k, L[w.slot[w.order[n + 1]].v]>>
    BY <1>13, <1>18, <2>1 DEF FieldsOf
  <2> QED BY <1>11, <1>15, <1>16, <2>2
<1>22. Append(a, y) = b
  <2>1. Append([i \in 1 .. n |-> a[i]], y) = [i \in 1 .. n + 1 |-> b[i]]
    BY ONLY <1>20, <1>21, n \in Nat, AppendIs
  <2> QED BY <1>19, <2>1
<1>23. M[o] = <<"object", FieldsOf(t, M)>>
  <2>1. M[o] = Told(h, M, o)  BY <1>1, MeaningIs
  <2>2. Told(h, M, o) = <<"object", FieldsOf(t, M)>>
    BY <1>3, ToldIs DEF FieldsOf
  <2> QED BY <2>1, <2>2
<1>24. L[o] = <<"object", b>>
  <2>1. L[o] = Told(g, L, o)  BY <1>2, MeaningIs
  <2>2. g[o].type = "object" /\ w = g[o].val  BY <1>3, <1>7
  <2>3. Told(g, L, o) = <<"object", b>>  BY <1>18, <2>2, ToldIs DEF FieldsOf
  <2> QED BY <2>1, <2>3
<1>25. Without(FieldsOf(t, M), key) = a  BY <1>5, <1>6, <1>17, WithoutIs
<1>26. PICK f : f = FieldsOf(t, M)  OBVIOUS
<1>27. WithElement("object", f, y) = Append(a, y)
  <2>1. y[1] = key /\ "object" # "array"  BY <1>16
  <2>2. WithElement("object", f, y) = Append(Without(f, y[1]), y)
    BY DEF WithElement
  <2> QED BY <1>25, <1>26, <2>1, <2>2
<1>28. M[o][2] = f  BY <1>23, <1>26
<1>29. L[o] = <<"object", WithElement("object", M[o][2], <<key, M[v]>>)>>
  BY <1>16, <1>22, <1>24, <1>27, <1>28
<1>30. L[o] = Grown(M[o], "object", key, M[v])  BY <1>29 DEF Grown
<1> QED BY <1>1, <1>2, <1>10, <1>30
-----------------------------------------------------------------------------
(* Steps that change no values change no meaning.                          *)
LEMMA SameMeanings ==
  ASSUME NEW h, HeapOK(h), HeapGrows(h), NEW g, HeapOK(g), HeapGrows(g),
         DOMAIN g = DOMAIN h,
         \A m \in DOMAIN h : g[m].type = h[m].type /\ g[m].val = h[m].val
  PROVE  \A m \in 0 .. Len(h) : Meaning(g)[m] = Meaning(h)[m]
<1>1. PICK R : R = DOMAIN h  OBVIOUS
<1>2. Len(h) \in Nat /\ R = 1 .. Len(h)  BY <1>1, HeapFacts
<1>3. \A m \in R : Inside(h, m) \subseteq R \cup {Null}
  <2> SUFFICES ASSUME NEW m \in R PROVE Inside(h, m) \subseteq R \cup {Null}
    OBVIOUS
  <2>1. Inside(h, m) \subseteq 0 .. Len(h)  BY <1>1, InsideIs
  <2> QED BY <1>2, <2>1 DEF Null
<1>4. R \in SUBSET (DOMAIN h) /\ R \subseteq DOMAIN g  BY <1>1
<1>5. \A m \in R \cup {Null} : Meaning(g)[m] = Meaning(h)[m]
  BY <1>1, <1>3, <1>4, MeaningKept
<1> QED BY <1>2, <1>5 DEF Null
-----------------------------------------------------------------------------
(* What has been read.  The level j of the stack is at a value of at most  *)
(* Lvl(j) levels.  One that another is above waits for an element, with x  *)
(* from those that came before; the value that l, the one on top, is at    *)
(* begins at p, and q is where the tokener is.  y is on its way.           *)
Lvl(j) == MaxDepth + 1 - j

AddTo(l) == IF l.state = "array_add" THEN "array" ELSE "object"

Waits(s, x, l, h, p, q) == Before(s, x, AddTo(l), l.name, h, p, q)

Chain(s, m, st, P) ==
  /\ P \in [1 .. Len(st) -> Positions(s)]
  /\ P[1] = From(s, 1)
  /\ \A j \in 1 .. Len(st) - 1 :
       Waits(s, m[st[j].current], st[j], Lvl(j), P[j], P[j + 1])

Reads(s, x, y, l, h, p, q) ==
  LET d == Doing(l)
  IN  /\ d = "start" => q = p
      /\ d = "finish" => Nested(s)[h][p] = [v |-> x, next |-> q]
      /\ d = "array" => AtElement(s, x, "array", h, p, q)
      /\ d = "object_field_start" => AtElement(s, x, "object", h, p, q)
      /\ d = "object_field_end" => AtColon(s, x, l.name, h, p, q)
      /\ d = "object_value" => Before(s, x, "object", l.name, h, p, q)
      /\ d \in Adds => \E i \in Positions(s) :
                         /\ Waits(s, x, l, h, p, i)
                         /\ Nested(s)[h - 1][i] = [v |-> y, next |-> q]
      /\ d = "array_sep" => BehindElement(s, x, "array", h, p, q)
      /\ d = "object_sep" => BehindElement(s, x, "object", h, p, q)

LEMMA LvlFacts ==
  ASSUME NEW j \in 1 .. MaxDepth
  PROVE  /\ Lvl(j) \in 1 .. MaxDepth /\ Lvl(j) - 1 \in 0 .. MaxDepth
         /\ Lvl(j) - 1 = Lvl(j + 1) /\ Lvl(1) = MaxDepth
         /\ j = MaxDepth => Lvl(j) - 1 = 0
BY TokenerAssumption DEF Lvl

LEMMA ChainKept ==
  ASSUME NEW s, NEW m, NEW st \in Seq(Levels), NEW P, Chain(s, m, st, P),
         NEW k, NEW t \in Seq(Levels), Len(t) = Len(st),
         \A j \in 1 .. Len(st) - 1 :
           t[j] = st[j] /\ k[st[j].current] = m[st[j].current]
  PROVE  Chain(s, k, t, P)
BY DEF Chain

Expects(s, m, st, P, q) ==
  Waits(s, m[st[Len(st)].current], st[Len(st)], Lvl(Len(st)), P[Len(st)], q)

OneMore(st, t) == Len(t) = Len(st) + 1 /\ \A j \in 1 .. Len(st) : t[j] = st[j]

LEMMA ChainLonger ==
  ASSUME NEW s, NEW m, NEW st \in Seq(Levels), Len(st) > 0, NEW P,
         Chain(s, m, st, P), NEW q \in Positions(s), Expects(s, m, st, P, q),
         NEW t \in Seq(Levels), OneMore(st, t)
  PROVE  \E Q : Chain(s, m, t, Q) /\ Q[Len(t)] = q
<1> DEFINE N == Len(st)
           Q == [j \in 1 .. N + 1 |-> IF j = N + 1 THEN q ELSE P[j]]
<1>1. /\ N \in Nat /\ N > 0
      /\ Len(t) = N + 1 /\ \A j \in 1 .. N : t[j] = st[j]
  BY DEF OneMore
<1>2. /\ P \in [1 .. N -> Positions(s)] /\ P[1] = From(s, 1)
      /\ \A j \in 1 .. N - 1 :
           Waits(s, m[st[j].current], st[j], Lvl(j), P[j], P[j + 1])
  BY DEF Chain
<1>3. Waits(s, m[st[N].current], st[N], Lvl(N), P[N], q)  BY DEF Expects
<1> HIDE DEF N
<1>4. /\ Q[N + 1] = q /\ \A j \in 1 .. N : Q[j] = P[j]
      /\ Q \in [1 .. N + 1 -> Positions(s)]
  <2>1. N + 1 \in 1 .. N + 1 /\ \A j \in 1 .. N : j \in 1 .. N + 1 /\ j # N + 1
    BY <1>1
  <2>2. \A j \in 1 .. N + 1 : j = N + 1 \/ j \in 1 .. N  BY <1>1
  <2>3. \A j \in 1 .. N : P[j] \in Positions(s)  BY <1>2
  <2> QED BY <2>1, <2>2, <2>3
<1> HIDE DEF Q
<1>5. \A j \in 1 .. N :
        Waits(s, m[t[j].current], t[j], Lvl(j), Q[j], Q[j + 1])
  <2> SUFFICES ASSUME NEW j \in 1 .. N
               PROVE  Waits(s, m[t[j].current], t[j], Lvl(j), Q[j], Q[j + 1])
    OBVIOUS
  <2>1. t[j] = st[j] /\ Q[j] = P[j]  BY <1>1, <1>4
  <2>2. CASE j = N  BY <1>3, <1>4, <2>1, <2>2
  <2>3. CASE j # N
    <3>1. j \in 1 .. N - 1 /\ j + 1 \in 1 .. N  BY <1>1, <2>3
    <3> QED BY <1>2, <1>4, <2>1, <3>1
  <2> QED BY <2>2, <2>3
<1>6. 1 \in 1 .. N /\ (N + 1) - 1 = N  BY <1>1
<1>7. Chain(s, m, t, Q)  BY <1>1, <1>2, <1>4, <1>5, <1>6 DEF Chain
<1> QED BY <1>1, <1>4, <1>7 DEF N

LEMMA ChainShorter ==
  ASSUME NEW s, NEW m, NEW st \in Seq(Levels), Len(st) > 1, NEW P,
         Chain(s, m, st, P), NEW t \in Seq(Levels), OneMore(t, st)
  PROVE  \E Q : /\ Chain(s, m, t, Q) /\ Expects(s, m, t, Q, P[Len(st)])
                /\ P[Len(st)] \in Positions(s)
<1> DEFINE N == Len(st)
           Q == [j \in 1 .. N - 1 |-> P[j]]
<1>1. N \in Nat /\ N > 1  OBVIOUS
<1>2. /\ P \in [1 .. N -> Positions(s)] /\ P[1] = From(s, 1)
      /\ \A j \in 1 .. N - 1 :
           Waits(s, m[st[j].current], st[j], Lvl(j), P[j], P[j + 1])
  BY DEF Chain
<1>3. Len(t) = N - 1 /\ \A j \in 1 .. N - 1 : t[j] = st[j]  BY DEF OneMore
<1> HIDE DEF N
<1>4. /\ Q \in [1 .. N - 1 -> Positions(s)] /\ \A j \in 1 .. N - 1 : Q[j] = P[j]
      /\ P[N] \in Positions(s)
  <2>1. N \in 1 .. N /\ \A j \in 1 .. N - 1 : j \in 1 .. N  BY <1>1
  <2> QED BY <1>2, <2>1
<1>5. \A j \in 1 .. (N - 1) - 1 : j \in 1 .. N - 1 /\ j + 1 \in 1 .. N - 1
  BY <1>1
<1>6. 1 \in 1 .. N - 1 /\ N - 1 \in 1 .. N - 1 /\ (N - 1) + 1 = N  BY <1>1
<1> HIDE DEF Q
<1>7. Chain(s, m, t, Q)  BY <1>2, <1>3, <1>4, <1>5, <1>6 DEF Chain
<1>8. Waits(s, m[t[N - 1].current], t[N - 1], Lvl(N - 1), Q[N - 1], P[N])
  BY <1>2, <1>3, <1>4, <1>6
<1> QED BY <1>3, <1>4, <1>7, <1>8 DEF N, Expects

(* Where no value is, there is none around it either.                      *)
LEMMA ChainFails ==
  ASSUME NEW s \in Seq(Char), NEW m, NEW st \in Seq(Levels), st # << >>,
         Len(st) <= MaxDepth, NEW P, Chain(s, m, st, P),
         Nested(s)[Lvl(Len(st))][P[Len(st)]] = NoValue
  PROVE  FirstValue(s) = NoValue
<1> DEFINE N == Len(st)
           S == {n \in Nat : n < N => Nested(s)[Lvl(N - n)][P[N - n]] = NoValue}
<1>1. N \in Nat /\ N > 0 /\ N <= MaxDepth /\ MaxDepth \in Nat
  BY TokenerAssumption
<1>2. /\ P \in [1 .. N -> Positions(s)] /\ P[1] = From(s, 1)
      /\ \A j \in 1 .. N - 1 :
           Waits(s, m[st[j].current], st[j], Lvl(j), P[j], P[j + 1])
  BY DEF Chain
<1>3. Nested(s)[Lvl(N)][P[N]] = NoValue  OBVIOUS
<1> HIDE DEF N
<1>4. 0 \in S
  <2>1. N - 0 = N  BY <1>1
  <2> QED BY <1>3, <2>1
<1>5. ASSUME NEW n \in Nat, n \in S PROVE n + 1 \in S
  <2> SUFFICES ASSUME n + 1 < N
               PROVE  Nested(s)[Lvl(N - (n + 1))][P[N - (n + 1)]] = NoValue
    OBVIOUS
  <2>1. PICK j : j = N - (n + 1)  OBVIOUS
  <2>2. j \in 1 .. N - 1 /\ j \in 1 .. N /\ j \in 1 .. MaxDepth /\ j + 1 = N - n /\ n < N
    BY <1>1, <2>1
  <2>3. Nested(s)[Lvl(j + 1)][P[j + 1]] = NoValue  BY <1>5, <2>2
  <2>4. PICK h : h = Lvl(j)  OBVIOUS
  <2>5. h \in 1 .. MaxDepth /\ h - 1 = Lvl(j + 1)  BY <2>2, <2>4, LvlFacts
  <2>6. PICK p \in Positions(s) : p = P[j]  BY <1>2, <2>2
  <2>7. PICK q : q = P[j + 1]  OBVIOUS
  <2>8. PICK l : l = st[j]  OBVIOUS
  <2>9. PICK x : x = m[st[j].current]  OBVIOUS
  <2>10. PICK type \in Types : type = AddTo(l)  BY DEF AddTo, Types
  <2>11. PICK k : k = l.name  OBVIOUS
  <2>12. Before(s, x, type, k, h, p, q)
    <3>1. Waits(s, m[st[j].current], st[j], Lvl(j), P[j], P[j + 1])
      BY <1>2, <2>2
    <3>2. Waits(s, x, l, h, p, q)  BY <2>4, <2>6, <2>7, <2>8, <2>9, <3>1
    <3> QED BY <2>10, <2>11, <3>2 DEF Waits
  <2>13. PICK V : V = Nested(s)[h - 1]  OBVIOUS
  <2>14. /\ q \in Positions(s)
         /\ V[q] = NoValue => Nested(s)[h][p] = NoValue
         /\ \A y, r : V[q] = [v |-> y, next |-> r] /\ r # 0 =>
              BehindElement(s, Grown(x, type, k, y), type, h, p, r)
    <3>1. h \in 1 .. MaxDepth  BY <2>5
    <3> QED BY ONLY <2>12, <2>13, <3>1, BeforeFacts, s \in Seq(Char),
                p \in Positions(s), type \in Types
  <2>15. V[q] = NoValue  BY <2>3, <2>5, <2>7, <2>13
  <2>16. Nested(s)[h][p] = NoValue  BY <2>14, <2>15
  <2> QED BY <2>1, <2>4, <2>6, <2>16
<1> HIDE DEF S
<1>6. Nat \subseteq S  BY <1>4, <1>5, SetInduction
<1>7. N - 1 \in Nat /\ N - 1 < N /\ N - (N - 1) = 1  BY <1>1
<1>8. N - 1 \in S  BY <1>6, <1>7
<1>9. Nested(s)[Lvl(1)][P[1]] = NoValue  BY <1>7, <1>8 DEF S
<1>10. Lvl(1) = MaxDepth  BY <1>1 DEF Lvl
<1> QED BY <1>2, <1>9, <1>10 DEF FirstValue
-----------------------------------------------------------------------------
(* The invariant: what has been read without an error is the beginning of  *)
(* a value, and the levels have what it means.                             *)
TopReads(p) ==
  Reads(text, Meaning(heap)[top.current], Meaning(heap)[obj], top,
        Lvl(Len(stack)), p, From(text, pos))

ReadsParse ==
  /\ err = "success" /\ top.state \notin Spaces \ {"eatws"}
  /\ top.state # "eatws" => At(text, pos) # "nl"
  /\ \E P : /\ Chain(text, Meaning(heap), stack, P)
            /\ TopReads(P[Len(stack)])

Returns(n) ==
  IF FirstValue(text) = NoValue
  THEN err # "success"
  ELSE err = "success" /\ Meaning(heap)[n] = FirstValue(text).v

ReadsInv ==
  NoComment =>
  /\ phase = "parse" => ReadsParse
  /\ phase = "out" => Returns(top.current)
  /\ phase = "done" => Returns(ret) /\ (err # "success" => ret = Null)

LEMMA PosFacts ==
  ASSUME IInv, NoComment
  PROVE  /\ text \in Seq(Char) /\ pos \in Positions(text) /\ c = At(text, pos)
         /\ From(text, pos) \in Positions(text) /\ c # "slash"
         /\ c # "nl" => From(text, pos) = pos
         /\ c = "nl" => From(text, pos + 1) = From(text, pos)
         /\ From(text, pos + 1) = Behind(text, pos)
<1>1. text \in Texts /\ pos \in 1 .. Len(text) + 1
  BY TypeIs DEF IInv, TypeRest
<1>2. text \in Seq(Char)  BY <1>1, TokenerAssumption
<1>3. pos \in Positions(text)  BY <1>1 DEF Positions
<1>4. c = At(text, pos)  BY DEF c, At
<1>5. c # "slash"
  <2>1. CASE pos > Len(text)  BY <2>1 DEF c
  <2>2. CASE ~(pos > Len(text))
    <3>1. PICK s \in Seq(Char) : s = text  BY <1>2
    <3>2. pos \in DOMAIN s  BY <1>1, <2>2, <3>1
    <3>3. c \in ToSet(text)  BY <2>2, <3>1, <3>2 DEF c, ToSet
    <3> QED BY <3>3 DEF NoComment
  <2> QED BY <2>1, <2>2
<1>6. /\ From(text, pos) \in Positions(text)
      /\ At(text, pos) # "nl" => From(text, pos) = pos
      /\ At(text, pos) = "nl" => From(text, pos) = From(text, pos + 1)
  BY ONLY <1>2, <1>3, FromFacts
<1>7. From(text, pos + 1) = Behind(text, pos)  BY DEF Behind
<1> QED BY <1>2, <1>3, <1>4, <1>5, <1>6, <1>7

LEMMA ReadsFacts ==
  ASSUME IInv, ReadsInv, NoComment, phase = "parse"
  PROVE  /\ err = "success" /\ top.state \notin Spaces \ {"eatws"}
         /\ top.state # "eatws" => At(text, pos) # "nl"
         /\ Len(stack) \in 1 .. MaxDepth /\ Lvl(Len(stack)) \in 1 .. MaxDepth
         /\ \E P : /\ Chain(text, Meaning(heap), stack, P)
                   /\ P[Len(stack)] \in Positions(text)
                   /\ TopReads(P[Len(stack)])
<1>1. ReadsParse  BY DEF ReadsInv
<1>2. Len(stack) \in 1 .. MaxDepth
  BY TopFacts, TypeIs, TokenerAssumption DEF IInv, TypeRest
<1>3. Lvl(Len(stack)) \in 1 .. MaxDepth  BY <1>2, LvlFacts
<1>4. PICK P : /\ Chain(text, Meaning(heap), stack, P)
               /\ TopReads(P[Len(stack)])
  BY <1>1 DEF ReadsParse
<1>5. P[Len(stack)] \in Positions(text)
  <2>1. P \in [1 .. Len(stack) -> Positions(text)]  BY <1>4 DEF Chain
  <2>2. Len(stack) \in 1 .. Len(stack)  BY <1>2
  <2> QED BY <2>1, <2>2
<1> QED BY <1>1, <1>2, <1>3, <1>4, <1>5 DEF ReadsParse

(* A step that stays at the level on top, ...                              *)
LEMMA LevelReads ==
  ASSUME IInv, ReadsInv, NoComment, phase = "parse",
         text' = text, phase' = "parse", err' = err,
         NEW l \in Levels, stack' = WithTop(stack, l),
         l.state \notin Spaces \ {"eatws"},
         l.state # "eatws" => At(text, pos') # "nl",
         \A j \in 1 .. Len(stack) - 1 :
           Meaning(heap')[stack[j].current] = Meaning(heap)[stack[j].current],
         \A p \in Positions(text) : TopReads(p) =>
           Reads(text, Meaning(heap')[l.current], Meaning(heap')[obj'], l,
                 Lvl(Len(stack)), p, From(text, pos'))
  PROVE  ReadsInv'
<1>1. PICK P : /\ Chain(text, Meaning(heap), stack, P)
               /\ P[Len(stack)] \in Positions(text)
               /\ TopReads(P[Len(stack)])
  BY ReadsFacts
<1>2. /\ stack \in Seq(Levels) /\ stack # << >>  BY TopFacts
<1>3. PICK t : t = WithTop(stack, l)  OBVIOUS
<1>4. /\ t \in Seq(Levels) /\ Len(t) = Len(stack) /\ t[Len(stack)] = l
      /\ \A j \in 1 .. Len(stack) - 1 : t[j] = stack[j]
  <2>1. /\ WithTop(stack, l) \in Seq(Levels)
        /\ Len(WithTop(stack, l)) = Len(stack)
        /\ WithTop(stack, l)[Len(stack)] = l
        /\ \A j \in 1 .. Len(stack) - 1 : WithTop(stack, l)[j] = stack[j]
    BY ONLY <1>2, l \in Levels, TopIs
  <2> QED BY ONLY <1>3, <2>1
<1>5. PICK k : k = Meaning(heap')  OBVIOUS
<1>6. PICK m : m = Meaning(heap)  OBVIOUS
<1>7. \A j \in 1 .. Len(stack) - 1 :
        t[j] = stack[j] /\ k[stack[j].current] = m[stack[j].current]
  BY <1>4, <1>5, <1>6
<1>8. Chain(text, m, stack, P)  BY <1>1, <1>6
<1>9. Chain(text, k, t, P)
  <2>1. Len(t) = Len(stack) /\ t \in Seq(Levels) /\ stack \in Seq(Levels)
    BY <1>2, <1>4
  <2> QED BY ONLY <1>7, <1>8, <2>1, ChainKept
<1>10. Chain(text', Meaning(heap'), stack', P)  BY <1>3, <1>5, <1>9
<1>11. /\ stack' = t /\ top' = l /\ Len(stack') = Len(stack)
  BY <1>3, <1>4 DEF top
<1>12. TopReads(P[Len(stack)])'  BY <1>1, <1>11 DEF TopReads
<1>13. ReadsParse'
  <2>1. err = "success"  BY ReadsFacts
  <2> QED BY <1>10, <1>11, <1>12, <2>1 DEF ReadsParse
<1> QED BY <1>13 DEF ReadsInv

(* ... one that fails, ...                                                 *)
LEMMA FailReads ==
  ASSUME IInv, ReadsInv, NoComment, phase = "parse",
         text' = text, NEW e, e # "success", Fail(e),
         \A p \in Positions(text) : TopReads(p) =>
           Nested(text)[Lvl(Len(stack))][p] = NoValue
  PROVE  ReadsInv'
<1>1. PICK P : /\ Chain(text, Meaning(heap), stack, P)
               /\ P[Len(stack)] \in Positions(text)
               /\ TopReads(P[Len(stack)])
  BY ReadsFacts
<1>2. Nested(text)[Lvl(Len(stack))][P[Len(stack)]] = NoValue  BY <1>1
<1>3. FirstValue(text) = NoValue
  <2>1. /\ stack \in Seq(Levels) /\ stack # << >> /\ Len(stack) <= MaxDepth
        /\ text \in Seq(Char)
    BY TopFacts, PosFacts, TypeIs DEF IInv, TypeRest
  <2>2. PICK m : m = Meaning(heap)  OBVIOUS
  <2>3. Chain(text, m, stack, P)  BY <1>1, <2>2
  <2> QED BY ONLY <1>2, <2>1, <2>3, ChainFails
<1>4. phase' = "out" /\ err' # "success"  BY DEF Fail
<1> QED BY <1>3, <1>4 DEF ReadsInv, Returns

(* ... one that goes deeper, ...                                           *)
LEMMA NewLevelReads ==
  ASSUME NEW s, NEW x, NEW y, NEW h, NEW p
  PROVE  Reads(s, x, y, NewLevel, h, p, p)
<1>1. Doing(NewLevel) = "start"  BY DEF Doing, NewLevel, Spaces
<1>2. PICK d : d = Doing(NewLevel)  OBVIOUS
<1>3. d = "start" /\ d \notin Adds  BY <1>1, <1>2 DEF Adds
<1> QED BY <1>2, <1>3 DEF Reads

LEMMA DeepEnough ==
  ASSUME IInv, NoComment, phase = "parse", TooDeep
  PROVE  Lvl(Len(stack)) - 1 = 0
<1>1. /\ Len(stack) \in Nat /\ Len(stack) > 0 /\ Len(stack) <= MaxDepth
      /\ MaxDepth \in Nat
  BY TopFacts, TypeIs, TokenerAssumption DEF IInv, TypeRest
<1>2. PICK n \in Nat : n = Len(stack)  BY <1>1
<1>3. n - 1 >= MaxDepth - 1  BY <1>2 DEF TooDeep, depth
<1>4. n = MaxDepth  BY <1>1, <1>2, <1>3
<1> QED BY <1>1, <1>2, <1>4 DEF Lvl

LEMMA DeeperReads ==
  ASSUME IInv, ReadsInv, NoComment, phase = "parse",
         UNCHANGED <<text, heap>>, NEW a \in Adds, Deeper(a),
         NEW type, type = IF a = "array_add" THEN "array" ELSE "object",
         \A p \in Positions(text) : TopReads(p) =>
           Before(text, Meaning(heap)[top.current], type, top.name,
                  Lvl(Len(stack)), p, From(text, pos))
  PROVE  ReadsInv'
<1>1. PICK P : /\ Chain(text, Meaning(heap), stack, P)
               /\ P[Len(stack)] \in Positions(text)
               /\ TopReads(P[Len(stack)])
  BY ReadsFacts
<1>2. /\ stack \in Seq(Levels) /\ stack # << >> /\ top \in Levels
      /\ text \in Seq(Char) /\ From(text, pos) \in Positions(text)
      /\ Lvl(Len(stack)) \in 1 .. MaxDepth
  BY TopFacts, PosFacts, ReadsFacts
<1>3. type \in Types  BY DEF Types
<1>4. CASE TooDeep
  <2>1. Fail("depth") /\ "depth" # "success"  BY <1>4 DEF Deeper
  <2>2. ASSUME NEW p \in Positions(text), TopReads(p)
        PROVE  Nested(text)[Lvl(Len(stack))][p] = NoValue
    <3>1. PICK h \in 1 .. MaxDepth : h = Lvl(Len(stack))  BY <1>2
    <3>2. PICK x : x = Meaning(heap)[top.current]  OBVIOUS
    <3>3. PICK k : k = top.name  OBVIOUS
    <3>4. PICK q : q = From(text, pos)  OBVIOUS
    <3>5. PICK V : V = Nested(text)[h - 1]  OBVIOUS
    <3>6. Before(text, x, type, k, h, p, q)  BY <2>2, <3>1, <3>2, <3>3, <3>4
    <3>7. /\ q \in Positions(text)
          /\ V[q] = NoValue => Nested(text)[h][p] = NoValue
          /\ \A y, r : V[q] = [v |-> y, next |-> r] /\ r # 0 =>
               BehindElement(text, Grown(x, type, k, y), type, h, p, r)
      <4>1. text \in Seq(Char)  BY <1>2
      <4> QED BY ONLY <1>3, <3>5, <3>6, <4>1, BeforeFacts,
                  h \in 1 .. MaxDepth, p \in Positions(text)
    <3>8. V = Nothing(text)
      <4>1. Lvl(Len(stack)) - 1 = 0  BY <1>4, DeepEnough
      <4>2. V = Nested(text)[0]  BY <3>1, <3>5, <4>1
      <4> QED BY <4>2, NestedIs
    <3>9. V[q] = NoValue  BY <3>7, <3>8 DEF Nothing
    <3> QED BY <3>1, <3>7, <3>9
  <2> QED BY <2>1, <2>2, FailReads
<1>5. CASE ~TooDeep
  <2>1. PICK l : l = [state |-> a, saved |-> top.saved, current |-> top.current,
                      name |-> top.name]
    OBVIOUS
  <2>2. l \in Levels  BY <1>2, <2>1, LevelIs, LevelTo DEF Adds, States
  <2>3. [top EXCEPT !.state = a] = l  BY <1>2, <2>1, LevelIs
  <2>4. PICK s : s = WithTop(stack, l)  OBVIOUS
  <2>5. stack' = Append(s, NewLevel) /\ pos' = pos /\ err' = err /\ phase' = phase
    <3>1. /\ stack' = Append([stack EXCEPT ![Len(stack)].state = a], NewLevel)
          /\ pos' = pos /\ err' = err /\ phase' = phase
      BY <1>5 DEF Deeper, Redo
    <3>2. [stack EXCEPT ![Len(stack)].state = a]
            = [stack EXCEPT ![Len(stack)] = [top EXCEPT !.state = a]]
      BY DEF top
    <3> QED BY <2>3, <2>4, <3>1, <3>2 DEF WithTop
  <2>6. /\ s \in Seq(Levels) /\ s # << >> /\ Len(s) = Len(stack)
        /\ s[Len(stack)] = l
        /\ \A j \in 1 .. Len(stack) - 1 : s[j] = stack[j]
    <3>1. /\ WithTop(stack, l) \in Seq(Levels)
          /\ Len(WithTop(stack, l)) = Len(stack)
          /\ WithTop(stack, l)[Len(stack)] = l
          /\ \A j \in 1 .. Len(stack) - 1 : WithTop(stack, l)[j] = stack[j]
      <4>1. stack \in Seq(Levels) /\ stack # << >>  BY <1>2
      <4> QED BY ONLY <2>2, <4>1, TopIs
    <3>2. Len(s) = Len(stack) /\ Len(stack) > 0  BY <2>4, <3>1, TopFacts
    <3>3. s # << >>  BY <3>2
    <3> QED BY ONLY <2>4, <3>1, <3>3
  <2>7. PICK m : m = Meaning(heap)  OBVIOUS
  <2>8. Chain(text, m, s, P)
    <3>1. Chain(text, m, stack, P)  BY <1>1, <2>7
    <3>2. \A j \in 1 .. Len(stack) - 1 :
            s[j] = stack[j] /\ m[stack[j].current] = m[stack[j].current]
      BY <2>6
    <3>3. s \in Seq(Levels) /\ Len(s) = Len(stack) /\ stack \in Seq(Levels)
      BY <1>2, <2>6
    <3> QED BY ONLY <3>1, <3>2, <3>3, ChainKept
  <2>9. PICK q \in Positions(text) : q = From(text, pos)  BY <1>2
  <2>10. Expects(text, m, s, P, q)
    <3>1. Before(text, m[top.current], type, top.name, Lvl(Len(stack)),
                 P[Len(stack)], q)
      BY <1>1, <2>7, <2>9
    <3>2. AddTo(l) = type /\ l.name = top.name /\ l.current = top.current
      BY <2>1 DEF AddTo
    <3>3. s[Len(s)] = l /\ Len(s) = Len(stack)  BY <2>6
    <3>4. Waits(text, m[l.current], l, Lvl(Len(stack)), P[Len(stack)], q)
      BY <3>1, <3>2 DEF Waits
    <3> QED BY <3>3, <3>4 DEF Expects
  <2>11. NewLevel \in Levels  BY DEF NewLevel, Levels, States, Saved, Null
  <2>12. PICK n \in Levels : n = NewLevel  BY <2>11
  <2>13. PICK t : t = Append(s, n)  OBVIOUS
  <2>14. /\ t \in Seq(Levels) /\ Len(t) = Len(s) + 1 /\ t[Len(s) + 1] = n
         /\ \A j \in 1 .. Len(s) : t[j] = s[j]
    <3>1. s \in Seq(Levels) /\ s # << >>  BY <2>6
    <3>2. /\ Append(s, n) \in Seq(Levels) /\ Len(Append(s, n)) = Len(s) + 1
          /\ Append(s, n)[Len(s) + 1] = n
          /\ \A j \in 1 .. Len(s) : Append(s, n)[j] = s[j]
      BY ONLY <3>1, n \in Levels, StackMoves
    <3> QED BY ONLY <2>13, <3>2
  <2>15. PICK Q : Chain(text, m, t, Q) /\ Q[Len(t)] = q
    <3>1. s \in Seq(Levels) /\ Len(s) > 0  BY <2>6, TopFacts
    <3>2. t \in Seq(Levels) /\ OneMore(s, t)  BY <2>14 DEF OneMore
    <3> QED BY ONLY <2>8, <2>10, <3>1, <3>2, ChainLonger, q \in Positions(text)
  <2>16. stack' = t /\ top' = n
    <3>1. stack' = t  BY <2>5, <2>12, <2>13
    <3> QED BY <2>14, <3>1 DEF top
  <2>17. TopReads(Q[Len(stack)])'
    <3>1. Q[Len(stack')] = q /\ From(text', pos') = q
      BY <2>5, <2>9, <2>15, <2>16
    <3>2. Reads(text', Meaning(heap')[top'.current], Meaning(heap')[obj'], n,
                Lvl(Len(stack')), q, q)
      BY <2>12, NewLevelReads
    <3> QED BY <2>16, <3>1, <3>2 DEF TopReads
  <2>18. Chain(text', Meaning(heap'), stack', Q)  BY <2>7, <2>15, <2>16
  <2>19. ReadsParse'
    <3>1. err = "success"  BY ReadsFacts
    <3>2. n.state = "eatws"  BY <2>12 DEF NewLevel
    <3>3. /\ err' = "success" /\ top'.state \notin Spaces \ {"eatws"}
          /\ top'.state = "eatws"
      BY <2>5, <2>16, <3>1, <3>2
    <3> QED BY <2>17, <2>18, <3>3 DEF ReadsParse
  <2> QED BY <2>5, <2>19 DEF ReadsInv
<1> QED BY <1>4, <1>5

(* ... one that comes back with a value, or has the first one, ...         *)
LEMMA FinishHas ==
  ASSUME NEW p, top.state = "finish", TopReads(p)
  PROVE  Nested(text)[Lvl(Len(stack))][p]
           = [v |-> Meaning(heap)[top.current], next |-> From(text, pos)]
<1>1. Doing(top) = "finish"  BY DEF Doing, Spaces
<1> QED BY <1>1 DEF TopReads, Reads

LEMMA FinishReads ==
  ASSUME IInv, IInv', OrderInv, OrderInv', ReadsInv, NoComment, Finish
  PROVE  ReadsInv'
<1>1. /\ phase = "parse" /\ top.state = "finish"
      /\ text' = text /\ pos' = pos /\ err' = err
  BY DEF Finish, In
<1>2. PICK P : /\ Chain(text, Meaning(heap), stack, P)
               /\ P[Len(stack)] \in Positions(text)
               /\ TopReads(P[Len(stack)])
  BY <1>1, ReadsFacts
<1>3. /\ stack \in Seq(Levels) /\ stack # << >> /\ Len(stack) \in Nat
      /\ Len(stack) > 0 /\ top.current \in 0 .. Len(heap)
      /\ From(text, pos) \in Positions(text) /\ err = "success"
      /\ At(text, pos) # "nl" /\ Len(stack) \in 1 .. MaxDepth
  BY <1>1, TopFacts, PosFacts, ReadsFacts
<1>4. PICK m : m = Meaning(heap)  OBVIOUS
<1>5. PICK q \in Positions(text) : q = From(text, pos)  BY <1>3
<1>6. PICK p : p = P[Len(stack)]  OBVIOUS
<1>7. Nested(text)[Lvl(Len(stack))][p] = [v |-> m[top.current], next |-> q]
  BY <1>1, <1>2, <1>4, <1>5, <1>6, FinishHas
<1>8. CASE depth = 0
  <2>1. phase' = "out" /\ stack' = stack /\ heap' = heap  BY <1>8 DEF Finish
  <2>2. Len(stack) = 1
    <3>1. PICK n \in Nat : n = Len(stack)  BY <1>3
    <3>2. n - 1 = 0  BY <1>8, <3>1 DEF depth
    <3>3. n = 1  BY ONLY <3>2, n \in Nat
    <3> QED BY <3>1, <3>3
  <2>3. p = From(text, 1)  BY <1>2, <1>6, <2>2 DEF Chain
  <2>4. Lvl(1) = MaxDepth  BY <1>3, <2>2, LvlFacts
  <2>5. FirstValue(text) = [v |-> m[top.current], next |-> q]
    BY <1>7, <2>2, <2>3, <2>4 DEF FirstValue
  <2>6. q # 0  BY <1>5 DEF Positions
  <2>7. FirstValue(text) # NoValue /\ FirstValue(text).v = m[top.current]
    <3>1. PICK v : v = m[top.current]  OBVIOUS
    <3>2. [v |-> v, next |-> q] # NoValue  BY <2>6, SomeValue
    <3> QED BY <2>5, <3>1, <3>2
  <2>8. top' = top  BY <2>1 DEF top
  <2>9. Returns(top.current)'
    BY <1>1, <1>3, <1>4, <2>1, <2>7, <2>8 DEF Returns
  <2> QED BY <2>1, <2>9 DEF ReadsInv
<1>9. CASE depth # 0
  <2>1. /\ obj' = top.current /\ stack' = Front(stack) /\ phase' = phase
        /\ heap' = Puts(Get(heap, top.current), <<top.current>>)
    BY <1>9 DEF Finish, Put
  <2>2. Len(stack) > 1
    <3>1. PICK k : k = Len(stack)  OBVIOUS
    <3>2. k \in Nat /\ k > 0 /\ k - 1 # 0  BY <1>3, <1>9, <3>1 DEF depth
    <3>3. k > 1  BY ONLY <3>2
    <3> QED BY <3>1, <3>3
  <2>3. /\ DOMAIN heap' = DOMAIN heap
        /\ \A n \in DOMAIN heap : /\ heap'[n].type = heap[n].type
                                  /\ heap'[n].val = heap[n].val
    <3>1. Way(stack, phase, obj) = Null  BY <1>1 DEF Way, top, Adds
    <3>2. phase # "done"  BY <1>1
    <3>3. PICK n : n = top.current  OBVIOUS
    <3>4. PICK work : work = <<n>>  OBVIOUS
    <3>5. heap' = Puts(Get(heap, n), work)  BY <2>1, <3>3, <3>4
    <3> QED BY <3>1, <3>2, <3>3, <3>5, PassedOn
  <2>4. PICK k : k = Meaning(heap')  OBVIOUS
  <2>5. \A n \in 0 .. Len(heap) : k[n] = m[n]
    <3>1. PICK g : g = heap'  OBVIOUS
    <3>2. HeapOK(heap) /\ HeapGrows(heap) /\ HeapOK(g) /\ HeapGrows(g)
      BY <3>1 DEF IInv, OrderInv
    <3>3. /\ DOMAIN g = DOMAIN heap
          /\ \A n \in DOMAIN heap : g[n].type = heap[n].type /\ g[n].val = heap[n].val
      BY <2>3, <3>1
    <3>4. \A n \in 0 .. Len(heap) : Meaning(g)[n] = Meaning(heap)[n]
      BY ONLY <3>2, <3>3, SameMeanings
    <3> QED BY <1>4, <2>4, <3>1, <3>4
  <2>6. PICK t : t = Front(stack)  OBVIOUS
  <2>7. /\ t \in Seq(Levels) /\ Len(t) = Len(stack) - 1
        /\ \A j \in 1 .. Len(stack) - 1 : t[j] = stack[j]
    <3>1. PICK l \in Levels : l = NewLevel
      BY DEF NewLevel, Levels, States, Saved, Null
    <3>2. stack \in Seq(Levels) /\ stack # << >>  BY <1>3
    <3>3. /\ Front(stack) \in Seq(Levels) /\ Len(Front(stack)) = Len(stack) - 1
          /\ \A j \in 1 .. Len(stack) - 1 : Front(stack)[j] = stack[j]
      BY ONLY <3>2, l \in Levels, StackMoves
    <3> QED BY ONLY <2>6, <3>3
  <2>8. /\ OneMore(t, stack) /\ Len(t) \in Nat /\ Len(t) > 0 /\ DOMAIN t = 1 .. Len(t)
        /\ Len(stack) = Len(t) + 1
    <3>1. PICK n \in Nat : n = Len(stack) /\ n > 1  BY <1>3, <2>2
    <3>2. Len(t) = n - 1 /\ n = (n - 1) + 1  BY <2>7, <3>1
    <3>3. n - 1 \in Nat /\ n - 1 > 0  BY <3>1
    <3> QED BY <2>7, <3>1, <3>2, <3>3 DEF OneMore
  <2>9. PICK Q : /\ Chain(text, m, t, Q) /\ Expects(text, m, t, Q, p)
                 /\ p \in Positions(text)
    <3>1. Chain(text, m, stack, P) /\ stack \in Seq(Levels) /\ t \in Seq(Levels)
          /\ OneMore(t, stack)
      BY <1>2, <1>3, <1>4, <2>7, <2>8
    <3>2. PICK Q : /\ Chain(text, m, t, Q) /\ Expects(text, m, t, Q, P[Len(stack)])
                   /\ P[Len(stack)] \in Positions(text)
      BY ONLY <2>2, <3>1, ChainShorter
    <3> QED BY <1>6, <3>2
  <2>10. \A j \in DOMAIN t : k[t[j].current] = m[t[j].current]
    <3> SUFFICES ASSUME NEW j \in DOMAIN t
                 PROVE  k[t[j].current] = m[t[j].current]
      OBVIOUS
    <3>1. j \in DOMAIN stack /\ t[j] = stack[j]  BY <1>3, <2>7, <2>8
    <3>2. stack[j].current \in 0 .. Len(heap)  BY <3>1 DEF IInv, StackOK
    <3> QED BY <2>5, <3>1, <3>2
  <2>11. Chain(text, k, t, Q)
    <3>1. \A j \in 1 .. Len(t) - 1 : t[j] = t[j] /\ k[t[j].current] = m[t[j].current]
      <4> SUFFICES ASSUME NEW j \in 1 .. Len(t) - 1
                   PROVE  j \in DOMAIN t
        BY <2>10
      <4> QED BY <2>8
    <3>2. Len(t) = Len(t) /\ t \in Seq(Levels) /\ Chain(text, m, t, Q)
      BY <2>7, <2>9
    <3> QED BY ONLY <3>1, <3>2, ChainKept
  <2>12. PICK l : l = t[Len(t)]  OBVIOUS
  <2>13. Waits(text, k[l.current], l, Lvl(Len(t)), Q[Len(t)], p)
    <3>1. Len(t) \in DOMAIN t  BY <2>8
    <3>2. k[l.current] = m[l.current]  BY <2>10, <2>12, <3>1
    <3> QED BY <2>9, <2>12, <3>2 DEF Expects
  <2>14. l.state \in Adds
    <3>1. Len(t) \in DOMAIN stack /\ Len(t) # Len(stack) /\ l = stack[Len(t)]
      BY <1>3, <2>7, <2>8, <2>12
    <3> QED BY <3>1 DEF IInv, StackOK
  <2>15. Nested(text)[Lvl(Len(t)) - 1][p] = [v |-> k[top.current], next |-> q]
    <3>1. Lvl(Len(t)) - 1 = Lvl(Len(stack))
      <4>1. Len(t) \in 1 .. MaxDepth
        <5>1. PICK n \in Nat : n = Len(t)  BY <2>8
        <5>2. n > 0 /\ n + 1 <= MaxDepth /\ MaxDepth \in Nat
          BY <1>3, <2>8, <5>1, TokenerAssumption
        <5>3. n \in 1 .. MaxDepth  BY ONLY <5>2, n \in Nat
        <5> QED BY <5>1, <5>3
      <4> QED BY <2>8, <4>1, LvlFacts
    <3> QED BY <1>3, <1>7, <2>5, <3>1
  <2>16. Reads(text, k[l.current], k[top.current], l, Lvl(Len(t)), Q[Len(t)], q)
    <3>1. PICK d : d = Doing(l)  OBVIOUS
    <3>2. d \in Adds /\ d \notin {"start", "finish", "array", "object_field_start",
                                  "object_field_end", "object_value", "array_sep",
                                  "object_sep"}
      BY <2>14, <3>1 DEF Doing, Spaces, Adds
    <3>3. \E i \in Positions(text) :
            /\ Waits(text, k[l.current], l, Lvl(Len(t)), Q[Len(t)], i)
            /\ Nested(text)[Lvl(Len(t)) - 1][i] = [v |-> k[top.current], next |-> q]
      BY <2>9, <2>13, <2>15
    <3> QED BY <3>1, <3>2, <3>3 DEF Reads
  <2>17. stack' = t /\ top' = l  BY <2>1, <2>6, <2>12 DEF top
  <2>18. TopReads(Q[Len(t)])'
    BY <1>1, <1>5, <2>1, <2>4, <2>16, <2>17 DEF TopReads
  <2>19. Chain(text', Meaning(heap'), stack', Q)  BY <1>1, <2>4, <2>11, <2>17
  <2>20. ReadsParse'
    <3>1. /\ err' = "success" /\ top'.state \notin Spaces \ {"eatws"}
          /\ At(text', pos') # "nl"
      BY <1>1, <1>3, <2>14, <2>17 DEF Spaces, Adds
    <3> QED BY <2>17, <2>18, <2>19, <3>1 DEF ReadsParse
  <2> QED BY <1>1, <2>1, <2>20 DEF ReadsInv
<1> QED BY <1>8, <1>9

(* ... and the return.                                                     *)
LEMMA ReturnReads ==
  ASSUME IInv, IInv', OrderInv, OrderInv', ReadsInv, NoComment, Return
  PROVE  ReadsInv'
<1>1. PICK r : r = IF err = "success" THEN top.current ELSE Null  OBVIOUS
<1>2. PICK work : work = [i \in DOMAIN stack |-> Reverse(stack)[i].current]
  OBVIOUS
<1>3. /\ phase = "out" /\ heap' = Puts(Get(heap, r), work) /\ ret' = r
      /\ phase' = "done" /\ text' = text /\ err' = err
  BY <1>1, <1>2 DEF Return
<1>4. r = Null \/ r = top.current  BY <1>1
<1>5. /\ DOMAIN heap' = DOMAIN heap
      /\ \A n \in DOMAIN heap : /\ heap'[n].type = heap[n].type
                                /\ heap'[n].val = heap[n].val
  <2>1. Way(stack, phase, obj) = Null  BY <1>3 DEF Way
  <2>2. phase # "done" /\ heap' = Puts(Get(heap, r), work)  BY <1>3
  <2> QED BY <1>4, <2>1, <2>2, PassedOn
<1>6. PICK g : g = heap'  OBVIOUS
<1>7. \A n \in 0 .. Len(heap) : Meaning(g)[n] = Meaning(heap)[n]
  <2>1. HeapOK(heap) /\ HeapGrows(heap) /\ HeapOK(g) /\ HeapGrows(g)
    BY <1>6 DEF IInv, OrderInv
  <2>2. /\ DOMAIN g = DOMAIN heap
        /\ \A n \in DOMAIN heap : g[n].type = heap[n].type /\ g[n].val = heap[n].val
    BY <1>5, <1>6
  <2> QED BY ONLY <2>1, <2>2, SameMeanings
<1>8. Meaning(heap')[top.current] = Meaning(heap)[top.current]
  <2>1. top.current \in 0 .. Len(heap)  BY <1>3, TopFacts
  <2> QED BY <1>6, <1>7, <2>1
<1>9. Returns(top.current)  BY <1>3 DEF ReadsInv
<1>10. Returns(ret)'  BY <1>1, <1>3, <1>8, <1>9 DEF Returns
<1>11. err' # "success" => ret' = Null  BY <1>1, <1>3
<1> QED BY <1>3, <1>10, <1>11 DEF ReadsInv
-----------------------------------------------------------------------------
(* What a level has read is one case of the definition.                    *)
LEMMA ReadsIs ==
  ASSUME NEW s, NEW x, NEW y, NEW l, NEW h, NEW p, NEW q, NEW d, d = Doing(l)
  PROVE  /\ d = "start" /\ q = p => Reads(s, x, y, l, h, p, q)
         /\ d = "finish" /\ Nested(s)[h][p] = [v |-> x, next |-> q] =>
              Reads(s, x, y, l, h, p, q)
         /\ d = "array" /\ AtElement(s, x, "array", h, p, q) =>
              Reads(s, x, y, l, h, p, q)
         /\ d = "object_field_start" /\ AtElement(s, x, "object", h, p, q) =>
              Reads(s, x, y, l, h, p, q)
         /\ d = "object_field_end" /\ AtColon(s, x, l.name, h, p, q) =>
              Reads(s, x, y, l, h, p, q)
         /\ d = "object_value" /\ Before(s, x, "object", l.name, h, p, q) =>
              Reads(s, x, y, l, h, p, q)
         /\ d = "array_sep" /\ BehindElement(s, x, "array", h, p, q) =>
              Reads(s, x, y, l, h, p, q)
         /\ d = "object_sep" /\ BehindElement(s, x, "object", h, p, q) =>
              Reads(s, x, y, l, h, p, q)
<1>1. PICK r : r = Nested(s)[h][p]  OBVIOUS
<1>2. PICK v : v = [v |-> x, next |-> q]  OBVIOUS
<1> QED BY <1>1, <1>2, Zenon DEF Reads, Adds

LEMMA TopTells ==
  ASSUME NEW p, TopReads(p), top.state \notin Spaces
  PROVE  LET x == Meaning(heap)[top.current]
             h == Lvl(Len(stack))
             q == From(text, pos)
         IN  /\ top.state = "start" => q = p
             /\ top.state = "array" => AtElement(text, x, "array", h, p, q)
             /\ top.state = "object_field_start" =>
                  AtElement(text, x, "object", h, p, q)
             /\ top.state = "object_field_end" =>
                  AtColon(text, x, top.name, h, p, q)
             /\ top.state = "object_value" =>
                  Before(text, x, "object", top.name, h, p, q)
             /\ top.state \in Adds =>
                  \E i \in Positions(text) :
                    /\ Before(text, x, AddTo(top), top.name, h, p, i)
                    /\ Nested(text)[h - 1][i]
                         = [v |-> Meaning(heap)[obj], next |-> q]
             /\ top.state = "array_sep" => BehindElement(text, x, "array", h, p, q)
             /\ top.state = "object_sep" =>
                  BehindElement(text, x, "object", h, p, q)
<1>1. Doing(top) = top.state  BY DEF Doing
<1> QED BY <1>1 DEF TopReads, Reads, Waits

LEMMA ArrayFacts ==
  ASSUME NEW s \in Seq(Char), NEW x, NEW h \in 1 .. MaxDepth,
         NEW p \in Positions(s), NEW q, AtElement(s, x, "array", h, p, q)
  PROVE  /\ At(s, q) = Close("array") =>
              Nested(s)[h][p] = [v |-> x, next |-> Behind(s, q)]
         /\ At(s, q) # Close("array") =>
              \A k : Before(s, x, "array", k, h, p, q)
<1>1. PICK type \in Types : type = "array"  BY DEF Types
<1>2. PICK e : e = ElementsAt(s, type, h)[q]  OBVIOUS
<1>3. AtElement(s, x, type, h, p, q)  BY <1>1
<1>4. /\ q \in Positions(s) /\ p < q /\ At(s, p) = Open(type)
      /\ At(s, q) = Close(type) =>
           Nested(s)[h][p] = [v |-> x, next |-> Behind(s, q)]
      /\ e = NoValue /\ At(s, q) # Close(type) => Nested(s)[h][p] = NoValue
      /\ e # NoValue =>
           BehindElement(s, <<type, WithElement(type, x[2], e.v)>>, type,
                         h, p, e.next)
  BY <1>2, <1>3, ElementFacts
<1>5. ASSUME At(s, q) # Close("array"), NEW k
      PROVE  Before(s, x, "array", k, h, p, q)
  <2>1. q \in Positions(s)  BY <1>4
  <2> QED BY <1>5, <2>1 DEF Before
<1> QED BY <1>1, <1>4, <1>5

LEMMA ObjectFacts ==
  ASSUME NEW s \in Seq(Char), NEW x, NEW h \in 1 .. MaxDepth,
         NEW p \in Positions(s), NEW q, AtElement(s, x, "object", h, p, q)
  PROVE  /\ At(s, q) = Close("object") =>
              Nested(s)[h][p] = [v |-> x, next |-> Behind(s, q)]
         /\ At(s, q) \in Key =>
              AtColon(s, x, At(s, q), h, p, Behind(s, q))
         /\ At(s, q) \notin Key /\ At(s, q) # Close("object") =>
              Nested(s)[h][p] = NoValue
<1>1. PICK type \in Types : type = "object"  BY DEF Types
<1>2. PICK e : e = ElementsAt(s, type, h)[q]  OBVIOUS
<1>3. AtElement(s, x, type, h, p, q)  BY <1>1
<1>4. /\ q \in Positions(s) /\ p < q /\ At(s, p) = Open(type)
      /\ At(s, q) = Close(type) =>
           Nested(s)[h][p] = [v |-> x, next |-> Behind(s, q)]
      /\ e = NoValue /\ At(s, q) # Close(type) => Nested(s)[h][p] = NoValue
      /\ e # NoValue =>
           BehindElement(s, <<type, WithElement(type, x[2], e.v)>>, type,
                         h, p, e.next)
  BY <1>2, <1>3, ElementFacts
<1> QED BY <1>1, <1>4, NameFacts

(* A step behind which the level goes on with y, a unit further on.        *)
LEMMA SpaceReads ==
  ASSUME IInv, ReadsInv, NoComment, phase = "parse",
         UNCHANGED <<text, obj, heap>>, At(text, pos) # "nul", Break,
         NEW y \in Saved, NEW k \in Key \cup {"none"}, NEW l,
         l = [state |-> "eatws", saved |-> y, current |-> top.current,
              name |-> k],
         stack' = WithTop(stack, l),
         \A p \in Positions(text) : TopReads(p) =>
           Reads(text, Meaning(heap)[l.current], Meaning(heap)[obj], l,
                 Lvl(Len(stack)), p, Behind(text, pos))
  PROVE  ReadsInv'
<1>1. top \in Levels /\ At(text, pos) = c /\ From(text, pos + 1) = Behind(text, pos)
  BY TopFacts, PosFacts
<1>2. l \in Levels /\ l.state = "eatws"  BY <1>1, LevelIs, LevelTo DEF States
<1>3. pos' = pos + 1 /\ err' = err /\ phase' = "parse"  BY <1>1 DEF Break
<1>4. \A p \in Positions(text) : TopReads(p) =>
        Reads(text, Meaning(heap')[l.current], Meaning(heap')[obj'], l,
              Lvl(Len(stack)), p, From(text, pos'))
  BY <1>1, <1>3
<1>5. /\ l.state \notin Spaces \ {"eatws"}
      /\ l.state # "eatws" => At(text, pos') # "nl"
  BY <1>2
<1>6. \A j \in 1 .. Len(stack) - 1 :
        Meaning(heap')[stack[j].current] = Meaning(heap)[stack[j].current]
  OBVIOUS
<1>7. text' = text  OBVIOUS
<1> QED BY ONLY <1>2, <1>3, <1>4, <1>5, <1>6, <1>7, LevelReads, IInv, ReadsInv,
            NoComment, phase = "parse", stack' = WithTop(stack, l)

LEMMA ThenReads ==
  ASSUME IInv, ReadsInv, NoComment, phase = "parse",
         UNCHANGED <<text, obj, heap>>, At(text, pos) # "nul", Break,
         NEW y \in Saved, SpaceThen(y),
         NEW d, d = y,
         \A p \in Positions(text) : TopReads(p) =>
           \A l : Doing(l) = d /\ l.name = top.name =>
             Reads(text, Meaning(heap)[top.current], Meaning(heap)[obj], l,
                   Lvl(Len(stack)), p, Behind(text, pos))
  PROVE  ReadsInv'
<1>1. top \in Levels  BY TopFacts
<1>2. PICK k \in Key \cup {"none"} : k = top.name  BY <1>1, LevelIs
<1>3. PICK l : l = [state |-> "eatws", saved |-> y, current |-> top.current,
                    name |-> k]
  OBVIOUS
<1>4. stack' = WithTop(stack, l)
  <2>1. stack' = [stack EXCEPT ![Len(stack)] =
                    [top EXCEPT !.state = "eatws", !.saved = y]]
    BY DEF SpaceThen, Level
  <2>2. [top EXCEPT !.state = "eatws", !.saved = y] = l
    BY <1>1, <1>2, <1>3, LevelThen
  <2> QED BY <2>1, <2>2 DEF WithTop
<1>5. Doing(l) = y /\ l.name = top.name /\ l.current = top.current
  BY <1>2, <1>3 DEF Doing, Spaces
<1>6. \A p \in Positions(text) : TopReads(p) =>
        Reads(text, Meaning(heap)[l.current], Meaning(heap)[obj], l,
              Lvl(Len(stack)), p, Behind(text, pos))
  BY <1>5
<1> QED BY <1>3, <1>4, <1>6, SpaceReads
-----------------------------------------------------------------------------
(* The steps between the units ...                                         *)
LEMMA EatwsReads ==
  ASSUME IInv, ReadsInv, NoComment, Eatws
  PROVE  ReadsInv'
<1>1. /\ phase = "parse" /\ top.state = "eatws"
      /\ text' = text /\ obj' = obj /\ heap' = heap
  BY DEF Eatws, In, Same
<1>2. /\ top \in Levels /\ stack \in Seq(Levels) /\ stack # << >>
      /\ c = At(text, pos) /\ c # "slash"
  BY <1>1, TopFacts, PosFacts
<1>3. \A j \in 1 .. Len(stack) - 1 :
        Meaning(heap')[stack[j].current] = Meaning(heap)[stack[j].current]
  BY <1>1
<1>4. CASE c = "nl"
  <2>1. stack' = stack /\ pos' = pos + 1 /\ err' = err /\ phase' = phase
    BY <1>4 DEF Eatws, Break
  <2>2. From(text, pos') = From(text, pos)  BY <1>4, <2>1, PosFacts
  <2>3. top' = top  BY <2>1 DEF top
  <2>4. ReadsParse  BY <1>1 DEF ReadsInv
  <2>5. ReadsParse'  BY <1>1, <2>1, <2>2, <2>3, <2>4 DEF ReadsParse, TopReads
  <2> QED BY <1>1, <2>1, <2>5 DEF ReadsInv
<1>5. CASE c # "nl"
  <2>1. PICK l : l = [top EXCEPT !.state = top.saved]  OBVIOUS
  <2>2. To(top.saved) /\ Redo  BY <1>2, <1>5 DEF Eatws
  <2>3. pos' = pos /\ err' = err /\ phase' = "parse" /\ stack' = WithTop(stack, l)
    BY <1>1, <2>1, <2>2 DEF Redo, To, Level, WithTop
  <2>4. l = [state |-> top.saved, saved |-> top.saved, current |-> top.current,
             name |-> top.name]
    BY <1>2, <2>1, LevelIs
  <2>5. top.saved \in Saved /\ top.saved \in States /\ top.saved \notin Spaces
    BY <1>2, LevelIs DEF Saved, States, Spaces
  <2>6. l \in Levels  BY <1>2, <2>4, <2>5, LevelIs, LevelTo
  <2>7. Doing(l) = Doing(top) /\ l.state \notin Spaces
        /\ l.current = top.current /\ l.name = top.name
    BY <1>1, <2>4, <2>5 DEF Doing, Spaces
  <2>8. At(text, pos') # "nl"  BY <1>2, <1>5, <2>3
  <2>9. Doing(l) \notin Adds  BY <2>4, <2>5 DEF Doing, Saved, Adds
  <2>10. ASSUME NEW p \in Positions(text), TopReads(p)
         PROVE  Reads(text, Meaning(heap')[l.current], Meaning(heap')[obj'], l,
                      Lvl(Len(stack)), p, From(text, pos'))
    <3>1. PICK d : d = Doing(l)  OBVIOUS
    <3>2. d = Doing(top) /\ d \notin Adds  BY <2>7, <2>9, <3>1
    <3> QED BY <1>1, <2>3, <2>7, <2>10, <3>1, <3>2 DEF TopReads, Reads
  <2>11. l.state \notin Spaces \ {"eatws"}
         /\ (l.state # "eatws" => At(text, pos') # "nl")
    BY <2>7, <2>8
  <2>12. text' = text  BY <1>1
  <2> QED BY ONLY <1>1, <1>3, <2>3, <2>6, <2>10, <2>11, <2>12, LevelReads, IInv,
              ReadsInv, NoComment
<1> QED BY <1>4, <1>5

LEMMA CommentReads ==
  ASSUME IInv, ReadsInv, NoComment, Comment
  PROVE  FALSE
<1>1. phase = "parse" /\ top.state \in {"comment_start", "comment", "comment_eol",
                                        "comment_end"}
  BY DEF Comment, In
<1>2. top.state \notin Spaces \ {"eatws"}  BY <1>1, ReadsFacts
<1> QED BY <1>1, <1>2 DEF Spaces

(* ... and those at the beginning of a value, with a new node or not.      *)
LEMMA StartsHere ==
  ASSUME IInv, ReadsInv, NoComment, In("start")
  PROVE  /\ \A p : TopReads(p) => p = pos
         /\ top.current = Null /\ At(text, pos) # "nl"
<1>1. phase = "parse" /\ top.state = "start" /\ top.state \notin Spaces
  BY DEF In, Spaces
<1>2. At(text, pos) # "nl" /\ From(text, pos) = pos
  BY <1>1, ReadsFacts, PosFacts
<1>3. top.current = Null  BY <1>1, TopFacts DEF Holds, Doing
<1>4. \A p : TopReads(p) => p = pos  BY <1>1, <1>2, TopTells
<1> QED BY <1>2, <1>3, <1>4

LEMMA NewReads ==
  ASSUME IInv, IInv', OrderInv, OrderInv', ReadsInv, NoComment, In("start"),
         UNCHANGED <<text, obj>>, At(text, pos) # "nul", Break,
         NEW node, heap' = Append(heap, node), NEW y \in Saved,
         Level([top EXCEPT !.state = "eatws", !.saved = y, !.current = NewId]),
         NEW x, \A M : Told(heap', M, NewId) = x, NEW d, d = y,
         \A l, v : Doing(l) = d =>
           Reads(text, x, v, l, Lvl(Len(stack)), pos, Behind(text, pos))
  PROVE  ReadsInv'
<1>1. PICK g : g = heap'  OBVIOUS
<1>2. /\ phase = "parse" /\ top \in Levels /\ stack \in Seq(Levels)
      /\ heap \in Seq(Nodes) /\ Len(heap) \in Nat /\ text' = text
      /\ DOMAIN heap = 1 .. Len(heap)
      /\ From(text, pos + 1) = Behind(text, pos) /\ c # "nul"
      /\ HeapOK(heap) /\ HeapGrows(heap) /\ HeapOK(g) /\ HeapGrows(g)
  <2>1. phase = "parse"  BY DEF In
  <2> QED BY <1>1, <2>1, TopFacts, PosFacts DEF IInv, OrderInv
<1>3. PICK n \in Nat : n = NewId /\ n = Len(heap) + 1  BY <1>2 DEF NewId
<1>4. PICK l : l = [top EXCEPT !.state = "eatws", !.saved = y, !.current = n]
  OBVIOUS
<1>5. l = [state |-> "eatws", saved |-> y, current |-> n, name |-> top.name]
  <2>1. PICK t \in Levels : t = top  BY <1>2
  <2>2. l = [t EXCEPT !.state = "eatws", !.saved = y, !.current = n]
    BY <1>4, <2>1
  <2>3. l = [state |-> "eatws", saved |-> y, current |-> n, name |-> t.name]
    BY ONLY t \in Levels, <2>2, LevelWithValue
  <2> QED BY <2>1, <2>3
<1>6. /\ l \in Levels /\ l.state = "eatws" /\ l.current = n /\ Doing(l) = y
  BY <1>2, <1>5, LevelIs, LevelTo DEF States, Doing, Spaces
<1>7. stack' = WithTop(stack, l)  BY <1>3, <1>4 DEF Level, WithTop
<1>8. pos' = pos + 1 /\ err' = err /\ phase' = "parse"  BY <1>2 DEF Break
<1>9. /\ DOMAIN g = 1 .. Len(heap) + 1
      /\ \A m \in DOMAIN heap : g[m] = heap[m]
  BY <1>1, <1>2
<1>10. Meaning(g)[n] = x
  <2>1. n \in DOMAIN g  BY <1>2, <1>3, <1>9
  <2>2. Meaning(g)[n] = Told(g, Meaning(g), n)  BY <1>2, <2>1, MeaningIs
  <2> QED BY <1>1, <1>3, <2>2
<1>11. \A m \in 0 .. Len(heap) : Meaning(g)[m] = Meaning(heap)[m]
  <2>1. NotInside(heap, n)
    <3> SUFFICES ASSUME NEW m \in DOMAIN heap PROVE n \notin Inside(heap, m)
      BY DEF NotInside
    <3>1. Inside(heap, m) \subseteq 0 .. Len(heap)  BY <1>2, InsideIs
    <3> QED BY <1>2, <1>3, <3>1
  <2>2. DOMAIN heap \subseteq DOMAIN g  BY <1>2, <1>9
  <2>3. \A m \in DOMAIN heap : m # n =>
          g[m].type = heap[m].type /\ g[m].val = heap[m].val
    BY <1>9
  <2>4. HeapOK(heap) /\ HeapGrows(heap) /\ HeapOK(g) /\ HeapGrows(g)  BY <1>2
  <2>5. \A m \in 0 .. Len(heap) : m # n => Meaning(g)[m] = Meaning(heap)[m]
    BY ONLY <2>1, <2>2, <2>3, <2>4, OthersMean
  <2> QED BY <1>2, <1>3, <2>5
<1>12. \A j \in 1 .. Len(stack) - 1 :
         Meaning(heap')[stack[j].current] = Meaning(heap)[stack[j].current]
  <2> SUFFICES ASSUME NEW j \in 1 .. Len(stack) - 1
               PROVE  stack[j].current \in 0 .. Len(heap)
    BY <1>1, <1>11
  <2>1. j \in DOMAIN stack  BY <1>2
  <2> QED BY <2>1 DEF IInv, StackOK
<1>13. ASSUME NEW p \in Positions(text), TopReads(p)
       PROVE  Reads(text, Meaning(heap')[l.current], Meaning(heap')[obj'], l,
                    Lvl(Len(stack)), p, From(text, pos'))
  <2>1. p = pos  BY <1>13, StartsHere
  <2>2. Meaning(heap')[l.current] = x  BY <1>1, <1>6, <1>10
  <2>3. From(text, pos') = Behind(text, pos)  BY <1>2, <1>8
  <2>4. PICK v : v = Meaning(heap')[obj']  OBVIOUS
  <2>5. Reads(text, x, v, l, Lvl(Len(stack)), pos, Behind(text, pos))  BY <1>6
  <2> QED BY <2>1, <2>2, <2>3, <2>4, <2>5
<1>14. /\ l.state \notin Spaces \ {"eatws"}
       /\ l.state # "eatws" => At(text, pos') # "nl"
  BY <1>6
<1> QED BY ONLY <1>2, <1>6, <1>7, <1>8, <1>12, <1>13, <1>14, LevelReads, IInv,
            ReadsInv, NoComment

Begun(type, u, x) ==
  /\ type = "leaf" => x = <<"leaf", u>>
  /\ type = "array" /\ u = << >> => x = <<"array", << >> >>
  /\ type = "object" /\ u.order = << >> => x = <<"object", << >> >>

LEMMA NewTells ==
  ASSUME NEW h \in Seq(Nodes), NEW node, NEW g, g = Append(h, node),
         NEW type, NEW u, node = Node(type, u), NEW M,
         NEW n, n = Len(h) + 1, NEW x, x = Told(g, M, n)
  PROVE  Begun(type, u, x)
<1>1. n = Len(h) + 1  OBVIOUS
<1>2. g[n] = node
  <2>1. h \in Seq(Nodes) /\ g = Append(h, node)  OBVIOUS
  <2> QED BY ONLY <1>1, <2>1
<1>3. g[n].type = type /\ u = g[n].val
  <2>1. node.type = type /\ node.val = u  BY ONLY node = Node(type, u) DEF Node
  <2> QED BY ONLY <1>2, <2>1
<1>4. /\ g[n].type = "leaf" => Told(g, M, n) = <<"leaf", u>>
      /\ g[n].type = "array" =>
           Told(g, M, n) = <<"array", [i \in DOMAIN u |-> M[u[i]]]>>
      /\ g[n].type = "object" =>
           Told(g, M, n) =
             <<"object", [i \in DOMAIN u.order |->
                            <<u.slot[u.order[i]].k, M[u.slot[u.order[i]].v]>>]>>
  BY ONLY <1>3, ToldIs
<1>5. \A s : s = << >> => /\ [i \in DOMAIN s |-> M[u[i]]] = << >>
                          /\ [i \in DOMAIN s |->
                                <<u.slot[u.order[i]].k,
                                  M[u.slot[u.order[i]].v]>>] = << >>
  OBVIOUS
<1> QED BY <1>1, <1>3, <1>4, <1>5 DEF Begun

(* The marks are those of the grammar.                                     *)
LEMMA MarksAre ==
  /\ Open("array") = "[" /\ Open("object") = "{"
  /\ Close("array") = "]" /\ Close("object") = "}"
  /\ Comma = "," /\ Colon = ":"
  /\ "open" \notin Key /\ "word" \notin Key
<1>1. "open" \notin Key /\ "word" \notin Key  BY TokenerAssumption DEF Mark
<1> QED BY <1>1, Zenon DEF Open, Close, Comma, Colon

LEMMA StartReads ==
  ASSUME IInv, IInv', OrderInv, OrderInv', ReadsInv, NoComment, Start
  PROVE  ReadsInv'
<1>1. In("start") /\ UNCHANGED <<text, obj>>  BY DEF Start
<1>2. phase = "parse" /\ top.state = "start"  BY <1>1 DEF In
<1>3. PICK s \in Seq(Char) : s = text  BY PosFacts
<1>4. PICK h \in 1 .. MaxDepth : h = Lvl(Len(stack))  BY <1>2, ReadsFacts
<1>5. /\ pos \in Positions(s) /\ c = At(s, pos) /\ heap \in Seq(Nodes)
      /\ top \in Levels
  BY <1>2, <1>3, PosFacts, TopFacts
<1>6. Nested(s)[h][pos] = ValueAt(s, Nested(s)[h - 1], pos)
  <2>1. Nested(s)[h] = [i \in Positions(s) |-> ValueAt(s, Nested(s)[h - 1], i)]
    BY NestedIs
  <2> QED BY <1>5, <2>1
<1>7. ASSUME NEW type \in Types, c = Open(type), Break,
             NEW u, heap' = Append(heap, Node(type, u)),
             type = "array" => u = << >>, type = "object" => u.order = << >>,
             NEW y \in Saved,
             y = IF type = "array" THEN "array" ELSE "object_field_start",
             Level([top EXCEPT !.state = "eatws", !.saved = y, !.current = NewId])
      PROVE  ReadsInv'
  <2>1. PICK x : x = <<type, << >> >>  OBVIOUS
  <2>2. PICK node : node = Node(type, u)  OBVIOUS
  <2>3. heap' = Append(heap, node)  BY <1>7, <2>2
  <2>4. \A M : Told(heap', M, NewId) = x
    <3> SUFFICES ASSUME NEW M PROVE Told(heap', M, NewId) = x  OBVIOUS
    <3>1. PICK g : g = heap'  OBVIOUS
    <3>2. heap \in Seq(Nodes) /\ g = Append(heap, node)  BY <1>5, <2>3, <3>1
    <3>3. PICK n : n = Len(heap) + 1  OBVIOUS
    <3>4. PICK r : r = Told(g, M, n)  OBVIOUS
    <3>5. Begun(type, u, r)  BY ONLY <2>2, <3>3, <3>2, <3>4, NewTells
    <3>6. r = x  BY <1>7, <2>1, <3>5 DEF Begun, Types
    <3> QED BY <3>3, <3>1, <3>4, <3>6 DEF NewId
  <2>5. At(s, pos) = Open(type)  BY <1>5, <1>7
  <2>6. AtElement(s, x, type, h, pos, Behind(s, pos))
    BY <1>5, <2>1, <2>5, FirstElement
  <2>7. At(text, pos) # "nul"  BY <1>3, <2>5, MarkFacts
  <2>8. PICK d : d = y  OBVIOUS
  <2>9. ASSUME NEW l, NEW v, Doing(l) = d
        PROVE  Reads(text, x, v, l, Lvl(Len(stack)), pos, Behind(text, pos))
    <3>1. CASE type = "array"
      <4>1. d = "array" /\ AtElement(s, x, "array", h, pos, Behind(s, pos))
        BY <1>7, <2>6, <2>8, <3>1
      <4> QED BY <1>3, <1>4, <2>9, <4>1, ReadsIs
    <3>2. CASE type = "object"
      <4>1. /\ d = "object_field_start"
            /\ AtElement(s, x, "object", h, pos, Behind(s, pos))
        BY <1>7, <2>6, <2>8, <3>2
      <4> QED BY <1>3, <1>4, <2>9, <4>1, ReadsIs
    <3> QED BY <3>1, <3>2 DEF Types
  <2>10. /\ Level([top EXCEPT !.state = "eatws", !.saved = y, !.current = NewId])
         /\ Break /\ y \in Saved
    BY <1>7
  <2> QED BY ONLY <1>1, <2>3, <2>4, <2>7, <2>8, <2>9, <2>10, NewReads, IInv,
              IInv', OrderInv, OrderInv', ReadsInv, NoComment
<1>8. ASSUME c \in Atom \cup Key, heap' = Append(heap, Node("leaf", c)),
             Value(NewId), Break
      PROVE  ReadsInv'
  <2>1. PICK u : u = c  OBVIOUS
  <2>2. PICK x : x = <<"leaf", u>>  OBVIOUS
  <2>3. PICK node : node = Node("leaf", u)  OBVIOUS
  <2>4. heap' = Append(heap, node)  BY <1>8, <2>1, <2>3
  <2>5. \A M : Told(heap', M, NewId) = x
    <3> SUFFICES ASSUME NEW M PROVE Told(heap', M, NewId) = x  OBVIOUS
    <3>1. PICK g : g = heap'  OBVIOUS
    <3>2. heap \in Seq(Nodes) /\ g = Append(heap, node)  BY <1>5, <2>4, <3>1
    <3>3. PICK n : n = Len(heap) + 1  OBVIOUS
    <3>4. PICK r : r = Told(g, M, n)  OBVIOUS
    <3>5. PICK type : type = "leaf"  OBVIOUS
    <3>6. node = Node(type, u)  BY <2>3, <3>5
    <3>7. Begun(type, u, r)  BY ONLY <3>3, <3>2, <3>4, <3>6, NewTells
    <3> QED BY <2>2, <3>3, <3>1, <3>4, <3>5, <3>7 DEF Begun, NewId
  <2>6. /\ At(s, pos) \in Atom \cup Key /\ At(s, pos) = u
        /\ At(text, pos) # "nul"
    <3>1. "nul" \notin Atom \cup Key  BY MarkFacts
    <3> QED BY <1>3, <1>5, <1>8, <2>1, <3>1
  <2>7. Nested(s)[h][pos] = [v |-> x, next |-> Behind(s, pos)]
    BY <1>6, <2>2, <2>6, ValueCases
  <2>8. PICK d : d = "finish"  OBVIOUS
  <2>9. ASSUME NEW l, NEW v, Doing(l) = d
        PROVE  Reads(text, x, v, l, Lvl(Len(stack)), pos, Behind(text, pos))
    BY <1>3, <1>4, <2>7, <2>8, <2>9, ReadsIs
  <2>10. PICK y \in Saved : y = "finish"  BY DEF Saved
  <2>11. /\ Level([top EXCEPT !.state = "eatws", !.saved = y, !.current = NewId])
         /\ Break /\ d = y
    BY <1>8, <2>8, <2>10 DEF Value
  <2> QED BY ONLY <1>1, <2>4, <2>5, <2>6, <2>9, <2>11, y \in Saved, NewReads,
              IInv, IInv', OrderInv, OrderInv', ReadsInv, NoComment
<1>9. ASSUME c = "null", Value(Null), Break, UNCHANGED heap
      PROVE  ReadsInv'
  <2>1. PICK k \in Key \cup {"none"} : k = top.name  BY <1>5, LevelIs
  <2>2. PICK y \in Saved : y = "finish"  BY DEF Saved
  <2>3. PICK l : l = [state |-> "eatws", saved |-> y, current |-> top.current,
                      name |-> k]
    OBVIOUS
  <2>4. stack' = WithTop(stack, l)
    <3>1. PICK t \in Levels : t = top  BY <1>5
    <3>2. PICK m : m = [t EXCEPT !.state = "eatws", !.saved = y, !.current = Null]
      OBVIOUS
    <3>3. m = [state |-> "eatws", saved |-> y, current |-> Null, name |-> t.name]
      BY ONLY t \in Levels, <3>2, LevelWithValue
    <3>4. top.current = Null  BY <1>1, StartsHere
    <3>5. m = l  BY <2>1, <2>3, <3>1, <3>3, <3>4
    <3> QED BY <1>9, <2>2, <3>1, <3>2, <3>5 DEF Value, Level, WithTop
  <2>5. Doing(l) = "finish" /\ l.current = Null
    <3>1. top.current = Null  BY <1>1, StartsHere
    <3> QED BY <2>2, <2>3, <3>1 DEF Doing, Spaces
  <2>6. PICK x : x = Meaning(heap)[l.current]  OBVIOUS
  <2>7. x = <<"null">>
    <3>1. HeapOK(heap) /\ HeapGrows(heap)  BY DEF IInv, OrderInv
    <3> QED BY <2>5, <2>6, <3>1, MeaningIs
  <2>8. At(s, pos) = "null" /\ At(text, pos) # "nul"  BY <1>3, <1>5, <1>9
  <2>9. Nested(s)[h][pos] = [v |-> x, next |-> Behind(s, pos)]
    BY <1>6, <2>7, <2>8, ValueCases
  <2>10. ASSUME NEW p \in Positions(text), TopReads(p)
         PROVE  Reads(text, Meaning(heap)[l.current], Meaning(heap)[obj], l,
                      Lvl(Len(stack)), p, Behind(text, pos))
    <3>1. p = pos  BY <1>1, <2>10, StartsHere
    <3> QED BY <1>3, <1>4, <2>5, <2>6, <2>9, <3>1, ReadsIs
  <2>11. UNCHANGED <<text, obj, heap>> /\ Break  BY <1>1, <1>9
  <2> QED BY ONLY <1>2, <2>3, <2>4, <2>8, <2>10, <2>11, y \in Saved,
              k \in Key \cup {"none"}, SpaceReads, IInv, ReadsInv, NoComment
<1>10. ASSUME c \notin Begins, NEW e, e # "success", Fail(e)
       PROVE  ReadsInv'
  <2>1. Nested(s)[h][pos] = NoValue  BY <1>5, <1>6, <1>10, ValueCases
  <2>2. ASSUME NEW p \in Positions(text), TopReads(p)
        PROVE  Nested(text)[Lvl(Len(stack))][p] = NoValue
    BY <1>1, <1>3, <1>4, <2>1, <2>2, StartsHere
  <2>3. text' = text /\ Fail(e) /\ e # "success"  BY <1>1, <1>10
  <2> QED BY ONLY <1>2, <2>2, <2>3, FailReads, IInv, ReadsInv, NoComment
<1>11. /\ "{" \notin Atom \cup Key /\ "[" \notin Atom \cup Key
       /\ "null" \notin Atom \cup Key
  BY MarkFacts, MarksAre, Zenon
<1>12. CASE c = "{"
  <2>1. /\ NewNode(Node("object", NewTable(DefEntries)))
        /\ Level([top EXCEPT !.state = "eatws", !.saved = "object_field_start",
                             !.current = NewId])
        /\ Break
    BY <1>11, <1>12, Zenon DEF Start
  <2>2. PICK type \in Types : type = "object"  BY DEF Types
  <2>3. c = Open(type)  BY <1>12, <2>2, MarksAre, Zenon
  <2>4. PICK u : u = NewTable(DefEntries)  OBVIOUS
  <2>5. u.order = << >>  BY <2>4 DEF NewTable
  <2>6. PICK y \in Saved : y = "object_field_start"  BY DEF Saved
  <2>7. type # "array" /\ y = IF type = "array" THEN "array" ELSE "object_field_start"
    BY <2>2, <2>6
  <2>8. heap' = Append(heap, Node(type, u))  BY <2>1, <2>2, <2>4 DEF NewNode
  <2>9. /\ Break /\ Level([top EXCEPT !.state = "eatws", !.saved = y,
                                      !.current = NewId])
    BY <2>1, <2>6
  <2> QED BY ONLY <1>7, <2>3, <2>5, <2>7, <2>8, <2>9, type \in Types, y \in Saved
<1>13. CASE c = "["
  <2>1. /\ NewNode(Node("array", << >>))
        /\ Level([top EXCEPT !.state = "eatws", !.saved = "array",
                             !.current = NewId])
        /\ Break
    BY <1>11, <1>13, Zenon DEF Start
  <2>2. PICK type \in Types : type = "array"  BY DEF Types
  <2>3. c = Open(type)  BY <1>13, <2>2, MarksAre, Zenon
  <2>4. PICK u : u = << >>  OBVIOUS
  <2>5. PICK y \in Saved : y = "array"  BY DEF Saved
  <2>6. type # "object" /\ y = IF type = "array" THEN "array" ELSE "object_field_start"
    BY <2>2, <2>5
  <2>7. heap' = Append(heap, Node(type, u))  BY <2>1, <2>2, <2>4 DEF NewNode
  <2>8. /\ Break /\ Level([top EXCEPT !.state = "eatws", !.saved = y,
                                      !.current = NewId])
    BY <2>1, <2>5
  <2> QED BY ONLY <1>7, <2>3, <2>4, <2>6, <2>7, <2>8, type \in Types, y \in Saved
<1>14. CASE c \in Atom \cup Key
  <2>1. NewNode(Node("leaf", c)) /\ Value(NewId) /\ Break
    BY <1>11, <1>14, Zenon DEF Start
  <2> QED BY <1>8, <1>14, <2>1 DEF NewNode
<1>15. CASE c = "null"
  <2>1. Value(Null) /\ Break /\ UNCHANGED heap
    BY <1>11, <1>15, Zenon DEF Start
  <2> QED BY <1>9, <1>15, <2>1
<1>16. CASE c \notin {"{", "[", "null"} \cup Atom \cup Key
  <2>1. c \notin Begins  BY <1>16, MarksAre, Zenon DEF Begins
  <2>2. PICK e : e = IF c = "open" THEN "eof" ELSE "unexpected"  OBVIOUS
  <2>3. Fail(e)  BY <1>16, <2>2, Zenon DEF Start
  <2>4. e # "success"  BY <2>2
  <2> QED BY <1>10, <2>1, <2>3, <2>4
<1> QED BY <1>12, <1>13, <1>14, <1>15, <1>16, Zenon

(* The value on its way becomes an element of the level's value.           *)
LEMMA AddReads ==
  ASSUME IInv, OrderInv, ReadsInv, NoComment, phase = "parse",
         top.state \in Adds, UNCHANGED <<text, obj>>, Redo,
         NEW type \in Types, type = AddTo(top), NEW y \in Saved,
         y = IF type = "array" THEN "array_sep" ELSE "object_sep",
         NEW k \in Key \cup {"none"}, NEW l,
         l = [state |-> "eatws", saved |-> y, current |-> top.current,
              name |-> k],
         stack' = WithTop(stack, l),
         Meaning(heap')[top.current]
           = Grown(Meaning(heap)[top.current], type, top.name,
                   Meaning(heap)[obj]),
         \A m \in 0 .. Len(heap) : m # top.current =>
           Meaning(heap')[m] = Meaning(heap)[m]
  PROVE  ReadsInv'
<1>1. /\ top \in Levels /\ stack \in Seq(Levels)
      /\ From(text, pos) \in Positions(text)
      /\ Lvl(Len(stack)) \in 1 .. MaxDepth /\ Len(heap) \in Nat
      /\ DOMAIN heap = 1 .. Len(heap)
  BY TopFacts, PosFacts, ReadsFacts
<1>2. /\ l \in Levels /\ l.state = "eatws" /\ l.current = top.current
      /\ Doing(l) = y
  BY <1>1, LevelIs, LevelTo DEF States, Doing, Spaces
<1>3. pos' = pos /\ err' = err /\ phase' = "parse" /\ text' = text  BY DEF Redo
<1>4. \A j \in 1 .. Len(stack) - 1 :
        Meaning(heap')[stack[j].current] = Meaning(heap)[stack[j].current]
  <2> SUFFICES ASSUME NEW j \in 1 .. Len(stack) - 1
               PROVE  /\ stack[j].current \in 0 .. Len(heap)
                      /\ stack[j].current # top.current
    OBVIOUS
  <2>1. stack[j].current \in DOMAIN heap /\ stack[j].current # top.current
    BY AddFacts
  <2> QED BY <1>1, <2>1
<1>5. ASSUME NEW p \in Positions(text), TopReads(p)
      PROVE  Reads(text, Meaning(heap')[l.current], Meaning(heap')[obj'], l,
                   Lvl(Len(stack)), p, From(text, pos'))
  <2>1. PICK s \in Seq(Char) : s = text  BY PosFacts
  <2>2. PICK h \in 1 .. MaxDepth : h = Lvl(Len(stack))  BY <1>1
  <2>3. PICK q \in Positions(s) : q = From(text, pos)  BY <1>1, <2>1
  <2>4. PICK x : x = Meaning(heap)[top.current]  OBVIOUS
  <2>5. PICK v : v = Meaning(heap)[obj]  OBVIOUS
  <2>6. PICK n : n = top.name  OBVIOUS
  <2>7. top.state \notin Spaces  BY DEF Adds, Spaces
  <2>8. PICK i \in Positions(s) : /\ Before(s, x, type, n, h, p, i)
                                  /\ Nested(s)[h - 1][i] = [v |-> v, next |-> q]
    BY <1>5, <2>1, <2>2, <2>3, <2>4, <2>5, <2>6, <2>7, TopTells
  <2>9. PICK V : V = Nested(s)[h - 1]  OBVIOUS
  <2>10. PICK z : z = Grown(x, type, n, v)  OBVIOUS
  <2>11. BehindElement(s, z, type, h, p, q)
    <3>1. p \in Positions(s)  BY <1>5, <2>1
    <3>2. Before(s, x, type, n, h, p, i)  BY <2>8
    <3>3. \A w, r : V[i] = [v |-> w, next |-> r] /\ r # 0 =>
            BehindElement(s, Grown(x, type, n, w), type, h, p, r)
      BY <2>9, <3>1, <3>2, BeforeFacts
    <3>4. V[i] = [v |-> v, next |-> q] /\ q # 0  BY <2>8, <2>9 DEF Positions
    <3> QED BY ONLY <2>10, <3>3, <3>4
  <2>12. Meaning(heap')[l.current] = z  BY <1>2, <2>4, <2>5, <2>6, <2>10
  <2>13. PICK w : w = Meaning(heap')[obj']  OBVIOUS
  <2>14. PICK d : d = Doing(l)  OBVIOUS
  <2>15. \/ d = "array_sep" /\ BehindElement(s, z, "array", h, p, q)
         \/ d = "object_sep" /\ BehindElement(s, z, "object", h, p, q)
    BY <1>2, <2>11, <2>14 DEF Types
  <2>16. Reads(s, z, w, l, h, p, q)  BY ONLY <2>14, <2>15, ReadsIs
  <2> QED BY <1>3, <2>1, <2>2, <2>3, <2>12, <2>13, <2>16
<1>6. /\ l.state \notin Spaces \ {"eatws"}
      /\ l.state # "eatws" => At(text, pos') # "nl"
  BY <1>2
<1> QED BY ONLY <1>2, <1>3, <1>4, <1>5, <1>6, LevelReads, IInv, ReadsInv,
            NoComment, phase = "parse", stack' = WithTop(stack, l)

(* A place where the elements can go on or end.                            *)
LEMMA SepReads ==
  ASSUME IInv, ReadsInv, NoComment, phase = "parse",
         UNCHANGED <<text, obj, heap>>, NEW type \in Types,
         \A p \in Positions(text) : TopReads(p) =>
           BehindElement(text, Meaning(heap)[top.current], type,
                         Lvl(Len(stack)), p, From(text, pos)),
         At(text, pos) # "nl",
         \/ At(text, pos) = Close(type) /\ SpaceThen("finish") /\ Break
         \/ /\ At(text, pos) = Comma /\ Break
            /\ SpaceThen(IF type = "array" THEN "array"
                                           ELSE "object_field_start")
         \/ /\ At(text, pos) \notin {Comma, Close(type)}
            /\ \E e : e # "success" /\ Fail(e)
  PROVE  ReadsInv'
<1>1. PICK s \in Seq(Char) : s = text  BY PosFacts
<1>2. PICK h \in 1 .. MaxDepth : h = Lvl(Len(stack))  BY ReadsFacts
<1>3. PICK x : x = Meaning(heap)[top.current]  OBVIOUS
<1>4. From(text, pos) = pos  BY PosFacts
<1>5. PICK q : q = pos  OBVIOUS
<1>6. ASSUME NEW p \in Positions(text), TopReads(p)
      PROVE  /\ At(s, q) = Comma => AtElement(s, x, type, h, p, Behind(s, q))
             /\ At(s, q) = Close(type) =>
                  Nested(s)[h][p] = [v |-> x, next |-> Behind(s, q)]
             /\ At(s, q) \notin {Comma, Close(type)} => Nested(s)[h][p] = NoValue
  <2>1. p \in Positions(s) /\ BehindElement(s, x, type, h, p, q)
    BY <1>1, <1>2, <1>3, <1>4, <1>5, <1>6
  <2> QED BY ONLY <2>1, BehindElementFacts, s \in Seq(Char), type \in Types,
              h \in 1 .. MaxDepth
<1>7. CASE At(text, pos) = Close(type) /\ SpaceThen("finish") /\ Break
  <2>1. PICK y \in Saved : y = "finish"  BY DEF Saved
  <2>2. At(text, pos) # "nul" /\ Break /\ SpaceThen(y)
    BY <1>7, <2>1, MarkFacts
  <2>3. ASSUME NEW p \in Positions(text), TopReads(p), NEW l, Doing(l) = y
        PROVE  Reads(text, Meaning(heap)[top.current], Meaning(heap)[obj], l,
                     Lvl(Len(stack)), p, Behind(text, pos))
    <3>1. Nested(s)[h][p] = [v |-> x, next |-> Behind(s, q)]
      BY <1>1, <1>5, <1>6, <1>7, <2>3
    <3> QED BY <1>1, <1>2, <1>3, <1>5, <2>1, <2>3, <3>1, ReadsIs
  <2> QED BY <2>2, <2>3, ThenReads
<1>8. CASE /\ At(text, pos) = Comma /\ Break
           /\ SpaceThen(IF type = "array" THEN "array" ELSE "object_field_start")
  <2>1. PICK y \in Saved : y = IF type = "array" THEN "array"
                                                 ELSE "object_field_start"
    BY DEF Saved
  <2>2. At(text, pos) # "nul" /\ Break /\ SpaceThen(y)
    BY <1>8, <2>1, MarkFacts
  <2>3. ASSUME NEW p \in Positions(text), TopReads(p), NEW l, Doing(l) = y
        PROVE  Reads(text, Meaning(heap)[top.current], Meaning(heap)[obj], l,
                     Lvl(Len(stack)), p, Behind(text, pos))
    <3>1. AtElement(s, x, type, h, p, Behind(s, q))
      BY <1>1, <1>5, <1>6, <1>8, <2>3
    <3>2. \/ y = "array" /\ AtElement(s, x, "array", h, p, Behind(s, q))
          \/ /\ y = "object_field_start"
             /\ AtElement(s, x, "object", h, p, Behind(s, q))
      BY <2>1, <3>1 DEF Types
    <3> QED BY <1>1, <1>2, <1>3, <1>5, <2>3, <3>2, ReadsIs
  <2> QED BY <2>2, <2>3, ThenReads
<1>9. ASSUME At(text, pos) \notin {Comma, Close(type)}, NEW e, e # "success",
             Fail(e)
      PROVE  ReadsInv'
  <2>1. \A p \in Positions(text) : TopReads(p) =>
          Nested(text)[Lvl(Len(stack))][p] = NoValue
    BY <1>1, <1>2, <1>5, <1>6, <1>9
  <2> QED BY <1>9, <2>1, FailReads
<1> QED BY <1>7, <1>8, <1>9

LEMMA ArrayAdds ==
  ASSUME IInv, IInv', OrderInv, OrderInv', In("array_add"),
         heap' = [heap EXCEPT ![top.current].val = Append(@, obj)]
  PROVE  /\ \A k : Meaning(heap')[top.current]
                    = Grown(Meaning(heap)[top.current], "array", k,
                            Meaning(heap)[obj])
         /\ \A m \in 0 .. Len(heap) : m # top.current =>
              Meaning(heap')[m] = Meaning(heap)[m]
<1>1. /\ phase = "parse" /\ top.state = "array_add" /\ top.state \in Adds
      /\ Doing(top) = "array_add"
  BY DEF In, Adds, Doing, Spaces
<1>2. PICK o : o = top.current  OBVIOUS
<1>3. PICK g : g = heap'  OBVIOUS
<1>4. PICK v : v = obj  OBVIOUS
<1>5. g = AppendTo(heap, o, v)  BY <1>2, <1>3, <1>4 DEF AppendTo
<1>6. /\ o \in DOMAIN heap /\ o # Null /\ v \in 0 .. Len(heap) /\ After(v, o)
      /\ heap \in Seq(Nodes) /\ heap[o].type = "array" /\ v \in Nat
  BY <1>1, <1>2, <1>4, AddFacts, TopFacts DEF Holds
<1>7. NotInside(heap, o)
  <2>1. Len(stack) \in DOMAIN stack  BY <1>1, TopFacts
  <2> QED BY <1>2, <1>6, <2>1 DEF OrderInv, Apart, top
<1>8. /\ DOMAIN g = DOMAIN heap /\ g[o].type = "array"
      /\ g[o].val = Append(heap[o].val, v)
      /\ \A m \in DOMAIN heap : m # o =>
           g[m].type = heap[m].type /\ g[m].val = heap[m].val
  <2>1. o \in DOMAIN heap /\ heap[o].type = "array"  BY <1>6
  <2>2. heap \in Seq(Nodes) /\ v \in Nat  BY <1>6
  <2>3. /\ DOMAIN g = DOMAIN heap /\ g[o].type = "array"
        /\ g[o].val = Append(heap[o].val, v)
        /\ \A m \in DOMAIN heap : m # o =>
             g[m].type = heap[m].type /\ g[m].val = heap[m].val
        /\ Gains(heap, g, o, v)
    BY ONLY <1>5, <2>1, <2>2, ArrayAddChanges
  <2> QED BY <2>3
<1>9. HeapOK(heap) /\ HeapGrows(heap) /\ HeapOK(g) /\ HeapGrows(g)
  BY <1>3 DEF IInv, OrderInv
<1>10. /\ \A k : Meaning(g)[o] = Grown(Meaning(heap)[o], "array", k,
                                      Meaning(heap)[v])
       /\ \A m \in 0 .. Len(heap) : m # o => Meaning(g)[m] = Meaning(heap)[m]
  BY ONLY <1>6, <1>7, <1>8, <1>9, ArrayAddMeans
<1> QED BY <1>2, <1>3, <1>4, <1>10

LEMMA ArrayReads ==
  ASSUME IInv, IInv', OrderInv, OrderInv', ReadsInv, NoComment, Array
  PROVE  ReadsInv'
<1>1. /\ phase = "parse" /\ UNCHANGED <<text, obj>>
      /\ In("array") \/ In("array_add") \/ In("array_sep")
  BY DEF Array, In
<1>2. PICK s \in Seq(Char) : s = text  BY PosFacts
<1>3. PICK h \in 1 .. MaxDepth : h = Lvl(Len(stack))  BY <1>1, ReadsFacts
<1>4. PICK x : x = Meaning(heap)[top.current]  OBVIOUS
<1>5. /\ At(s, pos) = c /\ pos \in Positions(s) /\ top \in Levels
      /\ From(text, pos) = pos /\ At(text, pos) # "nl"
  <2>1. top.state # "eatws"  BY <1>1 DEF In
  <2> QED BY <1>1, <1>2, <2>1, ReadsFacts, PosFacts, TopFacts
<1>6. CASE In("array")
  <2>1. top.state = "array" /\ top.state \notin Spaces  BY <1>6 DEF In, Spaces
  <2>2. ASSUME NEW p \in Positions(text), TopReads(p)
        PROVE  /\ c = Close("array") =>
                    Nested(s)[h][p] = [v |-> x, next |-> Behind(s, pos)]
               /\ c # Close("array") =>
                    \A k : Before(s, x, "array", k, h, p, pos)
    <3>1. AtElement(s, x, "array", h, p, pos)
      BY <1>2, <1>3, <1>4, <1>5, <2>1, <2>2, TopTells
    <3>2. p \in Positions(s)  BY <1>2, <2>2
    <3> QED BY <1>5, <3>1, <3>2, ArrayFacts
  <2>3. CASE c = Close("array")
    <3>1. c = "]"  BY <2>3, MarksAre, Zenon
    <3>2. SpaceThen("finish") /\ Break /\ UNCHANGED heap
      <4>1. top.state # "array_add" /\ top.state # "array_sep"  BY <2>1
      <4> QED BY <3>1, <4>1, Zenon DEF Array, In
    <3>3. PICK y \in Saved : y = "finish"  BY DEF Saved
    <3>4. At(text, pos) # "nul" /\ Break /\ SpaceThen(y)
      BY <1>2, <1>5, <2>3, <3>2, <3>3, MarkFacts
    <3>5. ASSUME NEW p \in Positions(text), TopReads(p), NEW l, Doing(l) = y
          PROVE  Reads(text, Meaning(heap)[top.current], Meaning(heap)[obj], l,
                       Lvl(Len(stack)), p, Behind(text, pos))
      BY <1>2, <1>3, <1>4, <2>2, <2>3, <3>3, <3>5, ReadsIs
    <3> QED BY <1>1, <3>2, <3>4, <3>5, ThenReads
  <2>4. CASE c # Close("array")
    <3>1. c # "]"  BY <2>4, MarksAre, Zenon
    <3>2. Deeper("array_add") /\ UNCHANGED heap
      <4>1. top.state # "array_add" /\ top.state # "array_sep"  BY <2>1
      <4> QED BY <3>1, <4>1, Zenon DEF Array, In
    <3>3. PICK a \in Adds : a = "array_add"  BY DEF Adds
    <3>4. PICK type : type = IF a = "array_add" THEN "array" ELSE "object"
      OBVIOUS
    <3>5. \A p \in Positions(text) : TopReads(p) =>
            Before(text, Meaning(heap)[top.current], type, top.name,
                   Lvl(Len(stack)), p, From(text, pos))
      BY <1>2, <1>3, <1>4, <1>5, <2>2, <2>4, <3>3, <3>4
    <3>6. UNCHANGED <<text, heap>> /\ Deeper(a)  BY <1>1, <3>2, <3>3
    <3> QED BY ONLY <1>1, <3>4, <3>5, <3>6, a \in Adds, DeeperReads, IInv,
                ReadsInv, NoComment
  <2> QED BY <2>3, <2>4
<1>7. CASE In("array_add")
  <2>1. top.state = "array_add" /\ top.state \in Adds  BY <1>7 DEF In, Adds
  <2>2. /\ heap' = [heap EXCEPT ![top.current].val = Append(@, obj)]
        /\ SpaceThen("array_sep") /\ Redo
    BY <1>7 DEF Array, In
  <2>3. /\ \A k : Meaning(heap')[top.current]
                   = Grown(Meaning(heap)[top.current], "array", k,
                           Meaning(heap)[obj])
        /\ \A m \in 0 .. Len(heap) : m # top.current =>
             Meaning(heap')[m] = Meaning(heap)[m]
    BY <1>7, <2>2, ArrayAdds
  <2>4. PICK type \in Types : type = "array"  BY DEF Types
  <2>5. type = AddTo(top)  BY <2>1, <2>4 DEF AddTo
  <2>6. Meaning(heap')[top.current]
          = Grown(Meaning(heap)[top.current], type, top.name, Meaning(heap)[obj])
    BY <2>3, <2>4
  <2>7. \A m \in 0 .. Len(heap) : m # top.current =>
          Meaning(heap')[m] = Meaning(heap)[m]
    BY <2>3
  <2>8. PICK y \in Saved : y = "array_sep"  BY DEF Saved
  <2>9. y = IF type = "array" THEN "array_sep" ELSE "object_sep"  BY <2>4, <2>8
  <2>10. PICK k \in Key \cup {"none"} : k = top.name  BY <1>5, LevelIs
  <2>11. PICK l : l = [state |-> "eatws", saved |-> y, current |-> top.current,
                       name |-> k]
    OBVIOUS
  <2>12. stack' = WithTop(stack, l)
    <3>1. [top EXCEPT !.state = "eatws", !.saved = y] = l
      BY <1>5, <2>10, <2>11, LevelThen
    <3> QED BY <2>2, <2>8, <3>1 DEF SpaceThen, Level, WithTop
  <2>13. Redo /\ UNCHANGED <<text, obj>> /\ phase = "parse" /\ top.state \in Adds
    BY <1>1, <2>1, <2>2
  <2> QED BY ONLY <2>5, <2>6, <2>7, <2>9, <2>11, <2>12, <2>13, AddReads,
              type \in Types, y \in Saved, k \in Key \cup {"none"},
              IInv, OrderInv, ReadsInv, NoComment
<1>8. CASE In("array_sep")
  <2>1. top.state = "array_sep" /\ top.state \notin Spaces
    BY <1>8 DEF In, Spaces
  <2>2. PICK type \in Types : type = "array"  BY DEF Types
  <2>3. \A p \in Positions(text) : TopReads(p) =>
          BehindElement(text, Meaning(heap)[top.current], type,
                        Lvl(Len(stack)), p, From(text, pos))
    BY <2>1, <2>2, TopTells
  <2>4. /\ heap' = heap
        /\ \/ c = "]" /\ SpaceThen("finish") /\ Break
           \/ c = "," /\ SpaceThen("array") /\ Break
           \/ c \notin {"]", ","} /\ Fail("array")
    <3>1. top.state # "array" /\ top.state # "array_add"  BY <2>1
    <3> QED BY <3>1, Zenon DEF Array, In
  <2>5. \/ At(text, pos) = Close(type) /\ SpaceThen("finish") /\ Break
        \/ /\ At(text, pos) = Comma /\ Break
           /\ SpaceThen(IF type = "array" THEN "array" ELSE "object_field_start")
        \/ /\ At(text, pos) \notin {Comma, Close(type)}
           /\ \E e : e # "success" /\ Fail(e)
    <3>1. At(text, pos) = c /\ Close(type) = "]" /\ Comma = ","
      BY <1>2, <1>5, <2>2, MarksAre, Zenon
    <3>2. SpaceThen("array") =>
            SpaceThen(IF type = "array" THEN "array" ELSE "object_field_start")
      BY <2>2
    <3>3. Fail("array") => \E e : e # "success" /\ Fail(e)  OBVIOUS
    <3> QED BY <2>4, <3>1, <3>2, <3>3, Zenon
  <2>6. UNCHANGED <<text, obj, heap>> /\ phase = "parse" /\ At(text, pos) # "nl"
    BY <1>1, <1>5, <2>4
  <2> QED BY ONLY <2>3, <2>5, <2>6, SepReads, type \in Types, IInv, ReadsInv,
              NoComment
<1> QED BY <1>1, <1>6, <1>7, <1>8

LEMMA ObjectAdds ==
  ASSUME IInv, IInv', OrderInv, OrderInv', In("object_value_add"),
         heap' = ObjectAddTo(heap, top.current, top.name, obj)
  PROVE  /\ Meaning(heap')[top.current]
              = Grown(Meaning(heap)[top.current], "object", top.name,
                      Meaning(heap)[obj])
         /\ \A m \in 0 .. Len(heap) : m # top.current =>
              Meaning(heap')[m] = Meaning(heap)[m]
<1>1. /\ phase = "parse" /\ top.state = "object_value_add" /\ top.state \in Adds
      /\ Doing(top) = "object_value_add"
  BY DEF In, Adds, Doing, Spaces
<1>2. PICK o : o = top.current  OBVIOUS
<1>3. PICK g : g = heap'  OBVIOUS
<1>4. PICK v : v = obj  OBVIOUS
<1>5. PICK key : key = top.name  OBVIOUS
<1>6. g = ObjectAddTo(heap, o, key, v)  BY <1>2, <1>3, <1>4, <1>5
<1>7. /\ o \in DOMAIN heap /\ o # Null /\ v \in 0 .. Len(heap) /\ After(v, o)
      /\ heap \in Seq(Nodes) /\ heap[o].type = "object" /\ v \in Nat /\ key \in Key
  BY <1>1, <1>2, <1>4, <1>5, AddFacts, TopFacts DEF Holds
<1>8. NotInside(heap, o)
  <2>1. Len(stack) \in DOMAIN stack  BY <1>1, TopFacts
  <2> QED BY <1>2, <1>7, <2>1 DEF OrderInv, Apart, top
<1>9. HeapOK(heap) /\ HeapGrows(heap) /\ HeapOK(g) /\ HeapGrows(g)
  BY <1>3 DEF IInv, OrderInv
<1>10. /\ DOMAIN g = DOMAIN heap /\ g[o].type = "object"
       /\ g[o].val = ObjectAdd(heap[o].val, key, v)
       /\ \A m \in DOMAIN heap : m # o =>
            g[m].type = heap[m].type /\ g[m].val = heap[m].val
       /\ Gains(heap, g, o, v)
  <2>1. heap \in Seq(Nodes) /\ v \in Nat  BY <1>7
  <2>2. o \in DOMAIN heap /\ heap[o].type = "object" /\ key \in Key
        /\ Good(heap[o].val)
    BY <1>7, <1>9 DEF HeapOK
  <2> QED BY ONLY <1>6, <2>1, <2>2, ObjectAddChanges
<1>11. /\ Meaning(g)[o] = Grown(Meaning(heap)[o], "object", key, Meaning(heap)[v])
       /\ \A m \in 0 .. Len(heap) : m # o => Meaning(g)[m] = Meaning(heap)[m]
  BY ONLY <1>7, <1>8, <1>9, <1>10, ObjectAddMeans
<1> QED BY <1>2, <1>3, <1>4, <1>5, <1>11

LEMMA ObjectReads ==
  ASSUME IInv, IInv', OrderInv, OrderInv', ReadsInv, NoComment, Object
  PROVE  ReadsInv'
<1>1. /\ phase = "parse" /\ UNCHANGED <<text, obj>>
      /\ \/ In("object_field_start") \/ In("object_field_end")
         \/ In("object_value") \/ In("object_value_add") \/ In("object_sep")
  BY DEF Object, In
<1>2. PICK s \in Seq(Char) : s = text  BY PosFacts
<1>3. PICK h \in 1 .. MaxDepth : h = Lvl(Len(stack))  BY <1>1, ReadsFacts
<1>4. PICK x : x = Meaning(heap)[top.current]  OBVIOUS
<1>5. /\ At(s, pos) = c /\ pos \in Positions(s) /\ top \in Levels
      /\ From(text, pos) = pos /\ At(text, pos) # "nl"
  <2>1. top.state # "eatws"  BY <1>1 DEF In
  <2> QED BY <1>1, <1>2, <2>1, ReadsFacts, PosFacts, TopFacts
<1>6. ASSUME UNCHANGED heap, NEW e, e # "success", Fail(e),
             \A p \in Positions(s) : TopReads(p) => Nested(s)[h][p] = NoValue
      PROVE  ReadsInv'
  <2>1. \A p \in Positions(text) : TopReads(p) =>
          Nested(text)[Lvl(Len(stack))][p] = NoValue
    BY <1>2, <1>3, <1>6
  <2> QED BY <1>1, <1>6, <2>1, FailReads
<1>7. CASE In("object_field_start")
  <2>1. top.state = "object_field_start" /\ top.state \notin Spaces
    BY <1>7 DEF In, Spaces
  <2>2. ASSUME NEW p \in Positions(s), TopReads(p)
        PROVE  /\ c = Close("object") =>
                    Nested(s)[h][p] = [v |-> x, next |-> Behind(s, pos)]
               /\ c \in Key => AtColon(s, x, c, h, p, Behind(s, pos))
               /\ c \notin Key /\ c # Close("object") =>
                    Nested(s)[h][p] = NoValue
    <3>1. AtElement(s, x, "object", h, p, pos)
      BY <1>2, <1>3, <1>4, <1>5, <2>1, <2>2, TopTells
    <3> QED BY <1>5, <3>1, ObjectFacts
  <2>3. /\ heap' = heap
        /\ \/ c = "}" /\ SpaceThen("finish") /\ Break
           \/ /\ c # "}" /\ c \in Key /\ Break
              /\ Level([top EXCEPT !.state = "eatws",
                                   !.saved = "object_field_end", !.name = c])
           \/ /\ c # "}" /\ c \notin Key
              /\ Fail("eof") \/ Fail("key_name")
    <3>1. /\ top.state # "object_field_end" /\ top.state # "object_value"
          /\ top.state # "object_value_add" /\ top.state # "object_sep"
      BY <2>1
    <3>2. /\ heap' = heap
          /\ CASE c = "}"    -> SpaceThen("finish") /\ Break
               [] c \in Key  -> /\ Level([top EXCEPT !.state = "eatws",
                                                     !.saved = "object_field_end",
                                                     !.name = c])
                                /\ Break
               [] c = "open" -> Fail("eof")
               [] OTHER      -> Fail("key_name")
      BY <3>1, Zenon DEF Object, In
    <3>3. "}" \notin Key /\ "open" \notin Key  BY MarkFacts, MarksAre, Zenon
    <3>4. CASE c = "}"  BY ONLY <3>2, <3>3, <3>4, Zenon
    <3>5. CASE c # "}" /\ c \in Key  BY ONLY <3>2, <3>3, <3>5, Zenon
    <3>6. CASE c # "}" /\ c \notin Key /\ c = "open"
      BY ONLY <3>2, <3>3, <3>6, Zenon
    <3>7. CASE c # "}" /\ c \notin Key /\ c # "open"
      BY ONLY <3>2, <3>3, <3>7, Zenon
    <3> QED BY <3>4, <3>5, <3>6, <3>7
  <2>4. CASE c = "}" /\ SpaceThen("finish") /\ Break
    <3>1. c = Close("object")  BY <2>4, MarksAre, Zenon
    <3>2. PICK y \in Saved : y = "finish"  BY DEF Saved
    <3>3. SpaceThen(y) /\ Break  BY <2>4, <3>2, Zenon
    <3>4. At(text, pos) # "nul"  BY <1>2, <1>5, <3>1, MarkFacts
    <3>5. ASSUME NEW p \in Positions(text), TopReads(p), NEW l, Doing(l) = y
          PROVE  Reads(text, Meaning(heap)[top.current], Meaning(heap)[obj], l,
                       Lvl(Len(stack)), p, Behind(text, pos))
      BY <1>2, <1>3, <1>4, <2>2, <3>1, <3>2, <3>5, ReadsIs
    <3>6. UNCHANGED heap  BY <2>3
    <3> QED BY <1>1, <3>3, <3>4, <3>5, <3>6, ThenReads
  <2>5. CASE /\ c # "}" /\ c \in Key /\ Break
             /\ Level([top EXCEPT !.state = "eatws",
                                  !.saved = "object_field_end", !.name = c])
    <3>1. PICK k \in Key \cup {"none"} : k = c  BY <2>5
    <3>2. PICK y \in Saved : y = "object_field_end"  BY DEF Saved
    <3>3. PICK l : l = [state |-> "eatws", saved |-> y, current |-> top.current,
                        name |-> k]
      OBVIOUS
    <3>4. stack' = WithTop(stack, l)
      BY <1>1, <2>5, <3>1, <3>2, <3>3, LevelNamed
    <3>5. Doing(l) = "object_field_end" /\ l.current = top.current /\ l.name = k
      BY <3>2, <3>3 DEF Doing, Spaces
    <3>6. At(text, pos) # "nul" /\ c \in Key
      <4>1. "nul" \notin Key  BY MarkFacts
      <4> QED BY <1>2, <1>5, <2>5, <4>1
    <3>7. ASSUME NEW p \in Positions(text), TopReads(p)
          PROVE  Reads(text, Meaning(heap)[l.current], Meaning(heap)[obj], l,
                       Lvl(Len(stack)), p, Behind(text, pos))
      <4>1. AtColon(s, x, l.name, h, p, Behind(s, pos))
        BY <1>2, <2>2, <3>1, <3>5, <3>6, <3>7
      <4> QED BY <1>2, <1>3, <1>4, <3>5, <4>1, ReadsIs
    <3>8. UNCHANGED <<text, obj, heap>> /\ Break  BY <1>1, <2>3, <2>5
    <3> QED BY ONLY <1>1, <3>3, <3>4, <3>6, <3>7, <3>8, y \in Saved,
                k \in Key \cup {"none"}, SpaceReads, IInv, ReadsInv, NoComment
  <2>6. CASE /\ c # "}" /\ c \notin Key
             /\ Fail("eof") \/ Fail("key_name")
    <3>1. c # Close("object") /\ c \notin Key  BY <2>6, MarksAre, Zenon
    <3>2. PICK e \in {"eof", "key_name"} : Fail(e)  BY <2>6, Zenon
    <3>3. \A p \in Positions(s) : TopReads(p) => Nested(s)[h][p] = NoValue
      BY <2>2, <3>1
    <3>4. Fail(e) /\ e # "success"  BY <3>2
    <3> QED BY <1>6, <2>3, <3>3, <3>4
  <2> QED BY <2>3, <2>4, <2>5, <2>6
<1>8. CASE In("object_field_end")
  <2>1. top.state = "object_field_end" /\ top.state \notin Spaces
    BY <1>8 DEF In, Spaces
  <2>2. ASSUME NEW p \in Positions(s), TopReads(p)
        PROVE  /\ c = Colon =>
                    Before(s, x, "object", top.name, h, p, Behind(s, pos))
               /\ c # Colon => Nested(s)[h][p] = NoValue
    <3>1. AtColon(s, x, top.name, h, p, pos)
      BY <1>2, <1>3, <1>4, <1>5, <2>1, <2>2, TopTells
    <3>2. PICK k : k = top.name  OBVIOUS
    <3> QED BY <1>5, <3>1, <3>2, ColonFacts
  <2>3. /\ heap' = heap
        /\ IF c = ":" THEN SpaceThen("object_value") /\ Break
                      ELSE Fail("key_sep")
    <3>1. /\ top.state # "object_field_start" /\ top.state # "object_value"
          /\ top.state # "object_value_add" /\ top.state # "object_sep"
      BY <2>1
    <3> QED BY <3>1, Zenon DEF Object, In
  <2>4. CASE c = Colon
    <3>1. c = ":"  BY <2>4, MarksAre, Zenon
    <3>2. PICK y \in Saved : y = "object_value"  BY DEF Saved
    <3>3. SpaceThen(y) /\ Break  BY <2>3, <3>1, <3>2, Zenon
    <3>4. At(text, pos) # "nul"  BY <1>2, <1>5, <2>4, MarkFacts
    <3>5. ASSUME NEW p \in Positions(text), TopReads(p),
                 NEW l, Doing(l) = y, l.name = top.name
          PROVE  Reads(text, Meaning(heap)[top.current], Meaning(heap)[obj], l,
                       Lvl(Len(stack)), p, Behind(text, pos))
      <4>1. Before(s, x, "object", l.name, h, p, Behind(s, pos))
        BY <1>2, <2>2, <2>4, <3>5
      <4> QED BY <1>2, <1>3, <1>4, <3>2, <3>5, <4>1, ReadsIs
    <3>6. UNCHANGED heap  BY <2>3
    <3> QED BY <1>1, <3>3, <3>4, <3>5, <3>6, ThenReads
  <2>5. CASE c # Colon
    <3>1. c # ":"  BY <2>5, MarksAre, Zenon
    <3>2. Fail("key_sep")  BY <2>3, <3>1, Zenon
    <3>3. PICK e : e = "key_sep"  OBVIOUS
    <3>4. Fail(e) /\ e # "success"  BY <3>2, <3>3
    <3>5. \A p \in Positions(s) : TopReads(p) => Nested(s)[h][p] = NoValue
      BY <2>2, <2>5
    <3> QED BY <1>6, <2>3, <3>4, <3>5
  <2> QED BY <2>4, <2>5
<1>9. CASE In("object_value")
  <2>1. top.state = "object_value" /\ top.state \notin Spaces
    BY <1>9 DEF In, Spaces
  <2>2. Deeper("object_value_add") /\ heap' = heap
    <3>1. /\ top.state # "object_field_start" /\ top.state # "object_field_end"
          /\ top.state # "object_value_add" /\ top.state # "object_sep"
      BY <2>1
    <3> QED BY <3>1, Zenon DEF Object, In
  <2>3. PICK a \in Adds : a = "object_value_add"  BY DEF Adds
  <2>4. PICK type : type = IF a = "array_add" THEN "array" ELSE "object"
    OBVIOUS
  <2>5. type = "object"  BY <2>3, <2>4
  <2>6. \A p \in Positions(text) : TopReads(p) =>
          Before(text, Meaning(heap)[top.current], type, top.name,
                 Lvl(Len(stack)), p, From(text, pos))
    BY <2>1, <2>5, TopTells
  <2>7. UNCHANGED <<text, heap>> /\ Deeper(a)  BY <1>1, <2>2, <2>3
  <2> QED BY ONLY <1>1, <2>4, <2>6, <2>7, a \in Adds, DeeperReads, IInv,
              ReadsInv, NoComment
<1>10. CASE In("object_value_add")
  <2>1. top.state = "object_value_add" /\ top.state \in Adds
    BY <1>10 DEF In, Adds
  <2>2. /\ heap' = ObjectAddTo(heap, top.current, top.name, obj)
        /\ Level([top EXCEPT !.state = "eatws", !.saved = "object_sep",
                             !.name = "none"])
        /\ Redo
    <3>1. /\ top.state # "object_field_start" /\ top.state # "object_field_end"
          /\ top.state # "object_value" /\ top.state # "object_sep"
      BY <2>1
    <3> QED BY <3>1, Zenon DEF Object, In
  <2>3. /\ Meaning(heap')[top.current]
             = Grown(Meaning(heap)[top.current], "object", top.name,
                     Meaning(heap)[obj])
        /\ \A m \in 0 .. Len(heap) : m # top.current =>
             Meaning(heap')[m] = Meaning(heap)[m]
    BY <1>10, <2>2, ObjectAdds
  <2>4. PICK type \in Types : type = "object"  BY DEF Types
  <2>5. type = AddTo(top)  BY <2>1, <2>4 DEF AddTo
  <2>6. /\ Meaning(heap')[top.current]
             = Grown(Meaning(heap)[top.current], type, top.name,
                     Meaning(heap)[obj])
        /\ \A m \in 0 .. Len(heap) : m # top.current =>
             Meaning(heap')[m] = Meaning(heap)[m]
    BY <2>3, <2>4
  <2>7. PICK y \in Saved : y = "object_sep"  BY DEF Saved
  <2>8. y = IF type = "array" THEN "array_sep" ELSE "object_sep"  BY <2>4, <2>7
  <2>9. PICK k \in Key \cup {"none"} : k = "none"  OBVIOUS
  <2>10. PICK l : l = [state |-> "eatws", saved |-> y, current |-> top.current,
                       name |-> k]
    OBVIOUS
  <2>11. stack' = WithTop(stack, l)
    BY <1>1, <2>2, <2>7, <2>9, <2>10, LevelNamed
  <2>12. Redo /\ UNCHANGED <<text, obj>> /\ phase = "parse" /\ top.state \in Adds
    BY <1>1, <2>1, <2>2
  <2> QED BY ONLY <2>5, <2>6, <2>8, <2>10, <2>11, <2>12, AddReads,
              type \in Types, y \in Saved, k \in Key \cup {"none"},
              IInv, OrderInv, ReadsInv, NoComment
<1>11. CASE In("object_sep")
  <2>1. top.state = "object_sep" /\ top.state \notin Spaces
    BY <1>11 DEF In, Spaces
  <2>2. PICK type \in Types : type = "object"  BY DEF Types
  <2>3. \A p \in Positions(text) : TopReads(p) =>
          BehindElement(text, Meaning(heap)[top.current], type,
                        Lvl(Len(stack)), p, From(text, pos))
    BY <2>1, <2>2, TopTells
  <2>4. /\ heap' = heap
        /\ \/ c = "}" /\ SpaceThen("finish") /\ Break
           \/ c = "," /\ SpaceThen("object_field_start") /\ Break
           \/ c \notin {"}", ","} /\ Fail("value_sep")
    <3>1. /\ top.state # "object_field_start" /\ top.state # "object_field_end"
          /\ top.state # "object_value" /\ top.state # "object_value_add"
      BY <2>1
    <3> QED BY <3>1, Zenon DEF Object, In
  <2>5. \/ At(text, pos) = Close(type) /\ SpaceThen("finish") /\ Break
        \/ /\ At(text, pos) = Comma /\ Break
           /\ SpaceThen(IF type = "array" THEN "array" ELSE "object_field_start")
        \/ /\ At(text, pos) \notin {Comma, Close(type)}
           /\ \E e : e # "success" /\ Fail(e)
    <3>1. At(text, pos) = c /\ Close(type) = "}" /\ Comma = ","
      BY <1>2, <1>5, <2>2, MarksAre, Zenon
    <3>2. SpaceThen("object_field_start") =>
            SpaceThen(IF type = "array" THEN "array" ELSE "object_field_start")
      BY <2>2
    <3>3. Fail("value_sep") => \E e : e # "success" /\ Fail(e)  OBVIOUS
    <3> QED BY <2>4, <3>1, <3>2, <3>3, Zenon
  <2>6. UNCHANGED <<text, obj, heap>> /\ phase = "parse" /\ At(text, pos) # "nl"
    BY <1>1, <1>5, <2>4
  <2> QED BY ONLY <2>3, <2>5, <2>6, SepReads, type \in Types, IInv, ReadsInv,
              NoComment
<1> QED BY <1>1, <1>7, <1>8, <1>9, <1>10, <1>11

LEMMA InitReads ==
  ASSUME Init, NoComment PROVE ReadsInv
<1>1. /\ text \in Seq(Char) /\ pos = 1 /\ err = "success" /\ phase = "parse"
  BY TokenerAssumption DEF Init
<1>2. PICK st : st = <<NewLevel>>  OBVIOUS
<1>3. stack = st /\ Len(st) = 1 /\ top = NewLevel /\ st \in Seq({NewLevel})
  BY <1>2 DEF Init, top
<1>4. PICK q : q = From(text, 1)  OBVIOUS
<1>5. q \in Positions(text)
  <2>1. 1 \in Positions(text)  BY <1>1, UnitFacts
  <2> QED BY <1>1, <1>4, <2>1, FromFacts
<1>6. PICK P : P = [j \in 1 .. Len(st) |-> q]  OBVIOUS
<1>7. Chain(text, Meaning(heap), stack, P)
  <2>1. P \in [1 .. Len(st) -> Positions(text)] /\ P[1] = q
    BY <1>3, <1>5, <1>6
  <2>2. 1 .. Len(st) - 1 = {}  BY <1>3
  <2> QED BY <1>3, <1>4, <2>1, <2>2 DEF Chain
<1>8. TopReads(P[Len(stack)])
  <2>1. P[Len(stack)] = q /\ From(text, pos) = q  BY <1>1, <1>3, <1>4, <1>6
  <2> QED BY <1>3, <2>1, NewLevelReads DEF TopReads
<1>9. top.state = "eatws"  BY <1>3 DEF NewLevel
<1> QED BY <1>1, <1>7, <1>8, <1>9 DEF ReadsInv, ReadsParse

LEMMA AlwaysReads == Spec => []ReadsInv
<1>1. Init => ReadsInv  BY InitReads DEF ReadsInv
<1>2. /\ IInv /\ IInv' /\ OrderInv /\ OrderInv' /\ ReadsInv /\ [Next]_vars
      => ReadsInv'
  <2> SUFFICES ASSUME IInv, IInv', OrderInv, OrderInv', ReadsInv, [Next]_vars
               PROVE  ReadsInv'
    OBVIOUS
  <2>1. CASE UNCHANGED vars
    BY <2>1 DEF vars, ReadsInv, NoComment, ReadsParse, TopReads, top, Returns
  <2>2. CASE Next
    <3>1. text' = text
      BY <2>2 DEF Next, Eatws, Comment, Start, Finish, Array, Object, Return, Same
    <3>2. CASE ~NoComment  BY <3>1, <3>2 DEF ReadsInv, NoComment
    <3>3. CASE NoComment
      BY <2>2, <3>3, EatwsReads, CommentReads, StartReads, FinishReads,
         ArrayReads, ObjectReads, ReturnReads DEF Next
    <3> QED BY <3>2, <3>3
  <2> QED BY <2>1, <2>2
<1> QED BY <1>1, <1>2, Inductive, Ordered, PTL DEF Spec

(* json_tokener_parse returns the value that the text begins with if it    *)
(* begins with one, and otherwise nothing and an error: for any text       *)
(* without comments, any tables and any depth.                             *)
THEOREM ResultIsRight == Spec => []ResultIsTheFirstValue
<1>1. ReadsInv => ResultIsTheFirstValue
  BY DEF ReadsInv, Returns, ResultIsTheFirstValue
<1> QED BY <1>1, AlwaysReads, PTL
=============================================================================
