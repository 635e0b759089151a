--------------------------- MODULE SilenceTrimProofs ---------------------------
(***************************************************************************)
(* Proofs about SilenceTrim for every block length, threshold and input:   *)
(* whatever the samples are, what is written fits where it is written.     *)
(***************************************************************************)
EXTENDS SilenceTrim, WellFoundedInduction, TLAPS

(* The inductive invariant: what has been written comes from what has been *)
(* looked at.                                                              *)
IInv ==
  /\ TypeOK
  /\ phase = "enter" => out = << >>
  /\ phase \in {"enter", "weigh", "scan"} => Len(out) <= start
  /\ phase = "scan" => k <= Size /\ Len(win) <= k /\ p <= Len(win)
  /\ Len(out) <= Length

(* A block lies within the input, and only the last one is short.          *)
LEMMA SizeFacts ==
  ASSUME input \in Inputs, start \in 0 .. Length
  PROVE  /\ Length \in Nat
         /\ Size \in 0 .. BlockLen
         /\ start + Size <= Length
         /\ ~(Size < BlockLen) => start + BlockLen \in 0 .. Length
<1>1. Length \in Nat /\ BlockLen \in Nat \ {0}
  BY TrimAssumption DEF Length
<1> QED  BY <1>1 DEF Size

(* The samples of the current block are samples of the input.              *)
LEMMA CurrentFacts ==
  ASSUME input \in Inputs, start \in 0 .. Length, k \in Nat, k < Size
  PROVE  Current[k + 1] \in Sample
<1>1. input \in Seq(Sample)
  BY TrimAssumption
<1>2. /\ Length \in Nat /\ start \in Nat
      /\ Size \in Nat /\ start + Size <= Length
  BY SizeFacts, TrimAssumption
<1> DEFINE m == start + 1
           n == start + Size
<1>3. m \in 1 .. Len(input) + 1 /\ n \in m - 1 .. Len(input)
  BY <1>2 DEF Length
<1>4. Current = [i \in 1 .. n - m + 1 |-> input[i + m - 1]]
  BY <1>1, <1>3 DEF Current
<1>5. k + 1 \in 1 .. n - m + 1
  BY <1>2
<1>6. Current[k + 1] = input[k + 1 + m - 1]
  BY <1>4, <1>5
<1>7. k + 1 + m - 1 \in 1 .. Len(input)
  BY <1>2 DEF Length
<1> QED  BY <1>1, <1>6, <1>7

(* Silence is a sample.                                                    *)
LEMMA ZerosFacts == Zeros \in Sample \X Sample \X Sample
<1>1. 0 \in Sample
  BY DEF Sample
<1> DEFINE z == 0
<1>2. z \in Sample
  BY <1>1
<1>3. Zeros = <<z, z, z>>
  BY DEF Zeros
<1> HIDE DEF z
<1> QED  BY <1>2, <1>3

(* The function starts with nothing written.                               *)
LEMMA InitIInv == Init => IInv
<1> SUFFICES ASSUME Init PROVE IInv
  OBVIOUS
<1> DEFINE none == << >>
<1>1. none \in Seq(Sample) /\ Len(none) = 0
  OBVIOUS
<1>2. win = none /\ out = none
  BY DEF Init
<1>3. Length \in Nat
  BY TrimAssumption DEF Init, Length
<1>4. old \in Sample \X Sample \X Sample
  BY ZerosFacts DEF Init
<1>5. /\ input \in Inputs /\ block = "null" /\ phase = "enter"
      /\ start = 0 /\ k = 0 /\ p = 0
  BY DEF Init
<1>6. out = << >>
  BY DEF Init
<1> HIDE DEF none
<1>7. Len(out) = 0 /\ win \in Seq(Sample) /\ out \in Seq(Sample)
  BY <1>1, <1>2
<1>8. TypeOK
  BY <1>3, <1>4, <1>5, <1>7, TrimAssumption DEF TypeOK
<1> QED  BY <1>3, <1>5, <1>6, <1>7, <1>8 DEF IInv

(* Every step of the function keeps the invariant.                         *)
LEMMA StepIInv == IInv /\ [Next]_vars => IInv'
<1> SUFFICES ASSUME IInv, [Next]_vars PROVE IInv'
  OBVIOUS
<1> USE DEF IInv, TypeOK
<1>0. BlockLen \in Nat \ {0} /\ Length \in Nat
  BY SizeFacts, TrimAssumption
<1>1. CASE Allocate
  <2>1. Length' = Length /\ Len(out') = 0
    BY <1>1 DEF Allocate, Length
  <2> QED  BY <1>0, <1>1, <2>1 DEF Allocate
<1>2. CASE WeighLoud
  <2> DEFINE none == << >>
  <2>1. none \in Seq(Sample) /\ Len(none) = 0
    OBVIOUS
  <2>2. Length' = Length /\ Size' = Size /\ Size \in Nat
    BY <1>2, SizeFacts DEF WeighLoud, Length, Size
  <2>3. win' = none /\ k' = 0 /\ p' = 0 /\ phase' = "scan"
    BY <1>2 DEF WeighLoud, BeginScan
  <2>4. old' \in Sample \X Sample \X Sample
    BY <1>2, ZerosFacts DEF WeighLoud, BeginScan
  <2>5. phase = "weigh" /\ UNCHANGED <<input, block, start, out>>
    BY <1>2 DEF WeighLoud
  <2> HIDE DEF none
  <2>6. /\ win' \in Seq(Sample) /\ Len(win') = 0
        /\ k' \in 0 .. BlockLen /\ p' \in -2 .. BlockLen
    BY <1>0, <2>1, <2>3
  <2>7. TypeOK'
    BY <2>2, <2>3, <2>4, <2>5, <2>6
  <2>8. Len(out') <= start' /\ Len(out') <= Length'
    BY <2>2, <2>5
  <2> QED  BY <2>2, <2>3, <2>6, <2>7, <2>8
<1>3. CASE WeighQuiet
  <2>1. Length' = Length
    BY <1>3 DEF WeighQuiet, Length
  <2>2. phase' \in {"done", "weigh"} /\ phase = "weigh"
    BY <1>3 DEF WeighQuiet
  <2>3. start' \in 0 .. Length /\ start <= start'
    BY <1>0, <1>3, SizeFacts DEF WeighQuiet
  <2>4. UNCHANGED <<input, block, k, win, p, old, out>>
    BY <1>3 DEF WeighQuiet
  <2>5. Len(out') <= start'
    BY <2>2, <2>3, <2>4
  <2> QED  BY <1>0, <2>1, <2>2, <2>3, <2>4, <2>5
<1>4. CASE ScanSample
  <2> DEFINE cur == Current[k + 1]
  <2>1. /\ phase = "scan" /\ k < Size
        /\ k' = k + 1
        /\ old' = <<cur, old[1], old[2]>>
        /\ UNCHANGED <<input, block, phase, start, out>>
    BY <1>4 DEF ScanSample
  <2>2. Length' = Length /\ Size' = Size /\ Size \in 0 .. BlockLen
    BY <2>1, SizeFacts DEF Length, Size
  <2>3. cur \in Sample
    BY <2>1, CurrentFacts
  <2> HIDE DEF cur
  <2>4. old' \in Sample \X Sample \X Sample
    BY <2>1, <2>3
  <2>5. /\ win' \in Seq(Sample)
        /\ p' \in -2 .. BlockLen
        /\ Len(win') <= k'
        /\ p' <= Len(win')
    <3>1. CASE /\ win' = IF p >= 0 THEN SubSeq(win, 1, p) ELSE win
               /\ p' = p
      <4>1. CASE p >= 0
        <5>1. p \in 0 .. Len(win)
          BY <2>1, <4>1
        <5>2. SubSeq(win, 1, p) \in Seq(Sample) /\ Len(SubSeq(win, 1, p)) = p
          BY <5>1
        <5> QED  BY <1>0, <2>1, <2>2, <3>1, <4>1, <5>1, <5>2
      <4>2. CASE ~(p >= 0)
        BY <1>0, <2>1, <2>2, <3>1, <4>2
      <4> QED  BY <4>1, <4>2
    <3>2. CASE win' = Append(win, cur) /\ p' = BackTo(Len(win) + 1)
      <4>1. win' \in Seq(Sample) /\ Len(win') = Len(win) + 1
        BY <2>3, <3>2
      <4>2. p' = Len(win) - 2 /\ Len(win) \in Nat
        BY <3>2 DEF BackTo
      <4> QED  BY <1>0, <2>1, <2>2, <4>1, <4>2
    <3> QED  BY <1>4, <3>1, <3>2 DEF ScanSample, cur
  <2> QED  BY <1>0, <2>1, <2>2, <2>4, <2>5
<1>5. CASE Copy
  <2>1. /\ phase = "scan" /\ k = Size
        /\ UNCHANGED <<input, block, k, win, p, old>>
    BY <1>5 DEF Copy
  <2>2. Length' = Length /\ start + Size <= Length /\ Size \in 0 .. BlockLen
    BY <2>1, SizeFacts DEF Length
  <2>3. CASE phase' = "dead" /\ UNCHANGED <<start, out>>
    BY <1>0, <2>1, <2>2, <2>3
  <2>4. CASE /\ out' = out \o win
             /\ IF Size < BlockLen
                THEN phase' = "done" /\ start' = start
                ELSE phase' = "weigh" /\ start' = start + BlockLen
    <3>1. out' \in Seq(Sample) /\ Len(out') = Len(out) + Len(win)
      BY <2>4
    <3>2. Len(out') <= start + Size
      BY <1>0, <2>1, <2>2, <3>1
    <3>3. /\ start' \in 0 .. Length
          /\ phase' \in {"done", "weigh"}
          /\ phase' = "weigh" => start' = start + Size
      BY <1>0, <2>2, <2>4, SizeFacts
    <3>4. Len(out') \in Nat /\ start \in Nat
      BY <1>0, <3>1
    <3> QED  BY <1>0, <2>1, <2>2, <3>1, <3>2, <3>3, <3>4
  <2> QED  BY <1>5, <2>3, <2>4 DEF Copy
<1>6. CASE UNCHANGED vars
  BY <1>6 DEF vars, Length, Size
<1> QED  BY <1>1, <1>2, <1>3, <1>4, <1>5, <1>6 DEF Next

(* The invariant holds throughout.                                         *)
LEMMA SpecIInv == Spec => []IInv
<1>1. Init => IInv
  BY InitIInv
<1>2. IInv /\ [Next]_vars => IInv'
  BY StepIInv
<1> QED  BY <1>1, <1>2, PTL DEF Spec

(* The variables of detect_valid_speech keep their types: every sample it  *)
(* reads is in the input, and the places it remembers are in range.        *)
THEOREM TypeCorrect == Spec => []TypeOK
<1>1. IInv => TypeOK
  BY DEF IInv
<1> QED  BY <1>1, SpecIInv, PTL

(* For every block length and input, win_buf holds what is written to it,  *)
(* going back stays inside, and the output never exceeds the length it was *)
(* allocated with.                                                         *)
THEOREM OutputFits == Spec => []Fits
<1>1. IInv => Fits
  <2> SUFFICES ASSUME IInv PROVE Fits
    OBVIOUS
  <2>1. /\ Length \in Nat /\ start + Size <= Length
        /\ Size \in 0 .. BlockLen /\ BlockLen \in Nat
    BY SizeFacts, TrimAssumption DEF IInv, TypeOK
  <2>2. phase = "scan" =>
          /\ start + k <= Length
          /\ Len(out) + Len(win) <= start + k
    BY <2>1 DEF IInv, TypeOK
  <2> QED  BY <2>2 DEF Fits, IInv
<1> QED  BY <1>1, SpecIInv, PTL
-----------------------------------------------------------------------------
(* Every set of numbers has a least one ...                                *)
LEMMA Least ==
  ASSUME NEW S \in SUBSET Nat, S # {}
  PROVE  \E m \in S : \A n \in S : m <= n
<1> DEFINE R == OpToRel(<, Nat)
<1>1. IsWellFoundedOn(R, Nat)
  BY NatLessThanWellFounded
<1>2. \A x, y \in Nat : x < y => <<x, y>> \in R
  BY DEF OpToRel
<1> HIDE DEF R
<1>3. PICK m \in S : \A y \in S : ~(<<y, m>> \in R)
  BY <1>1, WFMin
<1>4. \A n \in S : ~(n < m)
  BY <1>2, <1>3
<1> QED  BY <1>3, <1>4

(* ... so that a set is all numbers if it has 0 and every next number.     *)
LEMMA SetInduction ==
  ASSUME NEW S, 0 \in S, \A n \in Nat : n \in S => n + 1 \in S
  PROVE  Nat \subseteq S
<1> DEFINE T == Nat \ S
<1>1. ASSUME T # {} PROVE FALSE
  <2>1. PICK m \in T : \A n \in T : m <= n
    BY <1>1, Least
  <2>2. m # 0 /\ m - 1 \in Nat /\ m - 1 \notin T
    BY <2>1
  <2> QED  BY <2>1, <2>2
<1> QED  BY <1>1

(* f begins with a, and F makes each of the m next values from the one     *)
(* before.                                                                 *)
Follows(f, a, F, m) ==
  f[0] = a /\ \A n \in 1 .. m : f[n] = F[<<n, f[n - 1]>>]

(* Such a function can be told its next value.                            *)
LEMMA RecursionStep ==
  ASSUME NEW S, NEW N \in Nat, NEW a \in S, NEW F \in [(1 .. N) \X S -> S],
         NEW m \in Nat, m + 1 <= N,
         NEW f \in [0 .. m -> S],
         Follows(f, a, F, m)
  PROVE  \E g \in [0 .. m + 1 -> S] : Follows(g, a, F, m + 1)
<1> USE DEF Follows
<1>1. PICK v \in S : v = F[<<m + 1, f[m]>>]
  <2>1. m + 1 \in 1 .. N /\ f[m] \in S
    OBVIOUS
  <2>2. <<m + 1, f[m]>> \in (1 .. N) \X S
    BY <2>1
  <2>3. F[<<m + 1, f[m]>>] \in S
    BY <2>2
  <2> QED  BY <2>3
<1>2. PICK g \in [0 .. m + 1 -> S] :
             g[m + 1] = v /\ \A n \in 0 .. m : g[n] = f[n]
  <2> DEFINE g == [n \in 0 .. m + 1 |-> IF n = m + 1 THEN v ELSE f[n]]
  <2>1. \A n \in 0 .. m + 1 : n # m + 1 => n \in 0 .. m
    OBVIOUS
  <2>2. m + 1 \in 0 .. m + 1 /\ \A n \in 0 .. m : n \in 0 .. m + 1 /\ n # m + 1
    OBVIOUS
  <2>3. g \in [0 .. m + 1 -> S]
    BY <2>1
  <2>4. g[m + 1] = v /\ \A n \in 0 .. m : g[n] = f[n]
    BY <2>2
  <2> QED  BY <2>3, <2>4
<1>3. ASSUME NEW n \in 1 .. m + 1 PROVE g[n] = F[<<n, g[n - 1]>>]
  <2>1. n - 1 \in 0 .. m
    OBVIOUS
  <2>2. g[n - 1] = f[n - 1]
    BY <1>2, <2>1
  <2>3. CASE n = m + 1
    <3>1. n - 1 = m
      BY <2>3
    <3> QED  BY <1>1, <1>2, <2>2, <2>3, <3>1
  <2>4. CASE n # m + 1
    <3>1. n \in 1 .. m /\ n \in 0 .. m
      BY <2>4
    <3> QED  BY <1>2, <2>2, <3>1
  <2> QED  BY <2>3, <2>4
<1>4. 0 \in 0 .. m
  OBVIOUS
<1> QED  BY <1>2, <1>3, <1>4

(* A function may be defined by what its first value is and how each value *)
(* follows from the one before.                                            *)
LEMMA RecursionExists ==
  ASSUME NEW S, NEW N \in Nat, NEW a \in S, NEW F \in [(1 .. N) \X S -> S]
  PROVE  \E f \in [0 .. N -> S] : Follows(f, a, F, N)
<1> DEFINE Upto(m) == \E f \in [0 .. m -> S] : Follows(f, a, F, m)
           T == {m \in Nat : m <= N => Upto(m)}
<1>1. Upto(0)
  <2> DEFINE g == [n \in 0 .. 0 |-> a]
  <2>1. g \in [0 .. 0 -> S] /\ g[0] = a /\ \A n \in 1 .. 0 : FALSE
    OBVIOUS
  <2> HIDE DEF g
  <2> QED  BY <2>1 DEF Follows
<1>2. ASSUME NEW m \in Nat, m + 1 <= N, Upto(m) PROVE Upto(m + 1)
  <2>1. PICK f \in [0 .. m -> S] : Follows(f, a, F, m)
    BY <1>2
  <2> QED  BY <1>2, <2>1, RecursionStep
<1> HIDE DEF Upto
<1>3. 0 \in T
  BY <1>1
<1>4. ASSUME NEW m \in Nat, m \in T PROVE m + 1 \in T
  BY <1>2, <1>4
<1>5. N \in T
  <2> HIDE DEF T
  <2> QED  BY <1>3, <1>4, SetInduction
<1> QED  BY <1>5 DEF Upto

-----------------------------------------------------------------------------
(* b without the samples whose places are in D, up to its n-th sample.     *)
Filters(b, D, f) ==
  /\ f \in [0 .. Len(b) -> Seq(Sample)]
  /\ f[0] = << >>
  /\ \A n \in 1 .. Len(b) :
       f[n] = IF n \in D THEN f[n - 1] ELSE Append(f[n - 1], b[n])

(* Every block has such a filter.                                          *)
LEMMA FilterExists ==
  ASSUME NEW b \in Seq(Sample), NEW D
  PROVE  \E f : Filters(b, D, f)
<1> DEFINE none == << >>
           F == [x \in (1 .. Len(b)) \X Seq(Sample) |->
                   IF x[1] \in D THEN x[2] ELSE Append(x[2], b[x[1]])]
<1>1. Len(b) \in Nat /\ none \in Seq(Sample)
  OBVIOUS
<1>2. F \in [(1 .. Len(b)) \X Seq(Sample) -> Seq(Sample)]
  <2>1. ASSUME NEW n \in 1 .. Len(b), NEW s \in Seq(Sample)
        PROVE  (IF n \in D THEN s ELSE Append(s, b[n])) \in Seq(Sample)
    <3>1. b[n] \in Sample
      OBVIOUS
    <3>2. Append(s, b[n]) \in Seq(Sample)
      BY <3>1
    <3> QED  BY <3>2
  <2> QED  BY <2>1
<1>3. ASSUME NEW n \in 1 .. Len(b), NEW s \in Seq(Sample)
      PROVE  F[<<n, s>>] = IF n \in D THEN s ELSE Append(s, b[n])
  OBVIOUS
<1> HIDE DEF F, none
<1>4. PICK f \in [0 .. Len(b) -> Seq(Sample)] : Follows(f, none, F, Len(b))
  BY <1>1, <1>2, RecursionExists
<1>5. ASSUME NEW n \in 1 .. Len(b)
      PROVE  f[n] = IF n \in D THEN f[n - 1] ELSE Append(f[n - 1], b[n])
  <2>1. f[n - 1] \in Seq(Sample)
    OBVIOUS
  <2> QED  BY <1>3, <1>4, <2>1 DEF Follows
<1> QED  BY <1>4, <1>5 DEF Filters, Follows, none

(* What it keeps of the first n samples depends on their places only.      *)
LEMMA FilterAgrees ==
  ASSUME NEW b \in Seq(Sample), NEW D, NEW E, NEW f, NEW g,
         Filters(b, D, f), Filters(b, E, g),
         NEW n \in 0 .. Len(b), \A i \in 1 .. n : i \in D <=> i \in E
  PROVE  f[n] = g[n]
<1> DEFINE T == {m \in Nat : m <= n => f[m] = g[m]}
<1>0. n \in Nat /\ Len(b) \in Nat /\ n <= Len(b)
  OBVIOUS
<1>1. 0 \in T
  BY DEF Filters
<1>2. ASSUME NEW m \in Nat, m \in T PROVE m + 1 \in T
  <2> SUFFICES ASSUME m + 1 <= n PROVE f[m + 1] = g[m + 1]
    OBVIOUS
  <2>1. /\ m + 1 \in 1 .. Len(b) /\ m + 1 \in 1 .. n
        /\ (m + 1) - 1 = m /\ m <= n
    BY <1>0
  <2>2. f[m] = g[m]
    BY <1>2, <2>1
  <2> QED  BY <2>1, <2>2 DEF Filters
<1>3. Nat \subseteq T
  <2> HIDE DEF T
  <2> QED  BY <1>1, <1>2, SetInduction
<1> QED  BY <1>0, <1>3

(* KeptOf is the filter of the samples that stand still.                   *)
LEMMA KeptOfFilters ==
  ASSUME NEW b \in Seq(Sample), NEW f,
         Filters(b, {i \in 1 .. Len(b) : StandsStill(b, i)}, f)
  PROVE  KeptOf(b) = f[Len(b)]
<1> DEFINE D == {i \in 1 .. Len(b) : StandsStill(b, i)}
           Rec(g) == [n \in 0 .. Len(b) |->
                       IF n = 0 THEN << >>
                       ELSE IF StandsStill(b, n) THEN g[n - 1]
                       ELSE Append(g[n - 1], b[n])]
           kept == CHOOSE g : g = Rec(g)
<1>1. KeptOf(b) = kept[Len(b)]
  BY DEF KeptOf
<1>2. f = Rec(f)
  <2>1. f = [n \in 0 .. Len(b) |-> f[n]]
    BY DEF Filters
  <2>2. ASSUME NEW n \in 0 .. Len(b) PROVE f[n] = Rec(f)[n]
    <3>1. CASE n = 0
      BY <3>1 DEF Filters
    <3>2. CASE n # 0
      <4>1. n \in 1 .. Len(b)
        BY <3>2
      <4> QED  BY <3>2, <4>1 DEF Filters
    <3> QED  BY <3>1, <3>2
  <2> QED  BY <2>1, <2>2
<1>3. kept = Rec(kept)
  <2> HIDE DEF Rec
  <2> QED  BY <1>2
<1>4. \A n \in 0 .. Len(b) : kept[n] = f[n]
  <2> DEFINE T == {m \in Nat : m <= Len(b) => kept[m] = f[m]}
  <2> HIDE DEF kept
  <2>0. Len(b) \in Nat
    OBVIOUS
  <2>1. 0 \in T
    BY <1>3, <2>0 DEF Filters
  <2>2. ASSUME NEW m \in Nat, m \in T PROVE m + 1 \in T
    <3> SUFFICES ASSUME m + 1 <= Len(b) PROVE kept[m + 1] = f[m + 1]
      OBVIOUS
    <3>1. /\ m + 1 \in 1 .. Len(b) /\ m + 1 \in 0 .. Len(b) /\ m + 1 # 0
          /\ (m + 1) - 1 = m /\ m <= Len(b)
      BY <2>0
    <3>2. kept[m] = f[m]
      BY <2>2, <3>1
    <3>3. kept[m + 1] = IF StandsStill(b, m + 1) THEN kept[m]
                        ELSE Append(kept[m], b[m + 1])
      BY <1>3, <3>1
    <3>4. f[m + 1] = IF StandsStill(b, m + 1) THEN f[m]
                     ELSE Append(f[m], b[m + 1])
      BY <3>1 DEF Filters
    <3> QED  BY <3>2, <3>3, <3>4
  <2>3. Nat \subseteq T
    <3> HIDE DEF T
    <3> QED  BY <2>1, <2>2, SetInduction
  <2> QED  BY <2>0, <2>3
<1>5. Len(b) \in 0 .. Len(b)
  OBVIOUS
<1> HIDE DEF kept
<1> QED  BY <1>1, <1>4, <1>5
-----------------------------------------------------------------------------
(* The three zeros and the samples of b, as Zeros \o b.                    *)
Place(b, m) == IF m <= 3 THEN 0 ELSE b[m - 3]

(* The four samples from place a on are equal.                             *)
Four(b, a) ==
  /\ Place(b, a + 1) = Place(b, a)
  /\ Place(b, a + 2) = Place(b, a)
  /\ Place(b, a + 3) = Place(b, a)

(* The samples that the first n samples of b show to stand still.          *)
Dropped(b, n) ==
  {i \in 1 .. Len(b) : \E a \in i .. i + 3 : a <= n /\ Four(b, a)}

(* The loop has looked at n samples of b: win_buf is the filter of what it *)
(* knows, and p where win_buf ends, or ended three samples ago.            *)
Scanned(b, n, w, q, o) ==
  /\ o = <<Place(b, n + 3), Place(b, n + 2), Place(b, n + 1)>>
  /\ \A f : Filters(b, Dropped(b, n), f) => w = f[n]
  /\ q = IF n = 0 THEN 0 ELSE IF Four(b, n) THEN Len(w) ELSE Len(w) - 3

(* What two sequences make one behind the other.                           *)
LEMMA ConcatFacts ==
  ASSUME NEW S, NEW s \in Seq(S), NEW t \in Seq(S)
  PROVE  /\ Len(s \o t) = Len(s) + Len(t)
         /\ \A i \in 1 .. Len(s) : (s \o t)[i] = s[i]
         /\ \A i \in Len(s) + 1 .. Len(s) + Len(t) : (s \o t)[i] = t[i - Len(s)]
  OBVIOUS

(* Behind the last sample the loop knows all that stand still.             *)
LEMMA DroppedInTheEnd ==
  ASSUME NEW b \in Seq(Sample)
  PROVE  Dropped(b, Len(b)) = {i \in 1 .. Len(b) : StandsStill(b, i)}
<1> DEFINE N == Len(b)
           c == Zeros \o b
<1>1. N \in Nat
  OBVIOUS
<1>2. Zeros \in Seq(Sample) /\ Len(Zeros) = 3
  <2> DEFINE z == 0
  <2>1. z \in Sample /\ Zeros = <<z, z, z>>
    BY DEF Sample, Zeros
  <2> HIDE DEF z
  <2> QED  BY <2>1
<1>3. /\ Len(c) = N + 3
      /\ \A i \in 1 .. 3 : c[i] = Zeros[i]
      /\ \A i \in 3 + 1 .. 3 + N : c[i] = b[i - 3]
  <2> DEFINE z == Zeros
  <2>1. z \in Seq(Sample) /\ Len(z) = 3
    BY <1>2
  <2> HIDE DEF z
  <2>2. /\ Len(z \o b) = 3 + N
        /\ \A i \in 1 .. 3 : (z \o b)[i] = z[i]
        /\ \A i \in 3 + 1 .. 3 + N : (z \o b)[i] = b[i - 3]
    <3>1. /\ Len(z \o b) = Len(z) + Len(b)
          /\ \A i \in 1 .. Len(z) : (z \o b)[i] = z[i]
          /\ \A i \in Len(z) + 1 .. Len(z) + Len(b) : (z \o b)[i] = b[i - Len(z)]
      BY <2>1, ConcatFacts
    <3> QED  BY <2>1, <3>1
  <2> QED  BY <1>1, <2>2 DEF z
<1>4. ASSUME NEW m \in 1 .. N + 3 PROVE c[m] = Place(b, m)
  <2>1. CASE m <= 3
    <3>2. c[m] = Zeros[m]
      BY <1>3, <2>1
    <3>3. m = 1 \/ m = 2 \/ m = 3
      BY <2>1
    <3>4. Zeros[m] = 0
      BY <3>3 DEF Zeros
    <3> QED  BY <2>1, <3>2, <3>4 DEF Place
  <2>2. CASE ~(m <= 3)
    <3>2. c[m] = b[m - 3]
      BY <1>1, <1>3, <2>2
    <3> QED  BY <2>2, <3>2 DEF Place
  <2> QED  BY <2>1, <2>2
<1>5. ASSUME NEW i \in 1 .. N
      PROVE  StandsStill(b, i) <=> \E a \in i .. i + 3 : a <= N /\ Four(b, a)
  <2>1. ASSUME NEW a \in i .. i + 3, a <= N
        PROVE  (\A d \in 1 .. 3 : c[a + d] = c[a]) <=> Four(b, a)
    <3>1. /\ a \in 1 .. N + 3 /\ a + 1 \in 1 .. N + 3
          /\ a + 2 \in 1 .. N + 3 /\ a + 3 \in 1 .. N + 3
      BY <1>1, <2>1
    <3>2. /\ c[a] = Place(b, a) /\ c[a + 1] = Place(b, a + 1)
          /\ c[a + 2] = Place(b, a + 2) /\ c[a + 3] = Place(b, a + 3)
      BY <1>4, <3>1
    <3>3. (\A d \in 1 .. 3 : c[a + d] = c[a])
            <=> c[a + 1] = c[a] /\ c[a + 2] = c[a] /\ c[a + 3] = c[a]
      <4> HIDE DEF c
      <4>1. \A d \in 1 .. 3 : d = 1 \/ d = 2 \/ d = 3
        OBVIOUS
      <4> QED  BY <4>1
    <3> QED  BY <3>2, <3>3 DEF Four
  <2>2. \A a \in i .. i + 3 : a + 3 <= Len(c) <=> a <= N
    BY <1>1, <1>3
  <2>3. StandsStill(b, i)
          <=> \E a \in i .. i + 3 : /\ a + 3 <= Len(c)
                                    /\ \A d \in 1 .. 3 : c[a + d] = c[a]
    BY DEF StandsStill
  <2> HIDE DEF c
  <2> QED  BY <2>1, <2>2, <2>3
<1> QED  BY <1>5 DEF Dropped

(* A sample that does not end a run changes nothing for those before it.   *)
LEMMA NoRun ==
  ASSUME NEW b \in Seq(Sample), NEW n \in Nat, n < Len(b), ~Four(b, n + 1)
  PROVE  /\ Dropped(b, n + 1) = Dropped(b, n)
         /\ n + 1 \notin Dropped(b, n + 1)
<1>1. \A a \in Int : a <= n + 1 /\ Four(b, a) => a <= n
  BY SMT
<1>2. \A i \in 1 .. Len(b) : \A a \in i .. i + 3 : a \in Int /\ (a <= n => a <= n + 1)
  OBVIOUS
<1>3. Dropped(b, n + 1) = Dropped(b, n)
  BY <1>1, <1>2 DEF Dropped
<1>4. n + 1 \notin Dropped(b, n)
  <2>1. \A a \in n + 1 .. n + 1 + 3 : ~(a <= n)
    OBVIOUS
  <2> QED  BY <2>1 DEF Dropped
<1> QED  BY <1>3, <1>4

(* A sample that goes on with a run only stands still itself.              *)
LEMMA RunGoesOn ==
  ASSUME NEW b \in Seq(Sample), NEW n \in Nat \ {0}, n < Len(b),
         Four(b, n), Four(b, n + 1)
  PROVE  /\ n + 1 \in Dropped(b, n + 1)
         /\ \A i \in 1 .. n : i \in Dropped(b, n + 1) <=> i \in Dropped(b, n)
<1>0. Len(b) \in Nat
  OBVIOUS
<1>1. n + 1 \in Dropped(b, n + 1)
  <2>1. n + 1 \in 1 .. Len(b) /\ n + 1 \in n + 1 .. n + 1 + 3
    BY <1>0
  <2> QED  BY <2>1 DEF Dropped
<1>2. ASSUME NEW i \in 1 .. n
      PROVE  i \in Dropped(b, n + 1) <=> i \in Dropped(b, n)
  <2>0. i \in 1 .. Len(b)
    BY <1>0
  <2>1. ASSUME NEW a \in i .. i + 3, a <= n + 1, Four(b, a)
        PROVE  \E d \in i .. i + 3 : d <= n /\ Four(b, d)
    <3>1. CASE a <= n
      BY <2>1, <3>1
    <3>2. CASE ~(a <= n)
      <4>1. a = n + 1
        BY <2>1, <3>2
      <4>2. n \in i .. i + 3
        BY <4>1
      <4> QED  BY <4>2
    <3> QED  BY <3>1, <3>2
  <2>2. \A a \in i .. i + 3 : a <= n => a <= n + 1
    OBVIOUS
  <2> QED  BY <2>0, <2>1, <2>2 DEF Dropped
<1> QED  BY <1>1, <1>2

(* A run that begins takes back the three samples before, all of them kept *)
(* so far; or it is the first sample, with the zeros before the block.     *)
LEMMA RunBegins ==
  ASSUME NEW b \in Seq(Sample), NEW n \in Nat \ {0}, n < Len(b),
         ~Four(b, n), Four(b, n + 1)
  PROVE  /\ n >= 3
         /\ \A i \in n - 2 .. n + 1 : i \in Dropped(b, n + 1)
         /\ \A i \in n - 2 .. n : i \notin Dropped(b, n)
         /\ \A i \in 1 .. n - 3 : i \in Dropped(b, n + 1) <=> i \in Dropped(b, n)
<1>0. Len(b) \in Nat /\ n \in Int
  OBVIOUS
<1>1. Place(b, n) # Place(b, n + 1)
  <2>1. (n + 1) + 1 = n + 2 /\ (n + 1) + 2 = n + 3 /\ (n + 1) + 3 = n + 4
    OBVIOUS
  <2> QED  BY <2>1 DEF Four
<1>2. n >= 3
  <2> SUFFICES ASSUME ~(n >= 3) PROVE FALSE
    OBVIOUS
  <2>1. n <= 3 /\ n + 1 <= 3
    BY <1>0
  <2> QED  BY <1>1, <2>1 DEF Place
<1>3. ASSUME NEW a \in Int, n - 2 <= a, a <= n PROVE ~Four(b, a)
  <2>1. a = n \/ a + 1 = n \/ a + 2 = n
    BY <1>3
  <2>2. /\ a + 1 = n => a + 2 = n + 1
        /\ a + 2 = n => a + 3 = n + 1
    BY <1>3
  <2> QED  BY <1>1, <2>1, <2>2 DEF Four
<1>4. ASSUME NEW i \in n - 2 .. n + 1 PROVE i \in Dropped(b, n + 1)
  <2>1. i \in 1 .. Len(b) /\ n + 1 \in i .. i + 3
    BY <1>0, <1>2
  <2> QED  BY <2>1 DEF Dropped
<1>5. ASSUME NEW i \in n - 2 .. n PROVE i \notin Dropped(b, n)
  <2>1. \A a \in i .. i + 3 : a \in Int /\ n - 2 <= a
    BY <1>0
  <2> QED  BY <1>3, <2>1 DEF Dropped
<1>6. ASSUME NEW i \in 1 .. n - 3
      PROVE  i \in Dropped(b, n + 1) <=> i \in Dropped(b, n)
  <2>1. \A a \in i .. i + 3 : a <= n /\ a <= n + 1
    BY <1>0
  <2> QED  BY <2>1 DEF Dropped
<1> QED  BY <1>2, <1>4, <1>5, <1>6

(* Going back behind the last three samples undoes them.                   *)
LEMMA TakenBack ==
  ASSUME NEW S, NEW s \in Seq(S), NEW x \in S, NEW y \in S, NEW z \in S
  PROVE  LET t == Append(Append(Append(s, x), y), z)
         IN  Len(t) = Len(s) + 3 /\ SubSeq(t, 1, Len(s)) = s
<1>0. \A r \in Seq(S), e \in S : Append(r, e) \in Seq(S)
  OBVIOUS
<1>1. PICK u \in Seq(S) : u = Append(s, x)
  BY <1>0
<1>2. PICK v \in Seq(S) : v = Append(u, y)
  BY <1>0
<1>3. PICK t \in Seq(S) : t = Append(v, z)
  BY <1>0
<1>4. /\ Len(u) = Len(s) + 1 /\ Len(v) = Len(u) + 1 /\ Len(t) = Len(v) + 1
      /\ Len(s) \in Nat
  BY <1>1, <1>2, <1>3
<1>5. \A i \in 1 .. Len(s) : t[i] = s[i]
  <2> SUFFICES ASSUME NEW i \in 1 .. Len(s) PROVE t[i] = s[i]
    OBVIOUS
  <2>1. i \in 1 .. Len(u) /\ i \in 1 .. Len(v)
    BY <1>4
  <2>2. u[i] = s[i] /\ v[i] = u[i] /\ t[i] = v[i]
    BY <1>1, <1>2, <1>3, <2>1
  <2> QED  BY <2>2
<1>6. SubSeq(t, 1, Len(s)) = s
  <2>1. 1 \in 1 .. Len(t) + 1 /\ Len(s) \in 0 .. Len(t)
    BY <1>4
  <2>2. /\ SubSeq(t, 1, Len(s)) \in Seq(S) /\ Len(SubSeq(t, 1, Len(s))) = Len(s)
        /\ \A i \in 1 .. Len(s) : SubSeq(t, 1, Len(s))[i] = t[i]
    BY <1>4, <2>1
  <2> QED  BY <1>5, <2>2
<1> QED  BY <1>1, <1>2, <1>3, <1>4, <1>6

(* The loop begins with nothing kept and three zeros behind it.            *)
LEMMA ScanBegins ==
  ASSUME NEW b \in Seq(Sample)
  PROVE  Scanned(b, 0, << >>, 0, Zeros)
<1>1. Zeros = <<Place(b, 0 + 3), Place(b, 0 + 2), Place(b, 0 + 1)>>
  BY DEF Zeros, Place
<1>2. \A f : Filters(b, Dropped(b, 0), f) => << >> = f[0]
  BY DEF Filters
<1> QED  BY <1>1, <1>2 DEF Scanned

(* The three samples behind the loop tell whether the next one ends a run. *)
LEMMA RunSeen ==
  ASSUME NEW b \in Seq(Sample), NEW n \in Nat, NEW cur, NEW o,
         cur = b[n + 1],
         o = <<Place(b, n + 3), Place(b, n + 2), Place(b, n + 1)>>
  PROVE  /\ Four(b, n + 1) <=> o = <<cur, cur, cur>>
         /\ <<cur, o[1], o[2]>> = <<Place(b, n + 1 + 3), Place(b, n + 1 + 2),
                                   Place(b, n + 1 + 1)>>
<1>1. Place(b, n + 4) = cur
  <2>1. ~(n + 4 <= 3) /\ (n + 4) - 3 = n + 1
    OBVIOUS
  <2> QED  BY <2>1 DEF Place
<1>2. /\ (n + 1) + 1 = n + 2 /\ (n + 1) + 2 = n + 3 /\ (n + 1) + 3 = n + 4
  OBVIOUS
<1>3. Four(b, n + 1) <=> /\ Place(b, n + 2) = Place(b, n + 1)
                         /\ Place(b, n + 3) = Place(b, n + 1)
                         /\ cur = Place(b, n + 1)
  BY <1>1, <1>2 DEF Four
<1>4. o = <<cur, cur, cur>> <=> /\ Place(b, n + 3) = cur
                                /\ Place(b, n + 2) = cur
                                /\ Place(b, n + 1) = cur
  OBVIOUS
<1>5. o[1] = Place(b, n + 3) /\ o[2] = Place(b, n + 2)
  OBVIOUS
<1> QED  BY <1>1, <1>2, <1>3, <1>4, <1>5

(* A sample that ends no run is kept for the time being.                   *)
LEMMA ScanKeeps ==
  ASSUME NEW b \in Seq(Sample), NEW n \in Nat, n < Len(b),
         NEW w \in Seq(Sample), NEW q \in Int, NEW o, Scanned(b, n, w, q, o),
         NEW cur, cur = b[n + 1], o # <<cur, cur, cur>>
  PROVE  Scanned(b, n + 1, Append(w, cur), BackTo(Len(w) + 1), <<cur, o[1], o[2]>>)
<1>0. /\ n + 1 \in 1 .. Len(b) /\ n + 1 # 0 /\ (n + 1) - 1 = n
      /\ cur \in Sample
  OBVIOUS
<1>1. o = <<Place(b, n + 3), Place(b, n + 2), Place(b, n + 1)>>
  BY DEF Scanned
<1>2. /\ ~Four(b, n + 1)
      /\ <<cur, o[1], o[2]>> = <<Place(b, n + 1 + 3), Place(b, n + 1 + 2),
                                Place(b, n + 1 + 1)>>
  BY <1>1, RunSeen
<1>3. Dropped(b, n + 1) = Dropped(b, n) /\ n + 1 \notin Dropped(b, n + 1)
  BY <1>2, NoRun
<1>4. ASSUME NEW f, Filters(b, Dropped(b, n + 1), f)
      PROVE  Append(w, cur) = f[n + 1]
  <2>1. w = f[n]
    BY <1>3, <1>4 DEF Scanned
  <2>2. f[n + 1] = Append(f[n], b[n + 1])
    BY <1>0, <1>3, <1>4 DEF Filters
  <2> QED  BY <2>1, <2>2
<1>5. BackTo(Len(w) + 1) = Len(Append(w, cur)) - 3
  BY <1>0 DEF BackTo
<1> QED  BY <1>0, <1>2, <1>4, <1>5 DEF Scanned

(* A sample that ends a run takes back what was kept of the run.           *)
LEMMA ScanTakesBack ==
  ASSUME NEW b \in Seq(Sample), NEW n \in Nat, n < Len(b),
         NEW w \in Seq(Sample), NEW q \in Int, NEW o, Scanned(b, n, w, q, o),
         NEW cur, cur = b[n + 1], o = <<cur, cur, cur>>
  PROVE  Scanned(b, n + 1, IF q >= 0 THEN SubSeq(w, 1, q) ELSE w, q,
                 <<cur, o[1], o[2]>>)
<1>0. /\ n + 1 \in 1 .. Len(b) /\ n + 1 # 0 /\ (n + 1) - 1 = n
      /\ cur \in Sample /\ Len(b) \in Nat
  OBVIOUS
<1>1. o = <<Place(b, n + 3), Place(b, n + 2), Place(b, n + 1)>>
  BY DEF Scanned
<1>2. /\ Four(b, n + 1)
      /\ <<cur, o[1], o[2]>> = <<Place(b, n + 1 + 3), Place(b, n + 1 + 2),
                                Place(b, n + 1 + 1)>>
  BY <1>1, RunSeen
<1> DEFINE v == IF q >= 0 THEN SubSeq(w, 1, q) ELSE w
<1>3. PICK f : Filters(b, Dropped(b, n), f)
  BY FilterExists
<1>4. w = f[n]
  BY <1>3 DEF Scanned
<1>5. SubSeq(w, 1, Len(w)) = w
  OBVIOUS
<1> SUFFICES /\ q = Len(v)
             /\ \A g : Filters(b, Dropped(b, n + 1), g) => v = g[n + 1]
  BY <1>0, <1>2 DEF Scanned
<1>6. CASE n = 0
  <2>1. w = << >> /\ q = 0
    BY <1>3, <1>4, <1>6 DEF Filters, Scanned
  <2>2. v = << >> /\ Len(v) = 0
    BY <1>5, <2>1
  <2>3. 1 \in Dropped(b, 1)
    <3>1. 1 \in 1 .. Len(b) /\ 1 \in 1 .. 1 + 3 /\ 1 <= 1
      BY <1>0, <1>6
    <3> QED  BY <1>2, <1>6, <3>1 DEF Dropped
  <2>4. ASSUME NEW g, Filters(b, Dropped(b, n + 1), g) PROVE v = g[n + 1]
    BY <1>0, <1>6, <2>2, <2>3, <2>4 DEF Filters
  <2> QED  BY <2>1, <2>2, <2>4
<1>7. CASE n # 0 /\ Four(b, n)
  <2>1. q = Len(w)
    BY <1>7 DEF Scanned
  <2>2. v = w
    BY <1>5, <2>1
  <2>3. /\ n + 1 \in Dropped(b, n + 1)
        /\ \A i \in 1 .. n : i \in Dropped(b, n + 1) <=> i \in Dropped(b, n)
    BY <1>2, <1>7, RunGoesOn
  <2>4. ASSUME NEW g, Filters(b, Dropped(b, n + 1), g) PROVE v = g[n + 1]
    <3>1. n \in 0 .. Len(b)
      BY <1>0
    <3>2. g[n] = f[n]
      BY <1>3, <2>3, <2>4, <3>1, FilterAgrees
    <3>3. g[n + 1] = g[n]
      BY <1>0, <2>3, <2>4 DEF Filters
    <3> QED  BY <1>4, <2>2, <3>2, <3>3
  <2> QED  BY <2>1, <2>2, <2>4
<1>8. CASE n # 0 /\ ~Four(b, n)
  <2>1. q = Len(w) - 3
    BY <1>8 DEF Scanned
  <2>2. /\ n >= 3
        /\ \A i \in n - 2 .. n + 1 : i \in Dropped(b, n + 1)
        /\ \A i \in n - 2 .. n : i \notin Dropped(b, n)
        /\ \A i \in 1 .. n - 3 : i \in Dropped(b, n + 1) <=> i \in Dropped(b, n)
    BY <1>2, <1>8, RunBegins
  <2>3. /\ n - 3 \in 0 .. Len(b) /\ n - 2 \in 1 .. Len(b) /\ n - 1 \in 1 .. Len(b)
        /\ n \in 1 .. Len(b)
        /\ (n - 2) - 1 = n - 3 /\ (n - 1) - 1 = n - 2
        /\ n - 2 \in n - 2 .. n /\ n - 1 \in n - 2 .. n /\ n \in n - 2 .. n
        /\ n - 2 \in n - 2 .. n + 1 /\ n - 1 \in n - 2 .. n + 1
        /\ n \in n - 2 .. n + 1 /\ n + 1 \in n - 2 .. n + 1
    BY <1>0, <2>2
  <2>4. /\ f[n - 2] = Append(f[n - 3], b[n - 2])
        /\ f[n - 1] = Append(f[n - 2], b[n - 1])
        /\ f[n] = Append(f[n - 1], b[n])
    BY <1>3, <2>2, <2>3 DEF Filters
  <2>5. f[n - 3] \in Seq(Sample)
    BY <1>3, <2>3 DEF Filters
  <2>6. b[n - 2] \in Sample /\ b[n - 1] \in Sample /\ b[n] \in Sample
    BY <2>3
  <2>7. w = Append(Append(Append(f[n - 3], b[n - 2]), b[n - 1]), b[n])
    BY <1>4, <2>4
  <2>8. Len(w) = Len(f[n - 3]) + 3 /\ SubSeq(w, 1, Len(f[n - 3])) = f[n - 3]
    BY <2>5, <2>6, <2>7, TakenBack
  <2>9. q = Len(f[n - 3]) /\ q >= 0
    BY <2>1, <2>5, <2>8
  <2>10. v = f[n - 3]
    BY <2>8, <2>9
  <2>11. ASSUME NEW g, Filters(b, Dropped(b, n + 1), g) PROVE v = g[n + 1]
    <3>1. g[n - 3] = f[n - 3]
      BY <1>3, <2>2, <2>3, <2>11, FilterAgrees
    <3>2. /\ g[n - 2] = g[n - 3] /\ g[n - 1] = g[n - 2] /\ g[n] = g[n - 1]
          /\ g[n + 1] = g[n]
      BY <1>0, <2>2, <2>3, <2>11 DEF Filters
    <3> QED  BY <2>10, <3>1, <3>2
  <2> QED  BY <2>9, <2>10, <2>11
<1> QED  BY <1>6, <1>7, <1>8

(* Behind the last sample win_buf holds what is to be kept of the block.   *)
LEMMA ScanEnds ==
  ASSUME NEW b \in Seq(Sample), NEW w, NEW q, NEW o, Scanned(b, Len(b), w, q, o)
  PROVE  w = KeptOf(b)
<1>1. PICK f : Filters(b, Dropped(b, Len(b)), f)
  BY FilterExists
<1>2. w = f[Len(b)]
  BY <1>1 DEF Scanned
<1>3. KeptOf(b) = f[Len(b)]
  BY <1>1, DroppedInTheEnd, KeptOfFilters
<1> QED  BY <1>2, <1>3
-----------------------------------------------------------------------------
(* The i-th block of s, and what is to be kept of it.                      *)
Blocks(s) == Len(s) \div BlockLen

BlockOf(s, i) ==
  SubSeq(s, i * BlockLen + 1,
         IF i < Blocks(s) THEN (i + 1) * BlockLen ELSE Len(s))

PartOf(s, i) == IF Loud(BlockOf(s, i)) THEN KeptOf(BlockOf(s, i)) ELSE << >>

(* f holds what is to be kept of s, up to each of its blocks.              *)
Speaks(s, f) ==
  /\ f \in [0 .. Blocks(s) -> Seq(Sample)]
  /\ f[0] = PartOf(s, 0)
  /\ \A i \in 1 .. Blocks(s) : f[i] = f[i - 1] \o PartOf(s, i)

(* Where the blocks are: all are full but the last, which may be empty.    *)
LEMMA BlockFacts ==
  ASSUME NEW s \in Seq(Sample), NEW m \in 0 .. Blocks(s)
  PROVE  /\ Blocks(s) \in Nat
         /\ m * BlockLen \in Nat
         /\ (m + 1) * BlockLen = m * BlockLen + BlockLen
         /\ m < Blocks(s) => m * BlockLen + BlockLen <= Len(s)
         /\ m = Blocks(s) => /\ m * BlockLen <= Len(s)
                             /\ Len(s) < m * BlockLen + BlockLen
         /\ BlockOf(s, m) \in Seq(Sample)
<1> DEFINE n == Blocks(s)
           e == IF m < n THEN (m + 1) * BlockLen ELSE Len(s)
<1>0. BlockLen \in Nat \ {0} /\ Len(s) \in Nat
  BY TrimAssumption
<1>1. n \in Nat /\ n * BlockLen <= Len(s) /\ Len(s) < n * BlockLen + BlockLen
  BY <1>0 DEF Blocks
<1> HIDE DEF n
<1>2. m \in Nat /\ m <= n
  BY <1>1 DEF n
<1>3. m * BlockLen \in Nat /\ (m + 1) * BlockLen = m * BlockLen + BlockLen
  BY <1>0, <1>2
<1>4. m < n => m * BlockLen + BlockLen <= n * BlockLen
  BY <1>0, <1>1, <1>2
<1>5. m < n => m * BlockLen + BlockLen <= Len(s)
  <2>1. n * BlockLen \in Nat
    BY <1>0, <1>1
  <2> QED  BY <1>0, <1>1, <1>3, <1>4, <2>1
<1>6. e \in 0 .. Len(s) /\ m * BlockLen <= Len(s)
  <2>1. CASE m < n
    BY <1>0, <1>3, <1>5, <2>1
  <2>2. CASE ~(m < n)
    <3>1. m = n
      BY <1>1, <1>2, <2>2
    <3> QED  BY <1>0, <1>1, <1>3, <2>2, <3>1
  <2> QED  BY <2>1, <2>2
<1>7. BlockOf(s, m) \in Seq(Sample)
  <2> DEFINE a == m * BlockLen + 1
  <2>1. a \in 1 .. Len(s) + 1 /\ e \in 0 .. Len(s)
    BY <1>0, <1>3, <1>6
  <2>2. BlockOf(s, m) = SubSeq(s, a, e)
    BY DEF BlockOf, n
  <2> HIDE DEF a, e
  <2>3. \A i \in a .. e : s[i] \in Sample
    BY <2>1
  <2>4. SubSeq(s, a, e) \in Seq(Sample)
    BY <2>1, <2>3
  <2> QED  BY <2>2, <2>4
<1> QED  BY <1>1, <1>3, <1>5, <1>6, <1>7 DEF n

(* What is kept of a block is samples.                                     *)
LEMMA KeptOfType ==
  ASSUME NEW b \in Seq(Sample)
  PROVE  KeptOf(b) \in Seq(Sample)
<1>1. PICK f : Filters(b, {i \in 1 .. Len(b) : StandsStill(b, i)}, f)
  BY FilterExists
<1>2. Len(b) \in 0 .. Len(b)
  OBVIOUS
<1> QED  BY <1>1, <1>2, KeptOfFilters DEF Filters

(* Every block has its part.                                               *)
LEMMA PartOfType ==
  ASSUME NEW s \in Seq(Sample), NEW m \in 0 .. Blocks(s)
  PROVE  PartOf(s, m) \in Seq(Sample)
<1>1. KeptOf(BlockOf(s, m)) \in Seq(Sample)
  BY BlockFacts, KeptOfType
<1>2. << >> \in Seq(Sample)
  OBVIOUS
<1> QED  BY <1>1, <1>2 DEF PartOf

(* Every stream has such parts ...                                         *)
LEMMA SpeechExists ==
  ASSUME NEW s \in Seq(Sample)
  PROVE  \E f : Speaks(s, f)
<1> DEFINE N == Blocks(s)
           a == PartOf(s, 0)
           F == [x \in (1 .. N) \X Seq(Sample) |-> x[2] \o PartOf(s, x[1])]
<1>1. N \in Nat
  BY TrimAssumption DEF Blocks
<1>2. \A i \in 0 .. N : PartOf(s, i) \in Seq(Sample)
  BY PartOfType
<1>3. a \in Seq(Sample)
  BY <1>1, <1>2
<1>4. F \in [(1 .. N) \X Seq(Sample) -> Seq(Sample)]
  <2>1. ASSUME NEW i \in 1 .. N, NEW w \in Seq(Sample)
        PROVE  w \o PartOf(s, i) \in Seq(Sample)
    <3>1. PartOf(s, i) \in Seq(Sample)
      BY <1>2
    <3> QED  BY <3>1
  <2> QED  BY <2>1
<1>5. ASSUME NEW i \in 1 .. N, NEW w \in Seq(Sample)
      PROVE  F[<<i, w>>] = w \o PartOf(s, i)
  OBVIOUS
<1> HIDE DEF F, a, N
<1>6. PICK f \in [0 .. N -> Seq(Sample)] : Follows(f, a, F, N)
  BY <1>1, <1>3, <1>4, RecursionExists
<1>7. ASSUME NEW i \in 1 .. N PROVE f[i] = f[i - 1] \o PartOf(s, i)
  <2>1. f[i - 1] \in Seq(Sample)
    BY <1>1
  <2> QED  BY <1>5, <1>6, <2>1 DEF Follows
<1> QED  BY <1>6, <1>7 DEF Speaks, Follows, a, N

(* ... and SpeechOf is the last of them.                                   *)
LEMMA SpeechOfSpeaks ==
  ASSUME NEW s \in Seq(Sample), NEW f, Speaks(s, f)
  PROVE  SpeechOf(s) = f[Blocks(s)]
<1> DEFINE N == Blocks(s)
           Block(i) == SubSeq(s, i * BlockLen + 1,
                              IF i < N THEN (i + 1) * BlockLen ELSE Len(s))
           Rec(g) == [i \in 0 .. N |->
                       (IF i = 0 THEN << >> ELSE g[i - 1])
                         \o (IF Loud(Block(i)) THEN KeptOf(Block(i)) ELSE << >>)]
           speech == CHOOSE g : g = Rec(g)
<1>0. N \in Nat
  BY TrimAssumption DEF Blocks
<1>1. SpeechOf(s) = speech[N]
  BY DEF SpeechOf, Blocks
<1>2. ASSUME NEW g
      PROVE  Rec(g) = [i \in 0 .. N |-> (IF i = 0 THEN << >> ELSE g[i - 1])
                                          \o PartOf(s, i)]
  BY DEF PartOf, BlockOf
<1> HIDE DEF Rec, N
<1>3. f = Rec(f)
  <2>1. f = [i \in 0 .. N |-> f[i]]
    BY DEF Speaks, N
  <2>2. ASSUME NEW i \in 0 .. N
        PROVE  f[i] = (IF i = 0 THEN << >> ELSE f[i - 1]) \o PartOf(s, i)
    <3>1. CASE i = 0
      <4>1. PartOf(s, 0) \in Seq(Sample)
        BY <3>1, PartOfType DEF N
      <4>2. << >> \o PartOf(s, 0) = PartOf(s, 0)
        BY <4>1
      <4> QED  BY <3>1, <4>2 DEF Speaks
    <3>2. CASE i # 0
      <4>1. i \in 1 .. N
        BY <1>0, <3>2
      <4> QED  BY <3>2, <4>1 DEF Speaks, N
    <3> QED  BY <3>1, <3>2
  <2> QED  BY <1>2, <2>1, <2>2
<1>4. speech = Rec(speech)
  BY <1>3
<1> HIDE DEF speech
<1>5. ASSUME NEW i \in 0 .. N
      PROVE  speech[i] = (IF i = 0 THEN << >> ELSE speech[i - 1]) \o PartOf(s, i)
  BY <1>2, <1>4
<1>6. ASSUME NEW i \in 0 .. N
      PROVE  f[i] = (IF i = 0 THEN << >> ELSE f[i - 1]) \o PartOf(s, i)
  BY <1>2, <1>3
<1>7. speech[N] = f[N]
  <2> DEFINE T == {i \in Nat : i <= N => speech[i] = f[i]}
  <2>1. 0 \in T
    <3>1. 0 \in 0 .. N
      BY <1>0
    <3> QED  BY <1>5, <1>6, <3>1
  <2>2. ASSUME NEW i \in Nat, i \in T PROVE i + 1 \in T
    <3> SUFFICES ASSUME i + 1 <= N PROVE speech[i + 1] = f[i + 1]
      OBVIOUS
    <3>1. i + 1 \in 0 .. N /\ i + 1 # 0 /\ (i + 1) - 1 = i /\ i <= N
      BY <1>0
    <3>2. speech[i] = f[i]
      BY <2>2, <3>1
    <3> QED  BY <1>5, <1>6, <3>1, <3>2
  <2>3. Nat \subseteq T
    <3> HIDE DEF T
    <3> QED  BY <2>1, <2>2, SetInduction
  <2> QED  BY <1>0, <2>3
<1> QED  BY <1>1, <1>7 DEF N
-----------------------------------------------------------------------------
(* m blocks are behind the function, and out holds their parts; win_buf is *)
(* what the block in hand gives so far.                                    *)
AtBlock(m) ==
  /\ m \in 0 .. Blocks(input)
  /\ start = m * BlockLen
  /\ \A f : Speaks(input, f) => out = IF m = 0 THEN << >> ELSE f[m - 1]
  /\ phase = "scan" => Loud(Current) /\ Scanned(Current, k, win, p, old)

SpeechInv ==
  /\ phase \in {"enter", "weigh", "scan"} => \E m \in Nat : AtBlock(m)
  /\ phase = "done" => \A f : Speaks(input, f) => out = f[Blocks(input)]

(* The block in hand is the block at its place.                            *)
LEMMA CurrentIsBlock ==
  ASSUME TypeOK, NEW m \in Nat, AtBlock(m)
  PROVE  /\ input \in Seq(Sample)
         /\ Current = BlockOf(input, m) /\ Len(Current) = Size
         /\ Size \in Nat
         /\ Size < BlockLen => m = Blocks(input)
         /\ ~(Size < BlockLen) => /\ m + 1 \in 0 .. Blocks(input)
                                  /\ start + BlockLen = (m + 1) * BlockLen
<1>0. BlockLen \in Nat \ {0} /\ input \in Seq(Sample) /\ Len(input) \in Nat
  BY TrimAssumption DEF TypeOK
<1>1. /\ Blocks(input) \in Nat
      /\ m * BlockLen \in Nat
      /\ (m + 1) * BlockLen = m * BlockLen + BlockLen
      /\ m < Blocks(input) => m * BlockLen + BlockLen <= Len(input)
      /\ m = Blocks(input) => /\ m * BlockLen <= Len(input)
                              /\ Len(input) < m * BlockLen + BlockLen
      /\ BlockOf(input, m) \in Seq(Sample)
  BY <1>0, BlockFacts DEF AtBlock
<1>2. start = m * BlockLen /\ m \in 0 .. Blocks(input)
  BY DEF AtBlock
<1>3. CASE m < Blocks(input)
  <2>1. Size = BlockLen
    BY <1>0, <1>1, <1>2, <1>3 DEF Size, Length
  <2>2. start + Size = (m + 1) * BlockLen
    BY <1>1, <1>2, <2>1
  <2>3. Current = BlockOf(input, m)
    BY <1>2, <1>3, <2>2 DEF Current, BlockOf
  <2>4. Len(Current) = Size
    <3> DEFINE a == start + 1
               e == start + Size
    <3>1. a \in Nat /\ e \in 0 .. Len(input) /\ a \in 1 .. e + 1 /\ e - a + 1 = Size
      BY <1>0, <1>1, <1>2, <1>3, <2>1
    <3>2. Current = SubSeq(input, a, e)
      BY DEF Current
    <3> HIDE DEF a, e
    <3> QED  BY <1>0, <3>1, <3>2
  <2> QED  BY <1>0, <1>1, <1>2, <1>3, <2>1, <2>2, <2>3, <2>4
<1>4. CASE ~(m < Blocks(input))
  <2>1. m = Blocks(input)
    BY <1>1, <1>2, <1>4
  <2>2. Size = Len(input) - start /\ Size < BlockLen /\ Size \in Nat
    BY <1>0, <1>1, <1>2, <2>1 DEF Size, Length
  <2>3. start + Size = Len(input)
    BY <1>0, <1>1, <1>2, <2>2
  <2>4. Current = BlockOf(input, m)
    BY <1>2, <1>4, <2>3 DEF Current, BlockOf
  <2>5. Len(Current) = Size
    <3> DEFINE a == start + 1
               e == start + Size
    <3>1. a \in Nat /\ e \in 0 .. Len(input) /\ a \in 1 .. e + 1 /\ e - a + 1 = Size
      BY <1>0, <1>1, <1>2, <2>2, <2>3
    <3>2. Current = SubSeq(input, a, e)
      BY DEF Current
    <3> HIDE DEF a, e
    <3> QED  BY <1>0, <3>1, <3>2
  <2> QED  BY <1>0, <2>1, <2>2, <2>4, <2>5
<1> QED  BY <1>3, <1>4

(* A block that has its part behind the output is done with.               *)
LEMMA BlockDone ==
  ASSUME TypeOK, NEW m \in Nat, AtBlock(m), NEW w, w = PartOf(input, m),
         NEW f, Speaks(input, f)
  PROVE  out \o w = f[m]
<1>1. input \in Seq(Sample) /\ m \in 0 .. Blocks(input)
  BY CurrentIsBlock DEF AtBlock
<1>2. w \in Seq(Sample)
  BY <1>1, PartOfType
<1>3. CASE m = 0
  <2>1. out = << >>
    BY <1>3 DEF AtBlock
  <2>2. << >> \o w = w
    BY <1>2
  <2> QED  BY <1>3, <2>1, <2>2 DEF Speaks
<1>4. CASE m # 0
  <2>1. m \in 1 .. Blocks(input)
    BY <1>1, <1>4
  <2>2. out = f[m - 1]
    BY <1>4 DEF AtBlock
  <2> QED  BY <2>1, <2>2 DEF Speaks
<1> QED  BY <1>3, <1>4

(* Every step of the function keeps the output the speech so far.          *)
LEMMA StepSpeechInv == IInv /\ SpeechInv /\ [Next]_vars => SpeechInv'
<1> SUFFICES ASSUME IInv, SpeechInv, [Next]_vars PROVE SpeechInv'
  OBVIOUS
<1>0. TypeOK /\ BlockLen \in Nat \ {0}
  BY TrimAssumption DEF IInv
<1>1. CASE Allocate
  <2>1. /\ phase = "enter" /\ phase' = "weigh"
        /\ UNCHANGED <<input, start, k, win, p, old, out>>
    BY <1>1 DEF Allocate
  <2>2. PICK m \in Nat : AtBlock(m)
    BY <2>1 DEF SpeechInv
  <2>3. AtBlock(m)'
    BY <2>1, <2>2 DEF AtBlock
  <2> QED  BY <2>1, <2>3 DEF SpeechInv
<1>2. CASE WeighLoud
  <2>1. /\ phase = "weigh" /\ phase' = "scan" /\ Loud(Current)
        /\ k' = 0 /\ p' = 0 /\ old' = Zeros /\ win' = << >>
        /\ UNCHANGED <<input, block, start, out>>
    BY <1>2 DEF WeighLoud, BeginScan
  <2>2. PICK m \in Nat : AtBlock(m)
    BY <2>1 DEF SpeechInv
  <2>3. Current' = Current
    BY <2>1 DEF Current, Size, Length
  <2>4. Current \in Seq(Sample)
    BY <1>0, <2>2, CurrentIsBlock, BlockFacts DEF AtBlock
  <2>5. Scanned(Current, 0, << >>, 0, Zeros)
    BY <2>4, ScanBegins
  <2>6. Loud(Current)' /\ Scanned(Current, k, win, p, old)'
    BY <2>1, <2>3, <2>5
  <2>7. AtBlock(m)'
    BY <2>1, <2>2, <2>6 DEF AtBlock
  <2> QED  BY <2>1, <2>7 DEF SpeechInv
<1>3. CASE WeighQuiet
  <2>1. /\ phase = "weigh" /\ ~Loud(Current)
        /\ UNCHANGED <<input, block, k, win, p, old, out>>
        /\ IF Size < BlockLen
           THEN phase' = "done" /\ start' = start
           ELSE phase' = phase /\ start' = start + BlockLen
    BY <1>3 DEF WeighQuiet
  <2>2. PICK m \in Nat : AtBlock(m)
    BY <2>1 DEF SpeechInv
  <2>3. << >> = PartOf(input, m)
    BY <1>0, <2>1, <2>2, CurrentIsBlock DEF PartOf
  <2>4. ASSUME NEW f, Speaks(input, f) PROVE out = f[m]
    <3>1. out \o << >> = f[m]
      BY <1>0, <2>2, <2>3, <2>4, BlockDone
    <3>2. out \in Seq(Sample)
      BY <1>0 DEF TypeOK
    <3>3. out \o << >> = out
      BY <3>2
    <3> QED  BY <3>1, <3>3
  <2>5. CASE Size < BlockLen
    <3>1. m = Blocks(input) /\ phase' = "done"
      BY <1>0, <2>1, <2>2, <2>5, CurrentIsBlock
    <3> QED  BY <2>1, <2>4, <3>1 DEF SpeechInv
  <2>6. CASE ~(Size < BlockLen)
    <3>1. /\ m + 1 \in 0 .. Blocks(input) /\ start' = (m + 1) * BlockLen
          /\ phase' = "weigh" /\ m + 1 \in Nat /\ m + 1 # 0 /\ (m + 1) - 1 = m
      BY <1>0, <2>1, <2>2, <2>6, CurrentIsBlock
    <3>2. AtBlock(m + 1)'
      BY <2>1, <2>4, <3>1 DEF AtBlock
    <3> QED  BY <3>1, <3>2 DEF SpeechInv
  <2> QED  BY <2>5, <2>6
<1>4. CASE ScanSample
  <2> DEFINE cur == Current[k + 1]
  <2>1. /\ phase = "scan" /\ k < Size /\ k' = k + 1
        /\ UNCHANGED <<input, block, phase, start, out>>
        /\ IF old = <<cur, cur, cur>>
           THEN win' = (IF p >= 0 THEN SubSeq(win, 1, p) ELSE win) /\ p' = p
           ELSE win' = Append(win, cur) /\ p' = BackTo(Len(win) + 1)
        /\ old' = <<cur, old[1], old[2]>>
    BY <1>4 DEF ScanSample
  <2>2. PICK m \in Nat : AtBlock(m)
    BY <2>1 DEF SpeechInv
  <2>3. Current' = Current
    BY <2>1 DEF Current, Size, Length
  <2>4. /\ Current \in Seq(Sample) /\ Len(Current) = Size
        /\ k \in Nat /\ win \in Seq(Sample) /\ p \in Int
        /\ Scanned(Current, k, win, p, old) /\ Loud(Current)
    BY <1>0, <2>1, <2>2, CurrentIsBlock, BlockFacts DEF AtBlock, TypeOK
  <2> DEFINE b == Current
  <2> HIDE DEF b
  <2>5. /\ b \in Seq(Sample) /\ k < Len(b) /\ cur = b[k + 1]
        /\ Scanned(b, k, win, p, old)
    BY <2>1, <2>4 DEF b
  <2> HIDE DEF cur
  <2>6. Scanned(b, k', win', p', old')
    <3>1. CASE old = <<cur, cur, cur>>
      <4>1. Scanned(b, k + 1, IF p >= 0 THEN SubSeq(win, 1, p) ELSE win, p,
                    <<cur, old[1], old[2]>>)
        BY <2>4, <2>5, <3>1, ScanTakesBack
      <4> QED  BY <2>1, <3>1, <4>1
    <3>2. CASE old # <<cur, cur, cur>>
      <4>1. Scanned(b, k + 1, Append(win, cur), BackTo(Len(win) + 1),
                    <<cur, old[1], old[2]>>)
        BY <2>4, <2>5, <3>2, ScanKeeps
      <4> QED  BY <2>1, <3>2, <4>1
    <3> QED  BY <3>1, <3>2
  <2>7. Loud(Current)' /\ Scanned(Current, k, win, p, old)'
    BY <2>3, <2>4, <2>6 DEF b
  <2>8. AtBlock(m)'
    BY <2>1, <2>2, <2>7 DEF AtBlock
  <2> QED  BY <2>1, <2>8 DEF SpeechInv
<1>5. CASE Copy
  <2>1. /\ phase = "scan" /\ k = Size
        /\ UNCHANGED <<input, block, k, win, p, old>>
        /\ \/ phase' = "dead"
           \/ /\ out' = out \o win
              /\ IF Size < BlockLen
                 THEN phase' = "done" /\ start' = start
                 ELSE phase' = "weigh" /\ start' = start + BlockLen
    BY <1>5 DEF Copy
  <2>2. PICK m \in Nat : AtBlock(m)
    BY <2>1 DEF SpeechInv
  <2>3. win = PartOf(input, m)
    <3> DEFINE b == Current
    <3> HIDE DEF b
    <3>1. /\ b \in Seq(Sample) /\ Len(b) = Size /\ b = BlockOf(input, m)
          /\ Scanned(b, k, win, p, old) /\ Loud(b)
      BY <1>0, <2>1, <2>2, CurrentIsBlock, BlockFacts DEF AtBlock, b
    <3>2. win = KeptOf(b)
      BY <2>1, <3>1, ScanEnds
    <3> QED  BY <3>1, <3>2 DEF PartOf
  <2>4. ASSUME NEW f, Speaks(input, f) PROVE out \o win = f[m]
    BY <1>0, <2>2, <2>3, <2>4, BlockDone
  <2>5. CASE phase' = "dead"
    BY <2>5 DEF SpeechInv
  <2>6. CASE /\ out' = out \o win /\ Size < BlockLen
             /\ phase' = "done" /\ start' = start
    <3>1. m = Blocks(input)
      BY <1>0, <2>2, <2>6, CurrentIsBlock
    <3> QED  BY <2>1, <2>4, <2>6, <3>1 DEF SpeechInv
  <2>7. CASE /\ out' = out \o win /\ ~(Size < BlockLen)
             /\ phase' = "weigh" /\ start' = start + BlockLen
    <3>1. /\ m + 1 \in 0 .. Blocks(input) /\ start' = (m + 1) * BlockLen
          /\ m + 1 \in Nat /\ m + 1 # 0 /\ (m + 1) - 1 = m
      BY <1>0, <2>2, <2>7, CurrentIsBlock
    <3>2. AtBlock(m + 1)'
      BY <2>1, <2>4, <2>7, <3>1 DEF AtBlock
    <3> QED  BY <2>7, <3>1, <3>2 DEF SpeechInv
  <2> QED  BY <2>1, <2>5, <2>6, <2>7
<1>6. CASE UNCHANGED vars
  <2>1. UNCHANGED <<input, phase, start, k, win, p, old, out>>
    BY <1>6 DEF vars
  <2>2. Current' = Current
    BY <2>1 DEF Current, Size, Length
  <2>3. ASSUME NEW m \in Nat, AtBlock(m) PROVE AtBlock(m)'
    BY <2>1, <2>2, <2>3 DEF AtBlock
  <2> QED  BY <2>1, <2>3 DEF SpeechInv
<1> QED  BY <1>1, <1>2, <1>3, <1>4, <1>5, <1>6 DEF Next

(* For every input, block length and threshold: what the function returns  *)
(* is the loud blocks without the runs of four and more equal samples, and *)
(* without the zeros a block begins with.  One pass that writes and takes  *)
(* back three samples is the filter that looks at the whole block.         *)
THEOREM TrimmingIsTheFilter == Spec => []ReturnsTheSpeech
<1>1. Init => SpeechInv
  <2> SUFFICES ASSUME Init PROVE SpeechInv
    OBVIOUS
  <2>1. input \in Seq(Sample) /\ phase = "enter" /\ start = 0 /\ out = << >>
    BY TrimAssumption DEF Init
  <2>2. Blocks(input) \in Nat /\ BlockLen \in Nat
    BY <2>1, TrimAssumption DEF Blocks
  <2>3. AtBlock(0)
    BY <2>1, <2>2 DEF AtBlock
  <2> QED  BY <2>1, <2>3 DEF SpeechInv
<1>2. IInv /\ SpeechInv /\ [Next]_vars => SpeechInv'
  BY StepSpeechInv
<1>3. IInv /\ SpeechInv => ReturnsTheSpeech
  <2> SUFFICES ASSUME IInv, SpeechInv, phase = "done" PROVE out = SpeechOf(input)
    BY DEF ReturnsTheSpeech
  <2>1. input \in Seq(Sample)
    BY TrimAssumption DEF IInv, TypeOK
  <2>2. PICK f : Speaks(input, f)
    BY <2>1, SpeechExists
  <2> QED  BY <2>1, <2>2, SpeechOfSpeaks DEF SpeechInv
<1> QED  BY <1>1, <1>2, <1>3, SpecIInv, PTL DEF Spec
=============================================================================
