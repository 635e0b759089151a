------------------------------- MODULE VadProofs -------------------------------
(***************************************************************************)
(* Proofs about Vad for all thresholds, frames and garbage: as long as     *)
(* nobody writes over the two counters of the handle, they stand for the   *)
(* whole history, and ends are announced one frame behind the one they are *)
(* due at.                                                                 *)
(***************************************************************************)
EXTENDS Vad, FiniteSetTheorems, WellFoundedInduction, NaturalsInduction, TLAPS

(* Every set of numbers has a least one ...                                *)
LEMMA Least ==
  ASSUME NEW S \in SUBSET Nat, S # {}
  PROVE  \E m \in S : \A n \in S : m <= n
<1> DEFINE R == OpToRel(<, Nat)
<1>1. IsWellFoundedOn(R, Nat)
  BY NatLessThanWellFounded
<1>2. \A x, y \in Nat : x < y => <<x, y>> \in R
  BY DEF OpToRel
<1> HIDE DEF R
<1>3. PICK m \in S : \A y \in S : ~(<<y, m>> \in R)
  BY <1>1, WFMin
<1>4. \A n \in S : ~(n < m)
  BY <1>2, <1>3
<1> QED  BY <1>3, <1>4

(* ... so that a set is all numbers if it has 0 and every next number.     *)
LEMMA SetInduction ==
  ASSUME NEW S, 0 \in S, \A n \in Nat : n \in S => n + 1 \in S
  PROVE  Nat \subseteq S
<1> DEFINE T == Nat \ S
<1>1. ASSUME T # {} PROVE FALSE
  <2>1. PICK m \in T : \A n \in T : m <= n
    BY <1>1, Least
  <2>2. m # 0 /\ m - 1 \in Nat /\ m - 1 \notin T
    BY <2>1
  <2> QED  BY <2>1, <2>2
<1> QED  BY <1>1

(* f begins with a, and F makes each of the m next values from the one     *)
(* before.                                                                 *)
Follows(f, a, F, m) ==
  f[0] = a /\ \A n \in 1 .. m : f[n] = F[<<n, f[n - 1]>>]

(* Such a function can be told its next value.                            *)
LEMMA RecursionStep ==
  ASSUME NEW S, NEW N \in Nat, NEW a \in S, NEW F \in [(1 .. N) \X S -> S],
         NEW m \in Nat, m + 1 <= N,
         NEW f \in [0 .. m -> S],
         Follows(f, a, F, m)
  PROVE  \E g \in [0 .. m + 1 -> S] : Follows(g, a, F, m + 1)
<1> USE DEF Follows
<1>1. PICK v \in S : v = F[<<m + 1, f[m]>>]
  <2>1. m + 1 \in 1 .. N /\ f[m] \in S
    OBVIOUS
  <2>2. <<m + 1, f[m]>> \in (1 .. N) \X S
    BY <2>1
  <2>3. F[<<m + 1, f[m]>>] \in S
    BY <2>2
  <2> QED  BY <2>3
<1>2. PICK g \in [0 .. m + 1 -> S] :
             g[m + 1] = v /\ \A n \in 0 .. m : g[n] = f[n]
  <2> DEFINE g == [n \in 0 .. m + 1 |-> IF n = m + 1 THEN v ELSE f[n]]
  <2>1. \A n \in 0 .. m + 1 : n # m + 1 => n \in 0 .. m
    OBVIOUS
  <2>2. m + 1 \in 0 .. m + 1 /\ \A n \in 0 .. m : n \in 0 .. m + 1 /\ n # m + 1
    OBVIOUS
  <2>3. g \in [0 .. m + 1 -> S]
    BY <2>1
  <2>4. g[m + 1] = v /\ \A n \in 0 .. m : g[n] = f[n]
    BY <2>2
  <2> QED  BY <2>3, <2>4
<1>3. ASSUME NEW n \in 1 .. m + 1 PROVE g[n] = F[<<n, g[n - 1]>>]
  <2>1. n - 1 \in 0 .. m
    OBVIOUS
  <2>2. g[n - 1] = f[n - 1]
    BY <1>2, <2>1
  <2>3. CASE n = m + 1
    <3>1. n - 1 = m
      BY <2>3
    <3> QED  BY <1>1, <1>2, <2>2, <2>3, <3>1
  <2>4. CASE n # m + 1
    <3>1. n \in 1 .. m /\ n \in 0 .. m
      BY <2>4
    <3> QED  BY <1>2, <2>2, <3>1
  <2> QED  BY <2>3, <2>4
<1>4. 0 \in 0 .. m
  OBVIOUS
<1> QED  BY <1>2, <1>3, <1>4

(* A function may be defined by what its first value is and how each value *)
(* follows from the one before.                                            *)
LEMMA RecursionExists ==
  ASSUME NEW S, NEW N \in Nat, NEW a \in S, NEW F \in [(1 .. N) \X S -> S]
  PROVE  \E f \in [0 .. N -> S] : Follows(f, a, F, N)
<1> DEFINE Upto(m) == \E f \in [0 .. m -> S] : Follows(f, a, F, m)
           T == {m \in Nat : m <= N => Upto(m)}
<1>1. Upto(0)
  <2> DEFINE g == [n \in 0 .. 0 |-> a]
  <2>1. g \in [0 .. 0 -> S] /\ g[0] = a /\ \A n \in 1 .. 0 : FALSE
    OBVIOUS
  <2> HIDE DEF g
  <2> QED  BY <2>1 DEF Follows
<1>2. ASSUME NEW m \in Nat, m + 1 <= N, Upto(m) PROVE Upto(m + 1)
  <2>1. PICK f \in [0 .. m -> S] : Follows(f, a, F, m)
    BY <1>2
  <2> QED  BY <1>2, <2>1, RecursionStep
<1> HIDE DEF Upto
<1>3. 0 \in T
  BY <1>1
<1>4. ASSUME NEW m \in Nat, m \in T PROVE m + 1 \in T
  BY <1>2, <1>4
<1>5. N \in T
  <2> HIDE DEF T
  <2> QED  BY <1>3, <1>4, SetInduction
<1> QED  BY <1>5 DEF Upto
-----------------------------------------------------------------------------
(* Which numbers are samples.                                              *)
LEMMA InSample ==
  ASSUME NEW x \in Int, -32768 <= x, x <= 32767
  PROVE  x \in Sample
<1> DEFINE a == -32768
           b == 32767
<1>1. a \in Int /\ b \in Int /\ a <= x /\ x <= b
  OBVIOUS
<1>2. Sample = a .. b
  BY DEF Sample
<1> HIDE DEF a, b
<1> QED  BY <1>1, <1>2

(* What a sample counts for.                                               *)
LEMMA AbsFacts ==
  ASSUME NEW x \in Sample
  PROVE  /\ Abs(x) \in Nat /\ Abs(x) <= 32768
         /\ Abs(x) = 32768 => x = -32768
<1>1. x \in Int /\ -32768 <= x /\ x <= 32767
  BY DEF Sample
<1> QED  BY <1>1 DEF Abs

(* The sums of the first samples of f.                                     *)
Sums(f, s) ==
  /\ s \in [0 .. Len(f) -> Int]
  /\ s[0] = 0
  /\ \A n \in 1 .. Len(f) : s[n] = s[n - 1] + Abs(f[n])

LEMMA SumsExist ==
  ASSUME NEW f \in Seq(Sample)
  PROVE  \E s : Sums(f, s)
<1> DEFINE F == [x \in (1 .. Len(f)) \X Int |-> x[2] + Abs(f[x[1]])]
<1>1. Len(f) \in Nat /\ 0 \in Int
  OBVIOUS
<1>2. ASSUME NEW n \in 1 .. Len(f) PROVE Abs(f[n]) \in Int
  <2> DEFINE x == f[n]
  <2>1. x \in Sample
    OBVIOUS
  <2> HIDE DEF x
  <2>2. Abs(x) \in Nat
    BY <2>1, AbsFacts
  <2> QED  BY <2>2 DEF x
<1>3. F \in [(1 .. Len(f)) \X Int -> Int]
  BY <1>2
<1>4. \A n \in 1 .. Len(f), x \in Int : F[<<n, x>>] = x + Abs(f[n])
  OBVIOUS
<1> HIDE DEF F
<1>5. PICK s \in [0 .. Len(f) -> Int] : Follows(s, 0, F, Len(f))
  BY <1>1, <1>3, RecursionExists
<1>6. ASSUME NEW n \in 1 .. Len(f) PROVE s[n] = s[n - 1] + Abs(f[n])
  <2>1. s[n - 1] \in Int
    OBVIOUS
  <2> QED  BY <1>4, <1>5, <2>1 DEF Follows
<1> QED  BY <1>5, <1>6 DEF Sums, Follows

(* AbsSum is the last of them.                                             *)
LEMMA AbsSumIs ==
  ASSUME NEW f \in Seq(Sample), NEW s, Sums(f, s)
  PROVE  AbsSum(f) = s[Len(f)]
<1> DEFINE Rec(g) == [n \in 0 .. Len(f) |->
                       IF n = 0 THEN 0 ELSE g[n - 1] + Abs(f[n])]
           sum == CHOOSE g : g = Rec(g)
<1>0. Len(f) \in Nat
  OBVIOUS
<1>1. AbsSum(f) = sum[Len(f)]
  BY DEF AbsSum
<1>2. s = Rec(s)
  <2>1. s = [n \in 0 .. Len(f) |-> s[n]]
    BY DEF Sums
  <2>2. ASSUME NEW n \in 0 .. Len(f)
        PROVE  s[n] = IF n = 0 THEN 0 ELSE s[n - 1] + Abs(f[n])
    <3>1. n = 0 \/ n \in 1 .. Len(f)
      BY <1>0
    <3> QED  BY <3>1 DEF Sums
  <2> QED  BY <2>1, <2>2
<1>3. sum = Rec(sum)
  <2> HIDE DEF Rec
  <2> QED  BY <1>2
<1> HIDE DEF sum
<1>4. sum[Len(f)] = s[Len(f)]
  <2> DEFINE T == {m \in Nat : m <= Len(f) => sum[m] = s[m]}
  <2>1. 0 \in T
    <3>1. 0 \in 0 .. Len(f)
      BY <1>0
    <3> QED  BY <1>3, <3>1 DEF Sums
  <2>2. ASSUME NEW m \in Nat, m \in T PROVE m + 1 \in T
    <3> SUFFICES ASSUME m + 1 <= Len(f) PROVE sum[m + 1] = s[m + 1]
      OBVIOUS
    <3>1. /\ m + 1 \in 0 .. Len(f) /\ m + 1 \in 1 .. Len(f) /\ m + 1 # 0
          /\ (m + 1) - 1 = m /\ m <= Len(f)
      BY <1>0
    <3>2. sum[m] = s[m]
      BY <2>2, <3>1
    <3>3. sum[m + 1] = sum[m] + Abs(f[m + 1])
      BY <1>3, <3>1
    <3>4. s[m + 1] = s[m] + Abs(f[m + 1])
      BY <3>1 DEF Sums
    <3> QED  BY <3>2, <3>3, <3>4
  <2>3. Nat \subseteq T
    <3> HIDE DEF T
    <3> QED  BY <2>1, <2>2, SetInduction
  <2> QED  BY <1>0, <2>3
<1> QED  BY <1>1, <1>4

(* No sample counts for more than 32768, and only -32768 for as much.      *)
LEMMA AbsSumFacts ==
  ASSUME NEW f \in Seq(Sample)
  PROVE  /\ AbsSum(f) \in Nat
         /\ AbsSum(f) >= 32768 * Len(f) => \A i \in 1 .. Len(f) : f[i] = -32768
<1>0. Len(f) \in Nat /\ \A n \in 1 .. Len(f) : f[n] \in Sample
  OBVIOUS
<1>1. PICK s : Sums(f, s)
  BY SumsExist
<1> DEFINE Bounded(m) ==
             /\ s[m] \in Nat /\ s[m] <= 32768 * m
             /\ s[m] = 32768 * m => \A i \in 1 .. m : f[i] = -32768
           T == {m \in Nat : m <= Len(f) => Bounded(m)}
<1>2. 0 \in T
  BY <1>1 DEF Sums
<1>3. ASSUME NEW m \in Nat, m \in T PROVE m + 1 \in T
  <2> SUFFICES ASSUME m + 1 <= Len(f) PROVE Bounded(m + 1)
    OBVIOUS
  <2>1. m + 1 \in 1 .. Len(f) /\ (m + 1) - 1 = m /\ m <= Len(f)
    BY <1>0
  <2>2. Bounded(m)
    BY <1>3, <2>1
  <2> DEFINE x == f[m + 1]
             y == s[m]
             z == s[m + 1]
  <2>3. z = y + Abs(x)
    BY <1>1, <2>1 DEF Sums
  <2>4. x \in Sample
    BY <1>0, <2>1
  <2>5. /\ y \in Nat /\ y <= 32768 * m
        /\ y = 32768 * m => \A i \in 1 .. m : f[i] = -32768
    BY <2>2
  <2> HIDE DEF x, y, z
  <2>6. /\ Abs(x) \in Nat /\ Abs(x) <= 32768
        /\ Abs(x) = 32768 => x = -32768
    BY <2>4, AbsFacts
  <2>7. z \in Nat /\ z <= 32768 * (m + 1)
    BY <2>3, <2>5, <2>6
  <2>8. ASSUME z = 32768 * (m + 1), NEW i \in 1 .. m + 1
        PROVE  f[i] = -32768
    <3>1. y = 32768 * m /\ Abs(x) = 32768
      BY <2>3, <2>5, <2>6, <2>8
    <3>2. i = m + 1 \/ i \in 1 .. m
      OBVIOUS
    <3> QED  BY <2>5, <2>6, <3>1, <3>2 DEF x
  <2> QED  BY <2>7, <2>8 DEF z
<1>4. Nat \subseteq T
  <2> HIDE DEF T
  <2> QED  BY <1>2, <1>3, SetInduction
<1>5. Bounded(Len(f))
  BY <1>0, <1>4
<1>6. AbsSum(f) = s[Len(f)]
  BY <1>1, AbsSumIs
<1> QED  BY <1>0, <1>5, <1>6

(* A quotient, cut, exceeds a number by what is divided.                   *)
LEMMA Quotient ==
  ASSUME NEW a \in Nat, NEW n \in Nat, n > 0, NEW q \in Nat
  PROVE  a \div n \in Nat /\ (a \div n > q <=> a >= (q + 1) * n)
<1> DEFINE d == a \div n
           r == a % n
<1>1. d \in Nat /\ r \in 0 .. n - 1 /\ a = n * d + r
  OBVIOUS
<1> HIDE DEF d, r
<1>2. ASSUME d >= q + 1 PROVE a >= (q + 1) * n
  <2>1. n * d >= n * (q + 1)
    BY <1>1, <1>2
  <2> QED  BY <1>1, <2>1
<1>3. ASSUME d <= q PROVE a < (q + 1) * n
  <2>1. n * d <= n * q
    BY <1>1, <1>3
  <2>2. (q + 1) * n = n * q + n
    OBVIOUS
  <2> QED  BY <1>1, <2>1, <2>2
<1> QED  BY <1>1, <1>2, <1>3 DEF d

(* get_buffer_mean tells how a frame sounds, but at full scale.            *)
LEMMA MeansTell ==
  ASSUME NEW f \in Frames, NEW m \in BufferMeans(f)
  PROVE  /\ m \in Sample
         /\ ~FullScale(f) => (m > VoiceThreshold <=> Loud(f))
<1>1. f \in Seq(Sample) /\ VoiceThreshold \in Nat /\ VoiceThreshold <= 32766
  BY DetectorAssumption
<1>2. CASE f = << >>
  BY <1>1, <1>2 DEF BufferMeans, Sample, Loud
<1>3. CASE f # << >>
  <2> DEFINE a == AbsSum(f)
             n == Len(f)
             d == a \div n
  <2>1. a \in Nat /\ n \in Nat /\ n > 0
    BY <1>1, <1>3, AbsSumFacts
  <2>2. /\ d \in Nat
        /\ d > VoiceThreshold <=> a >= (VoiceThreshold + 1) * n
        /\ d > 32767 <=> a >= 32768 * n
    <3> HIDE DEF a, n
    <3>1. d > 32767 <=> a >= (32767 + 1) * n
      BY <2>1, Quotient
    <3> QED  BY <1>1, <2>1, <3>1, Quotient
  <2>3. a >= 32768 * n => FullScale(f)
    BY <1>1, <1>3, AbsSumFacts DEF FullScale
  <2>4. m \in IF d > 32767 THEN {-32768, 32767} ELSE {d}
    BY <1>3 DEF BufferMeans
  <2>5. Loud(f) <=> a >= (VoiceThreshold + 1) * n
    BY <1>3 DEF Loud
  <2> HIDE DEF a, n, d
  <2>6. CASE d > 32767
    <3>1. FullScale(f)
      BY <2>2, <2>3, <2>6
    <3>2. m = -32768 \/ m = 32767
      BY <2>4, <2>6
    <3> QED  BY <3>1, <3>2 DEF Sample
  <2>7. CASE ~(d > 32767)
    <3>1. m = d
      BY <2>4, <2>7
    <3>2. m \in Nat /\ m <= 32767
      BY <2>2, <2>7, <3>1
    <3>4. m \in Sample
      BY <3>2, InSample
    <3>3. m > VoiceThreshold <=> Loud(f)
      BY <2>2, <2>5, <3>1
    <3> QED  BY <3>3, <3>4
  <2> QED  BY <2>6, <2>7
<1> QED  BY <1>2, <1>3

-----------------------------------------------------------------------------
(* The number of voiced frames, counted by one.                            *)
LEMMA AppendVoiced ==
  ASSUME NEW h \in Seq(BOOLEAN), NEW v \in BOOLEAN
  PROVE  /\ Voiced(h) \in Nat
         /\ Voiced(Append(h, v)) = IF v THEN Voiced(h) + 1 ELSE Voiced(h)
<1> DEFINE n == Len(h)
           g == Append(h, v)
<1>1. n \in Nat /\ Len(g) = n + 1 /\ g[n + 1] = v
      /\ \A i \in 1 .. n : g[i] = h[i]
  OBVIOUS
<1>2. IsFiniteSet(1 .. n)
  BY <1>1, FS_Interval
<1>3. IsFiniteSet(VoicedFrames(h)) /\ VoicedFrames(h) \subseteq 1 .. n
  BY <1>2, FS_Subset DEF VoicedFrames
<1>4. Voiced(h) \in Nat
  BY <1>3, FS_CardinalityType DEF Voiced
<1>5. CASE v
  <2>1. VoicedFrames(g) = VoicedFrames(h) \cup {n + 1}
    <3>1. g[n + 1]
      BY <1>1, <1>5
    <3> HIDE DEF g, n
    <3>2. 1 .. Len(g) = (1 .. n) \cup {n + 1}
      BY <1>1
    <3>3. \A i \in 1 .. n : g[i] <=> h[i]
      BY <1>1
    <3>4. VoicedFrames(g) = {i \in (1 .. n) \cup {n + 1} : g[i]}
      BY <3>2 DEF VoicedFrames
    <3>5. VoicedFrames(h) = {i \in 1 .. n : h[i]}
      BY DEF VoicedFrames, n
    <3> QED  BY <3>1, <3>3, <3>4, <3>5, Zenon
  <2>2. n + 1 \notin VoicedFrames(h)
    BY <1>1, <1>3
  <2>3. Cardinality(VoicedFrames(h) \cup {n + 1})
          = Cardinality(VoicedFrames(h)) + 1
    BY <1>3, <2>2, FS_AddElement
  <2> QED  BY <1>4, <1>5, <2>1, <2>3 DEF Voiced
<1>6. CASE ~v
  <2>1. VoicedFrames(g) = VoicedFrames(h)
    <3> HIDE DEF g
    <3> QED  BY <1>1, <1>6 DEF VoicedFrames
  <2> QED  BY <1>4, <1>6, <2>1 DEF Voiced
<1> QED  BY <1>5, <1>6

(* The silence at the end, counted by one.                                 *)
LEMMA AppendSilence ==
  ASSUME NEW h \in Seq(BOOLEAN), NEW v \in BOOLEAN, NEW k \in Nat,
         IsTrailingSilence(h, k)
  PROVE  IsTrailingSilence(Append(h, v), IF v THEN 0 ELSE k + 1)
<1> DEFINE n == Len(h)
           g == Append(h, v)
<1>1. n \in Nat /\ Len(g) = n + 1 /\ g[n + 1] = v
      /\ \A i \in 1 .. n : g[i] = h[i]
  OBVIOUS
<1>2. /\ k \in 0 .. n
      /\ \A i \in n - k + 1 .. n : ~h[i]
      /\ k = n \/ h[n - k]
  BY DEF IsTrailingSilence
<1> HIDE DEF g, n
<1>3. CASE v
  BY <1>1, <1>3 DEF IsTrailingSilence, g
<1>4. CASE ~v
  <2>1. \A i \in n - k + 1 .. n + 1 : ~g[i]
    <3> SUFFICES ASSUME NEW i \in n - k + 1 .. n + 1 PROVE ~g[i]
      OBVIOUS
    <3>1. CASE i = n + 1
      BY <1>1, <1>4, <3>1
    <3>2. CASE i \in 1 .. n
      BY <1>1, <1>2, <3>2
    <3> QED  BY <1>1, <1>2, <3>1, <3>2
  <2>2. k + 1 = n + 1 \/ g[n - k]
    BY <1>1, <1>2
  <2>3. /\ k + 1 \in 0 .. Len(g)
        /\ Len(g) - (k + 1) + 1 = n - k + 1
        /\ Len(g) - (k + 1) = n - k
    BY <1>1, <1>2
  <2> QED  BY <1>1, <1>4, <2>1, <2>2, <2>3 DEF IsTrailingSilence, g
<1> QED  BY <1>3, <1>4

(* A history ends with one silence.                                        *)
LEMMA OneTrailingSilence ==
  ASSUME NEW h \in Seq(BOOLEAN), NEW k, NEW l,
         IsTrailingSilence(h, k), IsTrailingSilence(h, l)
  PROVE  k = l
<1> DEFINE n == Len(h)
<1>1. /\ n \in Nat /\ k \in 0 .. n /\ l \in 0 .. n
      /\ \A i \in n - k + 1 .. n : ~h[i]
      /\ \A i \in n - l + 1 .. n : ~h[i]
      /\ k = n \/ h[n - k]
      /\ l = n \/ h[n - l]
  BY DEF IsTrailingSilence
<1> HIDE DEF n
<1>2. ~(k < l)
  <2> SUFFICES ASSUME k < l PROVE FALSE
    OBVIOUS
  <2>1. n - k \in n - l + 1 .. n /\ k # n
    BY <1>1
  <2> QED  BY <1>1, <2>1
<1>3. ~(l < k)
  <2> SUFFICES ASSUME l < k PROVE FALSE
    OBVIOUS
  <2>1. n - l \in n - k + 1 .. n /\ l # n
    BY <1>1
  <2> QED  BY <1>1, <2>1
<1> QED  BY <1>1, <1>2, <1>3

(* Nothing heard is nothing counted.                                       *)
LEMMA NothingHeard ==
  /\ << >> \in Seq(BOOLEAN)
  /\ Voiced(<< >>) = 0
  /\ IsTrailingSilence(<< >>, 0)
<1> DEFINE none == << >>
<1>1. none \in Seq(BOOLEAN) /\ Len(none) = 0
  OBVIOUS
<1> HIDE DEF none
<1>2. VoicedFrames(none) = {}
  BY <1>1 DEF VoicedFrames
<1>3. Voiced(none) = 0
  BY <1>2, FS_EmptySet DEF Voiced
<1>4. IsTrailingSilence(none, 0)
  BY <1>1 DEF IsTrailingSilence
<1> QED  BY <1>1, <1>3, <1>4 DEF none

(* What has been heard before the latest frame, and the latest frame.      *)
LEMMA FirstFacts ==
  ASSUME NEW h \in Seq(BOOLEAN), NEW v \in BOOLEAN
  PROVE  /\ Append(h, v) \in Seq(BOOLEAN)
         /\ Append(h, v) # << >>
         /\ Len(Append(h, v)) = Len(h) + 1
         /\ Append(h, v)[Len(h) + 1] = v
         /\ First(Append(h, v), Len(h)) = h
         /\ \A i \in 1 .. Len(h) : /\ Append(h, v)[i] = h[i]
                                  /\ First(Append(h, v), i) = First(h, i)
<1> DEFINE g == Append(h, v)
<1>1. /\ g \in Seq(BOOLEAN) /\ Len(h) \in Nat
      /\ Len(g) = Len(h) + 1 /\ g[Len(h) + 1] = v
      /\ \A i \in 1 .. Len(h) : g[i] = h[i]
  OBVIOUS
<1>2. g # << >>
  OBVIOUS
<1>3. ASSUME NEW i \in 0 .. Len(h)
      PROVE  /\ First(g, i) = [j \in 1 .. i |-> h[j]]
             /\ First(h, i) = [j \in 1 .. i |-> h[j]]
  <2>1. /\ SubSeq(g, 1, i) = [j \in 1 .. i |-> g[j]]
        /\ SubSeq(h, 1, i) = [j \in 1 .. i |-> h[j]]
    BY <1>1
  <2>2. \A j \in 1 .. i : g[j] = h[j]
    BY <1>1
  <2> QED  BY <2>1, <2>2 DEF First
<1>4. h = [j \in 1 .. Len(h) |-> h[j]]
  OBVIOUS
<1>5. First(g, Len(h)) = h
  <2>1. Len(h) \in 0 .. Len(h)
    BY <1>1
  <2>2. First(g, Len(h)) = [j \in 1 .. Len(h) |-> h[j]]
    BY <1>3, <2>1
  <2> QED  BY <1>4, <2>2
<1>6. \A i \in 1 .. Len(h) : First(g, i) = First(h, i)
  BY <1>1, <1>3
<1> QED  BY <1>1, <1>2, <1>5, <1>6

(* A history that is not empty was made by its last frame.                 *)
LEMMA LastFrame ==
  ASSUME NEW h \in Seq(BOOLEAN), h # << >>
  PROVE  /\ First(h, Len(h) - 1) \in Seq(BOOLEAN)
         /\ Len(First(h, Len(h) - 1)) = Len(h) - 1
         /\ h[Len(h)] \in BOOLEAN
         /\ h = Append(First(h, Len(h) - 1), h[Len(h)])
<1> DEFINE n == Len(h)
           g == First(h, n - 1)
<1>1. n \in Nat /\ n > 0 /\ h[n] \in BOOLEAN
  OBVIOUS
<1>2. /\ g \in Seq(BOOLEAN) /\ Len(g) = n - 1
      /\ \A i \in 1 .. n - 1 : g[i] = h[i]
  <2>1. g = [i \in 1 .. n - 1 |-> h[i]]
    BY <1>1 DEF First
  <2>2. \A i \in 1 .. n - 1 : h[i] \in BOOLEAN
    BY <1>1
  <2>3. n - 1 \in Nat
    BY <1>1
  <2> HIDE DEF n, g
  <2> QED  BY <2>1, <2>2, <2>3
<1>3. Append(g, h[n]) = h
  <2> DEFINE last == h[n]
             a == Append(g, last)
  <2>1. last \in BOOLEAN
    BY <1>1
  <2> HIDE DEF g, last
  <2>2. /\ a \in Seq(BOOLEAN) /\ Len(a) = n /\ a[n] = last
        /\ \A i \in 1 .. n - 1 : a[i] = g[i]
    BY <1>1, <1>2, <2>1
  <2>3. last = h[n]
    BY DEF last
  <2> HIDE DEF a
  <2>4. \A i \in 1 .. n : a[i] = h[i]
    BY <1>1, <1>2, <2>2, <2>3
  <2>5. a = h
    <3>1. a = [i \in 1 .. n |-> a[i]]
      BY <2>2
    <3>2. h = [i \in 1 .. n |-> h[i]]
      OBVIOUS
    <3> QED  BY <2>4, <3>1, <3>2
  <2> QED  BY <2>5 DEF a, last
<1> QED  BY <1>1, <1>2, <1>3

(* No frame is counted twice: the voiced ones lie before the silence.      *)
LEMMA CountedOnce ==
  ASSUME NEW h \in Seq(BOOLEAN), NEW k, IsTrailingSilence(h, k)
  PROVE  /\ k \in Nat /\ Voiced(h) \in Nat
         /\ k + Voiced(h) <= Len(h)
<1>1. /\ Len(h) \in Nat /\ k \in 0 .. Len(h)
      /\ \A i \in Len(h) - k + 1 .. Len(h) : ~h[i]
  BY DEF IsTrailingSilence
<1> DEFINE n == Len(h) - k
<1>2. n \in Nat /\ IsFiniteSet(1 .. n) /\ Cardinality(1 .. n) = n
  <2>1. n \in Nat /\ 1 \in Int /\ n \in Int
    BY <1>1
  <2> HIDE DEF n
  <2>2. /\ IsFiniteSet(1 .. n)
        /\ Cardinality(1 .. n) = IF 1 > n THEN 0 ELSE n - 1 + 1
    BY <2>1, FS_Interval
  <2> QED  BY <2>1, <2>2
<1>3. VoicedFrames(h) \subseteq 1 .. n
  BY <1>1 DEF VoicedFrames
<1>4. /\ IsFiniteSet(VoicedFrames(h))
      /\ Cardinality(VoicedFrames(h)) <= n
  BY <1>2, <1>3, FS_Subset
<1>5. Voiced(h) \in Nat /\ Voiced(h) <= n
  BY <1>4, FS_CardinalityType DEF Voiced
<1> QED  BY <1>1, <1>5

(* Whether an end is due, from the numbers that stand for a history.       *)
LEMMA DueByCounters ==
  ASSUME NEW h \in Seq(BOOLEAN), NEW k, IsTrailingSilence(h, k)
  PROVE  Due(h) <=> /\ Voiced(h) > 0
                    /\ k >= SilBuffers
                    /\ k + Voiced(h) >= TotalBuffers
<1>1. k \in 0 .. Len(h)
  BY DEF IsTrailingSilence
<1>2. \A l \in 0 .. Len(h) : IsTrailingSilence(h, l) => l = k
  BY OneTrailingSilence
<1> QED  BY <1>1, <1>2 DEF Due

(* The decision on the counters comes one frame behind the due end.        *)
LEMMA StopsOneFrameLate ==
  ASSUME NEW h \in Seq(BOOLEAN), NEW v \in BOOLEAN, NEW k,
         IsTrailingSilence(h, k), Len(h) < SizeMax, SizeMax \in Nat
  PROVE  StopsSpeaking(IF v THEN 0 ELSE k + 1, Voiced(Append(h, v)))
           <=> ~v /\ Due(h)
<1>1. k \in Nat /\ Voiced(h) \in Nat /\ k + Voiced(h) <= Len(h)
      /\ Len(h) \in Nat /\ SilBuffers \in Nat /\ TotalBuffers \in Nat
  BY CountedOnce, VadAssumption
<1>2. CASE v
  <2>1. (IF v THEN 0 ELSE k + 1) = 0 /\ ~(0 > SilBuffers)
    BY <1>1, <1>2
  <2> QED  BY <1>2, <2>1 DEF StopsSpeaking
<1>3. CASE ~v
  <2>1. Voiced(Append(h, v)) = Voiced(h)
    BY <1>3, AppendVoiced
  <2>2. (k + 1 + Voiced(h)) % (SizeMax + 1) = k + 1 + Voiced(h)
    <3> DEFINE x == k + 1 + Voiced(h)
    <3>1. x \in 0 .. SizeMax
      BY <1>1
    <3> HIDE DEF x
    <3>2. x % (SizeMax + 1) = x
      BY <3>1
    <3> QED  BY <3>2 DEF x
  <2>3. Due(h) <=> /\ Voiced(h) > 0
                   /\ k >= SilBuffers
                   /\ k + Voiced(h) >= TotalBuffers
    BY DueByCounters
  <2> QED  BY <1>1, <1>3, <2>1, <2>2, <2>3 DEF StopsSpeaking
<1> QED  BY <1>2, <1>3
-----------------------------------------------------------------------------
(* The inductive invariant: within a call the counters stand for what was  *)
(* heard before the frame it weighs, then for that frame, too; and no end  *)
(* that is due survives a silent frame.                                    *)
Before == First(heard, Len(heard) - 1)
Newest == heard[Len(heard)]

InCall == pc \in {"count", "decide"} => heard # << >>

BeforeCounting ==
  known /\ pc = "count" =>
    /\ voice = Voiced(Before)
    /\ IsTrailingSilence(Before, sil)
    /\ mean > VoiceThreshold <=> Newest

BeforeDeciding ==
  known /\ pc = "decide" => \E k \in Nat : IsTrailingSilence(Before, k)

Prompt ==
  known => \A i \in 1 .. Len(heard) - 1 :
             Due(First(heard, i)) => \/ heard[i + 1]
                                     \/ i = Len(heard) - 1 /\ pc # "out"

IInv == /\ TypeOK
        /\ CountersAreTheHistory
        /\ InCall
        /\ BeforeCounting
        /\ BeforeDeciding
        /\ Prompt

LEMMA ConstantsAreNumbers ==
  /\ SilBuffers \in Nat /\ TotalBuffers \in Nat /\ MaxFrames \in Nat
  /\ SizeMax \in Nat /\ MaxFrames <= SizeMax
  /\ \A x \in Garbage : x \in 0 .. SizeMax
BY VadAssumption, DetectorAssumption

(* One step of the counters, as long as they cannot wrap around.           *)
LEMMA CountersGrow ==
  ASSUME NEW n \in Nat, NEW b \in Nat, n < b
  PROVE  (n + 1) % (b + 1) = n + 1
<1> DEFINE m == n + 1
<1>1. m \in 0 .. b /\ b + 1 > 0
  OBVIOUS
<1> HIDE DEF m
<1>2. m % (b + 1) = m
  BY <1>1
<1> QED  BY <1>2 DEF m

LEMMA InitInv == Init => IInv
<1> SUFFICES ASSUME Init PROVE IInv
  OBVIOUS
<1> USE DEF Init
<1>1. TypeOK
  <2>1. << >> \in Seq(BOOLEAN) /\ Len(<< >>) = 0 /\ 0 \in Sample
    BY NothingHeard DEF Sample
  <2>2. heard \in Seq(BOOLEAN) /\ Len(heard) <= MaxFrames
    BY <2>1, ConstantsAreNumbers
  <2>3. sil \in 0 .. SizeMax /\ voice \in 0 .. SizeMax
    BY ConstantsAreNumbers
  <2>4. mean \in Sample
    BY <2>1
  <2> QED  BY <2>2, <2>3, <2>4 DEF TypeOK
<1> QED  BY <1>1 DEF IInv, CountersAreTheHistory, InCall, BeforeCounting,
                     BeforeDeciding, Prompt

(* A state in which nothing has been heard and nothing is counted.         *)
LEMMA AfreshInv ==
  ASSUME TypeOK', heard' = << >>, sil' = 0, voice' = 0, pc' = "out"
  PROVE  IInv'
<1>1. CountersAreTheHistory'
  BY NothingHeard DEF CountersAreTheHistory
<1>2. Prompt'
  <2>1. 1 .. Len(heard') - 1 = {}
    OBVIOUS
  <2> QED  BY <2>1 DEF Prompt
<1> QED  BY <1>1, <1>2 DEF IInv, InCall, BeforeCounting, BeforeDeciding

LEMMA TypeStep == ASSUME TypeOK, [Next]_vars PROVE TypeOK'
<1> USE ConstantsAreNumbers DEF TypeOK
<1>1. ASSUME CreateVad PROVE TypeOK'
  BY <1>1 DEF CreateVad
<1>2. ASSUME ResetVad PROVE TypeOK'
  BY <1>2, NothingHeard DEF ResetVad
<1>3. ASSUME Overwrite PROVE TypeOK'
  BY <1>3 DEF Overwrite
<1>4. ASSUME Die PROVE TypeOK'
  BY <1>4 DEF Die
<1>5. ASSUME NEW f \in Frames, IsSpeaking(f) PROVE TypeOK'
  <2>1. mean' \in Sample
    BY <1>5, MeansTell DEF IsSpeaking
  <2>2. heard' = Append(heard, Loud(f)) /\ Len(heard) < MaxFrames
    BY <1>5 DEF IsSpeaking
  <2>3. Loud(f) \in BOOLEAN
    BY DEF Loud
  <2>4. heard' \in Seq(BOOLEAN) /\ Len(heard') <= MaxFrames
    BY <2>2, <2>3, FirstFacts
  <2>5. known' \in BOOLEAN
    BY <1>5 DEF IsSpeaking, FullScale
  <2> QED  BY <1>5, <2>1, <2>4, <2>5
             DEF IsSpeaking, Ended, GoesOn, NoAnswer
<1>6. ASSUME Count PROVE TypeOK'
  <2>1. \A x \in 0 .. SizeMax : (x + 1) % (SizeMax + 1) \in 0 .. SizeMax
    OBVIOUS
  <2>2. sil' \in 0 .. SizeMax /\ voice' \in 0 .. SizeMax
    BY <1>6, <2>1 DEF Count, SilAfter, VoiceAfter
  <2>3. 0 \in Sample
    BY DEF Sample
  <2> QED  BY <1>6, <2>2, <2>3 DEF Count
<1>7. ASSUME AnnounceEnd PROVE TypeOK'
  BY <1>7, NothingHeard DEF AnnounceEnd, Ended
<1>8. ASSUME GoOn PROVE TypeOK'
  BY <1>8 DEF GoOn, GoesOn
<1>9. ASSUME UNCHANGED vars PROVE TypeOK'
  BY <1>9 DEF vars
<1> QED  BY <1>1, <1>2, <1>3, <1>4, <1>5, <1>6, <1>7, <1>8, <1>9 DEF Next

(* A frame that is voiced, and one that is silent, counted.                *)
LEMMA CountStep ==
  ASSUME IInv, TypeOK', Count
  PROVE  IInv'
<1> DEFINE v == mean > VoiceThreshold
           b == Before
<1>1. /\ pc = "count" /\ pc' = "decide" /\ heard' = heard /\ known' = known
      /\ sil' = SilAfter(v) /\ voice' = VoiceAfter(v)
  BY DEF Count
<1>2. /\ TypeOK /\ InCall /\ BeforeCounting /\ Prompt
      /\ heard # << >> /\ heard \in Seq(BOOLEAN) /\ Len(heard) <= MaxFrames
  BY <1>1 DEF IInv, InCall, TypeOK
<1>3. /\ b \in Seq(BOOLEAN) /\ Len(b) = Len(heard) - 1
      /\ Newest \in BOOLEAN /\ heard = Append(b, Newest)
  BY <1>2, LastFrame DEF Before, Newest
<1>4. Len(heard) \in Nat /\ SizeMax \in Nat /\ Len(b) < SizeMax /\ Len(b) \in Nat
  BY <1>2, <1>3, ConstantsAreNumbers
<1>5. ASSUME known
      PROVE  /\ voice' = Voiced(heard)
             /\ IsTrailingSilence(heard, sil')
             /\ IsTrailingSilence(b, sil)
             /\ sil \in Nat
  <2>1. /\ voice = Voiced(b)
        /\ IsTrailingSilence(b, sil)
        /\ v <=> Newest
    BY <1>1, <1>2, <1>5 DEF BeforeCounting
  <2>2. /\ sil \in Nat /\ Voiced(b) \in Nat /\ sil + Voiced(b) <= Len(b)
    BY <1>3, <2>1, CountedOnce
  <2>3. (sil + 1) % (SizeMax + 1) = sil + 1
    BY <1>4, <2>2, CountersGrow
  <2>4. (voice + 1) % (SizeMax + 1) = voice + 1
    BY <1>4, <2>1, <2>2, CountersGrow
  <2>5. IsTrailingSilence(heard, IF Newest THEN 0 ELSE sil + 1)
    BY <1>3, <2>1, <2>2, AppendSilence
  <2>6. Voiced(heard) = IF Newest THEN Voiced(b) + 1 ELSE Voiced(b)
    BY <1>3, AppendVoiced
  <2> HIDE DEF v, b
  <2>7. sil' = (IF Newest THEN 0 ELSE sil + 1)
    BY <1>1, <1>3, <2>1, <2>3 DEF SilAfter
  <2>8. voice' = (IF Newest THEN voice + 1 ELSE voice)
    BY <1>1, <1>3, <2>1, <2>4 DEF VoiceAfter
  <2> QED  BY <2>1, <2>2, <2>5, <2>6, <2>7, <2>8
<1>6. CountersAreTheHistory'
  BY <1>1, <1>5 DEF CountersAreTheHistory
<1>7. BeforeDeciding'
  BY <1>1, <1>5 DEF BeforeDeciding, Before
<1>8. Prompt'
  BY <1>1, <1>2 DEF Prompt
<1> QED  BY <1>1, <1>2, <1>6, <1>7, <1>8 DEF IInv, InCall, BeforeCounting

(* What the decision knows, if anything is known: it announces an end      *)
(* exactly one frame behind a due one.                                     *)
LEMMA DecisionIsOneFrameLate ==
  ASSUME IInv, known, pc = "decide"
  PROVE  /\ heard # << >> /\ heard \in Seq(BOOLEAN)
         /\ StopsSpeaking(sil, voice) <=> DueOneFrameAgo(heard)
<1>1. /\ heard # << >> /\ heard \in Seq(BOOLEAN) /\ Len(heard) <= MaxFrames
      /\ voice = Voiced(heard) /\ IsTrailingSilence(heard, sil)
  BY DEF IInv, InCall, TypeOK, CountersAreTheHistory
<1>2. PICK k \in Nat : IsTrailingSilence(Before, k)
  BY DEF IInv, BeforeDeciding
<1>3. /\ Before \in Seq(BOOLEAN) /\ Len(Before) = Len(heard) - 1
      /\ Newest \in BOOLEAN /\ heard = Append(Before, Newest)
  BY <1>1, LastFrame DEF Before, Newest
<1>4. SizeMax \in Nat /\ Len(Before) < SizeMax
  <2>1. Len(heard) \in Nat
    BY <1>1
  <2> QED  BY <1>1, <1>3, <2>1, ConstantsAreNumbers
<1>5. sil = IF Newest THEN 0 ELSE k + 1
  <2>1. IsTrailingSilence(heard, IF Newest THEN 0 ELSE k + 1)
    BY <1>2, <1>3, AppendSilence
  <2> QED  BY <1>1, <2>1, OneTrailingSilence
<1>6. StopsSpeaking(sil, voice) <=> ~Newest /\ Due(Before)
  BY <1>1, <1>2, <1>3, <1>4, <1>5, StopsOneFrameLate
<1>7. DueOneFrameAgo(heard) <=> ~Newest /\ Due(Before)
  BY <1>1 DEF DueOneFrameAgo, Before, Newest
<1> QED  BY <1>1, <1>6, <1>7

LEMMA GoOnStep ==
  ASSUME IInv, TypeOK', GoOn
  PROVE  IInv'
<1>1. /\ pc = "decide" /\ pc' = "out" /\ heard' = heard /\ known' = known
      /\ sil' = sil /\ voice' = voice /\ ~StopsSpeaking(sil, voice)
  BY DEF GoOn
<1>2. CountersAreTheHistory'
  BY <1>1 DEF IInv, CountersAreTheHistory
<1>3. ASSUME known, NEW i \in 1 .. Len(heard) - 1, Due(First(heard, i))
      PROVE  heard[i + 1]
  <2>1. heard \in Seq(BOOLEAN) /\ heard # << >> /\ ~DueOneFrameAgo(heard)
    BY <1>1, <1>3, DecisionIsOneFrameLate
  <2>2. heard[i + 1] \/ i = Len(heard) - 1
    BY <1>3 DEF IInv, Prompt
  <2>3. CASE i = Len(heard) - 1
    <3>1. Len(heard) \in Nat /\ i + 1 = Len(heard)
      BY <2>1, <2>3
    <3> QED  BY <1>3, <2>1, <2>3, <3>1 DEF DueOneFrameAgo
  <2> QED  BY <2>2, <2>3
<1>4. Prompt'
  BY <1>1, <1>3 DEF Prompt
<1> QED  BY <1>1, <1>2, <1>4 DEF IInv, InCall, BeforeCounting, BeforeDeciding

LEMMA IsSpeakingStep ==
  ASSUME IInv, TypeOK', NEW f \in Frames, IsSpeaking(f)
  PROVE  IInv'
<1> DEFINE v == Loud(f)
           h == heard
           g == Append(h, v)
<1>1. /\ pc = "out" /\ pc' = "count" /\ heard' = g
      /\ known' = (known /\ ~FullScale(f))
      /\ sil' = sil /\ voice' = voice /\ mean' \in BufferMeans(f)
  BY DEF IsSpeaking
<1>2. h \in Seq(BOOLEAN) /\ v \in BOOLEAN /\ Len(h) \in Nat
  BY DEF IInv, TypeOK, Loud
<1>3. /\ g \in Seq(BOOLEAN) /\ g # << >> /\ Len(g) = Len(h) + 1
      /\ g[Len(h) + 1] = v /\ First(g, Len(h)) = h
      /\ \A i \in 1 .. Len(h) : g[i] = h[i] /\ First(g, i) = First(h, i)
  BY <1>2, FirstFacts
<1> HIDE DEF g, v
<1>4. Len(g) - 1 = Len(h) /\ Len(g) = Len(h) + 1
  BY <1>2, <1>3
<1>5. BeforeCounting'
  <2> SUFFICES ASSUME known' PROVE /\ voice' = Voiced(Before')
                                   /\ IsTrailingSilence(Before', sil')
                                   /\ mean' > VoiceThreshold <=> Newest'
    BY DEF BeforeCounting
  <2>1. known /\ ~FullScale(f)
    BY <1>1
  <2>2. Before' = h /\ Newest' = v
    BY <1>1, <1>3, <1>4 DEF Before, Newest
  <2>3. voice = Voiced(h) /\ IsTrailingSilence(h, sil)
    BY <1>1, <2>1 DEF IInv, CountersAreTheHistory
  <2>4. mean' > VoiceThreshold <=> v
    BY <1>1, <2>1, MeansTell DEF v
  <2> QED  BY <1>1, <2>2, <2>3, <2>4
<1>6. Prompt'
  <2> SUFFICES ASSUME known', NEW i \in 1 .. Len(g) - 1, Due(First(g, i))
               PROVE  g[i + 1] \/ i = Len(g) - 1
    BY <1>1 DEF Prompt
  <2>1. i \in 1 .. Len(h) /\ First(g, i) = First(h, i)
    BY <1>3, <1>4
  <2>2. CASE i = Len(h)
    BY <1>4, <2>2
  <2>3. CASE i # Len(h)
    <3>1. i \in 1 .. Len(h) - 1 /\ i + 1 \in 1 .. Len(h)
      BY <1>2, <2>1, <2>3
    <3>2. h[i + 1]
      BY <1>1, <2>1, <2>3, <3>1 DEF IInv, Prompt
    <3> QED  BY <1>3, <3>1, <3>2
  <2> QED  BY <2>2, <2>3
<1> QED  BY <1>1, <1>3, <1>5, <1>6
         DEF IInv, InCall, CountersAreTheHistory, BeforeDeciding

LEMMA StepInv == ASSUME IInv, [Next]_vars PROVE IInv'
<1>1. TypeOK'
  BY TypeStep DEF IInv
<1>2. CASE CreateVad
  BY <1>1, <1>2 DEF CreateVad, IInv, CountersAreTheHistory, InCall,
                    BeforeCounting, BeforeDeciding, Prompt, Before, Newest
<1>3. CASE ResetVad
  BY <1>1, <1>3, AfreshInv DEF ResetVad
<1>4. CASE Overwrite
  BY <1>1, <1>4 DEF Overwrite, IInv, CountersAreTheHistory, InCall,
                    BeforeCounting, BeforeDeciding, Prompt
<1>5. CASE Die
  <2>1. ASSUME known, NEW i \in 1 .. Len(heard) - 1, Due(First(heard, i))
        PROVE  heard[i + 1] \/ i = Len(heard) - 1
    BY <2>1 DEF IInv, Prompt
  <2>2. Prompt'
    BY <1>5, <2>1 DEF Die, Prompt
  <2> QED  BY <1>1, <1>5, <2>2 DEF Die, IInv, CountersAreTheHistory, InCall,
                                   BeforeCounting, BeforeDeciding
<1>6. CASE \E f \in Frames : IsSpeaking(f)
  BY <1>1, <1>6, IsSpeakingStep
<1>7. CASE Count
  BY <1>1, <1>7, CountStep
<1>8. CASE AnnounceEnd
  BY <1>1, <1>8, AfreshInv DEF AnnounceEnd
<1>9. CASE GoOn
  BY <1>1, <1>9, GoOnStep
<1>10. CASE UNCHANGED vars
  BY <1>1, <1>10 DEF vars, IInv, CountersAreTheHistory, InCall,
                     BeforeCounting, BeforeDeciding, Prompt, Before, Newest
<1> QED  BY <1>2, <1>3, <1>4, <1>5, <1>6, <1>7, <1>8, <1>9, <1>10 DEF Next

LEMMA InvHolds == Spec => []IInv
<1> QED  BY InitInv, StepInv, PTL DEF Spec
-----------------------------------------------------------------------------
(* The variables have their types, whatever is written over the counters.  *)
THEOREM TypeCorrect == Spec => []TypeOK
<1>1. IInv => TypeOK
  BY DEF IInv
<1> QED  BY <1>1, InvHolds, PTL

(* From a reset or an announced end on, and as long as nothing is written  *)
(* over the memory of the handle and no frame is at full scale, the two    *)
(* counters are the number of voiced frames and the length of the silence  *)
(* at the end; for all frames, thresholds and counts.                      *)
THEOREM CountersStandForTheHistory == Spec => []CountersAreTheHistory
<1>1. IInv => CountersAreTheHistory
  BY DEF IInv
<1> QED  BY <1>1, InvHolds, PTL

(* Under the same conditions, an end that is due by the comments beside    *)
(* the bounds (xbusiness_vad.c:138, :140) outlives no silent frame: only a *)
(* voiced one takes it back.                                               *)
THEOREM EndsAreOneFrameLate == Spec => []EndIsOneFrameLate
<1>1. IInv => EndIsOneFrameLate
  <2> SUFFICES ASSUME IInv, known, pc = "out", NEW i \in 1 .. Len(heard) - 1,
                      Due(First(heard, i))
               PROVE  heard[i + 1]
    BY DEF EndIsOneFrameLate
  <2> QED  BY DEF IInv, Prompt
<1> QED  BY <1>1, InvHolds, PTL

(* Only a decision returns.                                                *)
LEMMA Decisions ==
  ASSUME [Next]_vars, pc = "decide", pc' = "out"
  PROVE  answer' = Ended <=> StopsSpeaking(sil, voice)
<1>1. CASE AnnounceEnd
  BY <1>1 DEF AnnounceEnd
<1>2. CASE GoOn
  BY <1>2 DEF GoOn, GoesOn, Ended
<1> QED  BY <1>1, <1>2 DEF Next, CreateVad, ResetVad, Overwrite, Die,
                           IsSpeaking, Count, vars

(* Under the same conditions, 0 is returned on exactly the frames that are *)
(* one behind a due end, and 1 on all others.                              *)
THEOREM AnswersAreTheEnds == Spec => AnswerIsTheEnd
<1>1. IInv /\ [Next]_vars
        => [known /\ pc = "decide" /\ pc' = "out"
              => (answer' = Ended <=> DueOneFrameAgo(heard))]_vars
  BY Decisions, DecisionIsOneFrameLate
<1> QED  BY <1>1, InvHolds, PTL DEF Spec, AnswerIsTheEnd

(* The end that was due one frame ago is due now, too.                     *)
LEMMA LateIsDue ==
  ASSUME NEW h \in Seq(BOOLEAN), NEW k \in Nat,
         IsTrailingSilence(First(h, Len(h) - 1), k), DueOneFrameAgo(h)
  PROVE  Due(h)
<1> DEFINE b == First(h, Len(h) - 1)
<1>1. h # << >> /\ h[Len(h)] = FALSE /\ Due(b)
  <2>1. h # << >> /\ ~h[Len(h)] /\ Due(b)
    BY DEF DueOneFrameAgo
  <2> QED  BY <2>1, LastFrame
<1>2. b \in Seq(BOOLEAN) /\ h = Append(b, FALSE)
  BY <1>1, LastFrame
<1> HIDE DEF b
<1>3. Voiced(b) \in Nat /\ Voiced(h) = Voiced(b) /\ IsTrailingSilence(b, k)
  BY <1>2, AppendVoiced DEF b
<1>4. IsTrailingSilence(h, k + 1)
  BY <1>2, <1>3, AppendSilence
<1>5. Voiced(b) > 0 /\ k >= SilBuffers /\ k + Voiced(b) >= TotalBuffers
  BY <1>1, <1>2, <1>3, DueByCounters
<1> QED  BY <1>3, <1>4, <1>5, DueByCounters, ConstantsAreNumbers

(* What EndsAreHeard says of every announcement, and the program does not  *)
(* keep, holds of those that follow a reset or an announcement with        *)
(* nothing written over the memory of the handle and no frame at full      *)
(* scale in between: it takes three silent frames and six in all.          *)
THEOREM KnownEndsAreHeard ==
  Spec => [][known /\ pc = "decide" /\ pc' = "out" /\ answer' = Ended
               => Due(heard)]_vars
<1>1. ASSUME IInv, [Next]_vars, known, pc = "decide", pc' = "out",
             answer' = Ended
      PROVE  Due(heard)
  <2>1. heard \in Seq(BOOLEAN) /\ DueOneFrameAgo(heard)
    BY <1>1, Decisions, DecisionIsOneFrameLate
  <2>2. PICK k \in Nat : IsTrailingSilence(First(heard, Len(heard) - 1), k)
    BY <1>1 DEF IInv, BeforeDeciding, Before
  <2> QED  BY <2>1, <2>2, LateIsDue
<1>2. IInv /\ [Next]_vars
        => [known /\ pc = "decide" /\ pc' = "out" /\ answer' = Ended
              => Due(heard)]_vars
  BY <1>1
<1> QED  BY <1>2, InvHolds, PTL DEF Spec
=============================================================================
