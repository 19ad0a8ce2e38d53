----------------------------- MODULE SumProofs -----------------------------
(***************************************************************************)
(* Induction over an interval, from the well-foundedness of finite sets,   *)
(* and what it gives for the sum of a sequence: that its recursive         *)
(* definition defines it, and the laws that follow.                        *)
(***************************************************************************)
EXTENDS Sums, FiniteSetTheorems, SequenceTheorems, WellFoundedInduction, TLAPS

\* A set of numbers has a least one: the shortest of the intervals from 0.
LEMMA Least ==
  ASSUME NEW S \in SUBSET Nat, S # {}
  PROVE  \E k \in S : \A l \in S : k <= l
<1> DEFINE R == StrictSubsetOrdering(Nat)
           F == FiniteSubsetsOf(Nat)
           T == {0 .. k : k \in S}
<1>1. IsWellFoundedOn(R, F)
  BY FS_StrictSubsetOrderingWellFounded
<1>2. T \subseteq F /\ T # {}
  <2>1. ASSUME NEW k \in S PROVE 0 .. k \in F
    BY FS_Interval DEF FiniteSubsetsOf
  <2> QED
    BY <2>1
<1> HIDE DEF R, F, T
<1>3. PICK t \in T : \A u \in T : ~ (<<u, t>> \in R)
  BY <1>1, <1>2, WFMin
<1>4. PICK k \in S : t = 0 .. k
  BY DEF T
<1>5. ASSUME NEW l \in S, ~(k <= l) PROVE FALSE
  <2>1. 0 .. l \in T /\ l < k
    BY <1>5 DEF T
  <2>2. 0 .. l \subseteq 0 .. k /\ k \in 0 .. k /\ k \notin 0 .. l
    BY <2>1
  <2>3. 0 .. l \in SUBSET Nat /\ 0 .. k \in SUBSET Nat /\ 0 .. l # 0 .. k
    BY <2>2
  <2>4. <<0 .. l, 0 .. k>> \in R
    BY <2>2, <2>3 DEF R, StrictSubsetOrdering
  <2> QED
    BY <1>3, <1>4, <2>1, <2>4
<1> QED
  BY <1>5

\* A set of numbers that holds 0 and, with every number below m, the next one,
\* holds all the numbers up to m.
LEMMA Climb ==
  ASSUME NEW m \in Nat, NEW S, 0 \in S, \A k \in 0 .. m - 1 : k \in S => k + 1 \in S
  PROVE  \A k \in 0 .. m : k \in S
<1> DEFINE Out == {k \in 0 .. m : k \notin S}
<1>1. SUFFICES ASSUME Out # {} PROVE FALSE
  OBVIOUS
<1>2. Out \in SUBSET Nat
  OBVIOUS
<1>3. PICK k \in Out : \A l \in Out : k <= l
  <2> HIDE DEF Out
  <2> QED
    BY <1>1, <1>2, Least
<1>4. k \in 0 .. m /\ k # 0 /\ k \notin S
  OBVIOUS
<1>5. k - 1 \in 0 .. m - 1 /\ (k - 1) + 1 = k /\ ~(k <= k - 1)
  BY <1>4
<1>6. k - 1 \in S
  BY <1>3, <1>5
<1> QED
  BY <1>4, <1>5, <1>6
-----------------------------------------------------------------------------
(* The sums of the first numbers of s: the function Total recurs on.       *)

Recurs(f, s, m) == f = [k \in 0 .. m |-> IF k = 0 THEN 0 ELSE f[k - 1] + s[k]]

Partial(s) == CHOOSE f : Recurs(f, s, Len(s))

LEMMA PartialExists ==
  ASSUME NEW s \in Seq(Nat)
  PROVE  \E f : Recurs(f, s, Len(s))
<1> DEFINE m == Len(s)
           S == {j \in 0 .. m : \E f : Recurs(f, s, j)}
<1>1. m \in Nat
  OBVIOUS
<1> HIDE DEF m
<1>2. 0 \in S
  <2>1. Recurs([k \in 0 .. 0 |-> 0], s, 0)
    BY DEF Recurs
  <2> QED
    BY <1>1, <2>1
<1>3. ASSUME NEW j \in 0 .. m - 1, j \in S PROVE j + 1 \in S
  <2>1. PICK f : Recurs(f, s, j)
    BY <1>3
  <2>2. j \in Nat /\ j + 1 \in 0 .. m
    BY <1>1
  <2> DEFINE g == [k \in 0 .. j + 1 |-> IF k = j + 1 THEN f[j] + s[j + 1] ELSE f[k]]
  <2>3. \A k \in 0 .. j : f[k] = IF k = 0 THEN 0 ELSE f[k - 1] + s[k]
    BY <2>1 DEF Recurs
  <2>4. ASSUME NEW k \in 0 .. j + 1 PROVE g[k] = IF k = 0 THEN 0 ELSE g[k - 1] + s[k]
    <3>1. CASE k = j + 1
      <4>1. k # 0 /\ k - 1 = j /\ j \in 0 .. j + 1 /\ j # j + 1
        BY <2>2, <3>1
      <4>2. g[k] = f[j] + s[k] /\ g[j] = f[j]
        BY <3>1, <4>1
      <4> HIDE DEF g
      <4> QED
        BY <4>1, <4>2
    <3>2. CASE k # j + 1
      <4>1. k \in 0 .. j /\ g[k] = f[k]
        BY <2>2, <3>2
      <4>2. k # 0 => k - 1 \in 0 .. j + 1 /\ k - 1 # j + 1
        BY <2>2, <3>2
      <4>3. k # 0 => g[k - 1] = f[k - 1]
        BY <4>2
      <4> HIDE DEF g
      <4> QED
        BY <2>3, <4>1, <4>3
    <3> QED
      BY <3>1, <3>2
  <2>5. g = [k \in 0 .. j + 1 |-> IF k = 0 THEN 0 ELSE g[k - 1] + s[k]]
    <3>1. g = [k \in 0 .. j + 1 |-> g[k]]
      OBVIOUS
    <3> HIDE DEF g
    <3> QED
      BY <2>4, <3>1
  <2>6. Recurs(g, s, j + 1)
    BY <2>5 DEF Recurs
  <2> QED
    BY <2>2, <2>6
<1>4. m \in S
  <2>1. \A k \in 0 .. m : k \in S
    <3> HIDE DEF S
    <3> QED
      BY <1>1, <1>2, <1>3, Climb
  <2> QED
    BY <1>1, <2>1
<1> QED
  BY <1>4 DEF m

\* The equations of the recursion
LEMMA PartialIs ==
  ASSUME NEW s \in Seq(Nat)
  PROVE  /\ Total(s) = Partial(s)[Len(s)]
         /\ Partial(s)[0] = 0
         /\ \A k \in 1 .. Len(s) : Partial(s)[k] = Partial(s)[k - 1] + s[k]
         /\ \A k \in 0 .. Len(s) : Partial(s)[k] \in Nat
<1> DEFINE f == Partial(s)
<1>1. Total(s) = f[Len(s)]
  BY Zenon DEF Total, Partial, Recurs
<1>2. Recurs(f, s, Len(s))
  BY PartialExists DEF Partial
<1>3. Len(s) \in Nat
  OBVIOUS
<1> HIDE DEF f
<1>4. \A k \in 0 .. Len(s) : f[k] = IF k = 0 THEN 0 ELSE f[k - 1] + s[k]
  BY <1>2 DEF Recurs
<1>5. f[0] = 0 /\ \A k \in 1 .. Len(s) : f[k] = f[k - 1] + s[k]
  BY <1>3, <1>4
<1>6. \A k \in 0 .. Len(s) : f[k] \in Nat
  <2> DEFINE S == {k \in 0 .. Len(s) : f[k] \in Nat}
  <2>1. 0 \in S
    BY <1>3, <1>5
  <2>2. ASSUME NEW k \in 0 .. Len(s) - 1, k \in S PROVE k + 1 \in S
    <3>1. k + 1 \in 1 .. Len(s) /\ (k + 1) - 1 = k /\ k + 1 \in 0 .. Len(s)
      BY <1>3
    <3>2. f[k + 1] = f[k] + s[k + 1] /\ s[k + 1] \in Nat /\ f[k] \in Nat
      BY <1>5, <2>2, <3>1
    <3>3. f[k + 1] \in Nat
      BY <3>2
    <3> QED
      BY <3>1, <3>3
  <2>3. \A k \in 0 .. Len(s) : k \in S
    <3> HIDE DEF S
    <3> QED
      BY <1>3, <2>1, <2>2, Climb
  <2> QED
    BY <2>3
<1> QED
  BY <1>1, <1>5, <1>6 DEF f

LEMMA TotalType == \A s \in Seq(Nat) : Total(s) \in Nat
<1> SUFFICES ASSUME NEW s \in Seq(Nat) PROVE Total(s) \in Nat
  OBVIOUS
<1>1. Len(s) \in 0 .. Len(s)
  OBVIOUS
<1> QED
  BY <1>1, PartialIs

LEMMA TotalEmpty == Total(<<>>) = 0
<1>1. <<>> \in Seq(Nat) /\ Len(<<>>) = 0
  OBVIOUS
<1>2. Total(<<>>) = Partial(<<>>)[Len(<<>>)] /\ Partial(<<>>)[0] = 0
  BY <1>1, PartialIs
<1> QED
  BY <1>1, <1>2
-----------------------------------------------------------------------------
\* Whatever grows by the members of s is its sum.
LEMMA TotalUnique ==
  ASSUME NEW s \in Seq(Nat), NEW g \in [0 .. Len(s) -> Int], g[0] = 0,
         \A k \in 1 .. Len(s) : g[k] = g[k - 1] + s[k]
  PROVE  Total(s) = g[Len(s)]
<1> DEFINE f == Partial(s)
           m == Len(s)
           S == {k \in 0 .. m : f[k] = g[k]}
<1>1. m \in Nat /\ f[0] = 0 /\ Total(s) = f[m] /\ \A k \in 1 .. m : f[k] = f[k - 1] + s[k]
  BY PartialIs
<1>2. \A k \in 1 .. m : g[k] = g[k - 1] + s[k]
  OBVIOUS
<1> HIDE DEF f, m
<1>3. 0 \in S
  BY <1>1
<1>4. ASSUME NEW k \in 0 .. m - 1, k \in S PROVE k + 1 \in S
  <2>1. k + 1 \in 1 .. m /\ (k + 1) - 1 = k /\ k + 1 \in 0 .. m
    BY <1>1
  <2>2. f[k + 1] = f[k] + s[k + 1] /\ g[k + 1] = g[k] + s[k + 1] /\ f[k] = g[k]
    BY <1>1, <1>2, <1>4, <2>1
  <2> QED
    BY <2>1, <2>2
<1>5. \A k \in 0 .. m : k \in S
  <2> HIDE DEF S
  <2> QED
    BY <1>1, <1>3, <1>4, Climb
<1>6. m \in S
  BY <1>1, <1>5
<1> QED
  BY <1>1, <1>6 DEF m

\* The same members after position a of s and after position b of u sum up to
\* the same.
SameSlice(s, a, u, b, m) ==
  /\ s \in Seq(Nat) /\ u \in Seq(Nat) /\ a \in Nat /\ b \in Nat /\ m \in Nat
  /\ a + m <= Len(s) /\ b + m <= Len(u)
  /\ \A i \in 1 .. m : s[a + i] = u[b + i]

SameGrowth(s, a, u, b, m) ==
  Partial(s)[a + m] + Partial(u)[b] = Partial(u)[b + m] + Partial(s)[a]

LEMMA PartialSame ==
  ASSUME NEW s, NEW u, NEW a, NEW b, NEW m, SameSlice(s, a, u, b, m)
  PROVE  SameGrowth(s, a, u, b, m)
<1>0. /\ s \in Seq(Nat) /\ u \in Seq(Nat) /\ a \in Nat /\ b \in Nat /\ m \in Nat
      /\ a + m <= Len(s) /\ b + m <= Len(u)
      /\ \A i \in 1 .. m : s[a + i] = u[b + i]
  BY DEF SameSlice
<1> DEFINE f == Partial(s)
           g == Partial(u)
           S == {k \in 0 .. m : f[a + k] + g[b] = g[b + k] + f[a]}
           p == Len(s)
           q == Len(u)
<1>1. /\ p \in Nat /\ q \in Nat /\ a + m <= p /\ b + m <= q
      /\ \A k \in 1 .. p : f[k] = f[k - 1] + s[k]
      /\ \A k \in 1 .. q : g[k] = g[k - 1] + u[k]
      /\ \A k \in 0 .. p : f[k] \in Nat
      /\ \A k \in 0 .. q : g[k] \in Nat
  BY <1>0, PartialIs
<1> HIDE DEF f, g, p, q
<1>2. a \in 0 .. p /\ b \in 0 .. q /\ f[a] \in Nat /\ g[b] \in Nat /\ a + 0 = a /\ b + 0 = b
  BY <1>0, <1>1
<1>3. 0 \in S
  <2>1. f[a + 0] + g[b] = g[b + 0] + f[a]
    BY <1>2
  <2>2. 0 \in 0 .. m
    BY <1>0
  <2> QED
    BY <2>1, <2>2
<1>4. ASSUME NEW k \in 0 .. m - 1, k \in S PROVE k + 1 \in S
  <2>1. /\ a + (k + 1) \in 1 .. p /\ (a + (k + 1)) - 1 = a + k /\ k + 1 \in 1 .. m
        /\ b + (k + 1) \in 1 .. q /\ (b + (k + 1)) - 1 = b + k
        /\ a + k \in 0 .. p /\ b + k \in 0 .. q
    BY <1>0, <1>1
  <2>2. f[a + (k + 1)] = f[a + k] + s[a + (k + 1)] /\ g[b + (k + 1)] = g[b + k] + u[b + (k + 1)]
    BY <1>1, <2>1
  <2>3. s[a + (k + 1)] = u[b + (k + 1)] /\ s[a + (k + 1)] \in Nat
    <3>1. s[a + (k + 1)] = u[b + (k + 1)]
      BY <1>0, <2>1
    <3>2. \A i \in 1 .. p : s[i] \in Nat
      BY <1>0, ElementOfSeq DEF p
    <3> QED
      BY <2>1, <3>1, <3>2
  <2>4. f[a + k] + g[b] = g[b + k] + f[a] /\ f[a + k] \in Nat /\ g[b + k] \in Nat
    BY <1>1, <1>4, <2>1
  <2>5. f[a + (k + 1)] + g[b] = g[b + (k + 1)] + f[a]
    <3> DEFINE v == s[a + (k + 1)]
               x == f[a + k]
               y == g[b + k]
               fa == f[a]
               gb == g[b]
    <3>1. f[a + (k + 1)] = x + v /\ g[b + (k + 1)] = y + v
      BY <2>2, <2>3
    <3>2. v \in Nat /\ x \in Nat /\ y \in Nat /\ x + gb = y + fa
          /\ fa \in Nat /\ gb \in Nat
      BY <1>2, <2>3, <2>4
    <3> HIDE DEF v, x, y, fa, gb
    <3>3. (x + v) + gb = (y + v) + fa
      BY <3>2
    <3> QED
      BY <3>1, <3>3 DEF fa, gb
  <2> QED
    BY <2>1, <2>5
<1>5. \A k \in 0 .. m : k \in S
  <2> HIDE DEF S
  <2> QED
    BY <1>0, <1>3, <1>4, Climb
<1>6. m \in S
  BY <1>0, <1>5
<1> QED
  BY <1>6 DEF f, g, SameGrowth

\* One more number
LEMMA TotalAppend ==
  ASSUME NEW s \in Seq(Nat), NEW x \in Nat
  PROVE  Total(Append(s, x)) = Total(s) + x
<1> DEFINE u == Append(s, x)
           m == Len(s)
<1>1. /\ u \in Seq(Nat) /\ Len(u) = m + 1 /\ m \in Nat /\ u[m + 1] = x
      /\ \A i \in 1 .. m : u[i] = s[i]
  BY AppendProperties
<1> HIDE DEF u, m
<1>2. /\ Total(u) = Partial(u)[m + 1] /\ Total(s) = Partial(s)[m]
      /\ Partial(u)[m + 1] = Partial(u)[m] + x
      /\ Partial(u)[0] = 0 /\ Partial(s)[0] = 0
      /\ Partial(u)[m] \in Nat /\ Partial(s)[m] \in Nat
  <2>1. m + 1 \in 1 .. Len(u) /\ (m + 1) - 1 = m /\ m \in 0 .. Len(u) /\ m \in 0 .. Len(s)
    BY <1>1 DEF m
  <2>2. /\ Total(u) = Partial(u)[Len(u)] /\ Partial(u)[0] = 0
        /\ Partial(u)[m + 1] = Partial(u)[(m + 1) - 1] + u[m + 1] /\ Partial(u)[m] \in Nat
    BY <1>1, <2>1, PartialIs
  <2>3. Total(s) = Partial(s)[Len(s)] /\ Partial(s)[0] = 0 /\ Partial(s)[m] \in Nat
    BY <2>1, PartialIs
  <2> QED
    BY <1>1, <2>1, <2>2, <2>3 DEF m
<1>3. Partial(u)[m] + Partial(s)[0] = Partial(s)[m] + Partial(u)[0]
  <2>1. \A i \in 1 .. m : u[0 + i] = s[0 + i]
    BY <1>1
  <2>2. m = 0 + m /\ m <= Len(u) /\ m <= Len(s) /\ 0 \in Nat
    BY <1>1 DEF m
  <2>3. SameGrowth(u, 0, s, 0, m)
    BY <1>1, <2>1, <2>2, PartialSame DEF SameSlice
  <2> QED
    BY <2>2, <2>3 DEF SameGrowth
<1>4. Partial(u)[m] = Partial(s)[m]
  <2> DEFINE v == Partial(u)[m]
             w == Partial(s)[m]
  <2>1. v \in Nat /\ w \in Nat /\ v + 0 = w + 0
    BY <1>2, <1>3
  <2> HIDE DEF v, w
  <2>2. v = w
    BY <2>1
  <2> QED
    BY <2>2 DEF v, w
<1>5. Total(u) = Total(s) + x
  BY <1>2, <1>4
<1> QED
  BY <1>5 DEF u

\* The first of the numbers and the others
LEMMA TotalTail ==
  ASSUME NEW s \in Seq(Nat), s # <<>>
  PROVE  Total(s) = Head(s) + Total(Tail(s)) /\ Head(s) \in Nat /\ Total(Tail(s)) \in Nat
<1> DEFINE u == Tail(s)
           m == Len(s) - 1
<1>1. /\ u \in Seq(Nat) /\ Len(u) = m /\ m \in Nat /\ Head(s) = s[1] /\ Head(s) \in Nat
      /\ Len(s) = 1 + m
      /\ \A i \in 1 .. m : u[i] = s[i + 1]
  BY HeadTailProperties, EmptySeq
<1> HIDE DEF u, m
<1>2. /\ Total(s) = Partial(s)[1 + m] /\ Partial(s)[0] = 0 /\ Partial(s)[1] = Partial(s)[0] + s[1]
      /\ Partial(s)[1 + m] \in Nat
  <2>1. 1 \in 1 .. Len(s) /\ 1 - 1 = 0 /\ 1 + m \in 0 .. Len(s)
    BY <1>1
  <2> QED
    BY <1>1, <2>1, PartialIs
<1>3. Total(u) = Partial(u)[m] /\ Partial(u)[0] = 0 /\ Partial(u)[m] \in Nat
  <2>1. m \in 0 .. Len(u)
    BY <1>1
  <2> QED
    BY <1>1, <2>1, PartialIs
<1>4. Partial(s)[1 + m] + Partial(u)[0] = Partial(u)[m] + Partial(s)[1]
  <2>1. \A i \in 1 .. m : s[1 + i] = u[0 + i]
    BY <1>1
  <2>2. 1 + m <= Len(s) /\ m <= Len(u) /\ m = 0 + m /\ 0 \in Nat /\ 1 \in Nat
    BY <1>1
  <2>3. SameGrowth(s, 1, u, 0, m)
    BY <1>1, <2>1, <2>2, PartialSame DEF SameSlice
  <2> QED
    BY <2>2, <2>3 DEF SameGrowth
<1>6. Total(s) = Head(s) + Total(u) /\ Total(u) \in Nat
  <2> DEFINE x == Partial(s)[1 + m]
             y == Partial(u)[m]
             h == Head(s)
  <2>1. x \in Nat /\ y \in Nat /\ h \in Nat /\ x + 0 = y + (0 + h)
    BY <1>1, <1>2, <1>3, <1>4
  <2> HIDE DEF x, y, h
  <2>2. x = h + y
    BY <2>1
  <2> QED
    BY <1>2, <1>3, <2>1, <2>2 DEF x, y, h
<1> QED
  BY <1>1, <1>6 DEF u

\* One number replaced
LEMMA TotalUpdate ==
  ASSUME NEW s \in Seq(Nat), NEW u \in Seq(Nat), Len(u) = Len(s), NEW j \in 1 .. Len(s),
         \A i \in 1 .. Len(s) : i # j => u[i] = s[i]
  PROVE  Total(u) + s[j] = Total(s) + u[j]
<1> DEFINE f == Partial(s)
           g == Partial(u)
           n == Len(s)
<1>1. /\ n \in Nat /\ j \in Nat /\ 1 <= j /\ j <= n /\ s[j] \in Nat /\ u[j] \in Nat
      /\ f[0] = 0 /\ g[0] = 0 /\ f[j] = f[j - 1] + s[j] /\ g[j] = g[j - 1] + u[j]
      /\ \A k \in 0 .. n : f[k] \in Nat /\ g[k] \in Nat
      /\ Total(s) = f[n] /\ Total(u) = g[n]
  BY PartialIs, SMTT(30)
<1>2. f[j - 1] + g[0] = g[j - 1] + f[0]
  <2>1. \A i \in 1 .. j - 1 : s[0 + i] = u[0 + i]
    BY <1>1
  <2>2. j - 1 = 0 + (j - 1) /\ j - 1 <= Len(s) /\ j - 1 <= Len(u) /\ j - 1 \in Nat /\ 0 \in Nat
    BY <1>1
  <2> HIDE DEF f, g, n
  <2>3. Partial(s)[j - 1] + Partial(u)[0] = Partial(u)[j - 1] + Partial(s)[0]
    <3>1. SameGrowth(s, 0, u, 0, j - 1)
      BY <2>1, <2>2, PartialSame DEF SameSlice
    <3> QED
      BY <2>2, <3>1 DEF SameGrowth
  <2> QED
    BY <2>3 DEF f, g
<1>3. f[n] + g[j] = g[n] + f[j]
  <2>1. \A i \in 1 .. n - j : s[j + i] = u[j + i]
    BY <1>1
  <2>2. n = j + (n - j) /\ n <= Len(s) /\ n <= Len(u) /\ n - j \in Nat
    BY <1>1
  <2> HIDE DEF f, g, n
  <2>3. Partial(s)[n] + Partial(u)[j] = Partial(u)[n] + Partial(s)[j]
    <3>1. SameGrowth(s, j, u, j, n - j)
      BY <1>1, <2>1, <2>2, PartialSame DEF SameSlice
    <3> QED
      BY <2>2, <3>1 DEF SameGrowth
  <2> QED
    BY <2>3 DEF f, g
<1> HIDE DEF f, g, n
<1>4. j - 1 \in 0 .. n /\ n \in 0 .. n /\ j \in 0 .. n
  BY <1>1
<1>5. /\ f[j - 1] \in Nat /\ g[j - 1] \in Nat /\ f[n] \in Nat /\ g[n] \in Nat
      /\ f[j] \in Nat /\ g[j] \in Nat
  BY <1>1, <1>4
<1>6. f[j - 1] = g[j - 1] /\ f[n] + g[j] = g[n] + f[j]
  <2> DEFINE x == f[j - 1]
             y == g[j - 1]
  <2>1. x \in Nat /\ y \in Nat /\ x + 0 = y + 0
    BY <1>1, <1>2, <1>5
  <2> HIDE DEF x, y
  <2>2. x = y
    BY <2>1
  <2> QED
    BY <1>3, <2>2 DEF x, y
<1>7. g[n] + s[j] = f[n] + u[j]
  <2> DEFINE x == f[j - 1]
             a == s[j]
             b == u[j]
             v == f[n]
             w == g[n]
  <2>1. v \in Nat /\ w \in Nat /\ v + (x + b) = w + (x + a)
    BY <1>1, <1>5, <1>6
  <2>3. x \in Nat /\ a \in Nat /\ b \in Nat /\ f[j] = x + a /\ g[j] = x + b
    BY <1>1, <1>5, <1>6
  <2> HIDE DEF x, a, b, v, w
  <2>2. w + a = v + b
    BY <2>1, <2>3
  <2> QED
    BY <2>2 DEF a, b, v, w
<1> QED
  BY <1>1, <1>7

\* The same number again and again
LEMMA TotalConst ==
  ASSUME NEW s \in Seq(Nat), NEW c \in Nat, \A i \in 1 .. Len(s) : s[i] = c
  PROVE  Total(s) = Len(s) * c
<1> DEFINE g == [k \in 0 .. Len(s) |-> k * c]
<1>1. Len(s) \in Nat
  OBVIOUS
<1>2. g[0] = 0 /\ g[Len(s)] = Len(s) * c
  BY <1>1
<1>3. g \in [0 .. Len(s) -> Int]
  BY <1>1
<1>4. ASSUME NEW k \in 1 .. Len(s) PROVE g[k] = g[k - 1] + s[k]
  <2>1. g[k] = k * c /\ g[k - 1] = (k - 1) * c
    BY <1>1
  <2>2. k * c = (k - 1) * c + c
    BY <1>1
  <2> QED
    BY <2>1, <2>2
<1> HIDE DEF g
<1>5. Total(s) = g[Len(s)]
  BY <1>2, <1>3, <1>4, TotalUnique
<1> QED
  BY <1>2, <1>5
=============================================================================
