------------------------ MODULE PartitionAssignProofs ------------------------
(***************************************************************************)
(* What TLAPS proves about PartitionAssign, for any number of partitions   *)
(* of any size and any destination that SizeAssumption allows: with exact  *)
(* estimates, or with floats and a destination too small for them to be    *)
(* off by a MB.                                                            *)
(*                                                                         *)
(* The argument has four parts.  Sums: Over(S, f, m) adds up f over the   *)
(* items of S, and is additive in S.  Sizes: the space left is what the    *)
(* settled items have not taken (Balanced), it holds the frozen items and  *)
(* the minimum of those still estimated, and freezing one more keeps it    *)
(* so, for an estimate is less than its item would get of one MB more      *)
(* (Under, Priced).                                                        *)
(* Places: what is known from the two ends of the disk leaves between them *)
(* what the sizes given out leave (Shape).  Progress, for exact estimates: *)
(* each sweep places or freezes an item (Advance, Budget) and leaves one   *)
(* without a size whose share is enough for it (Exact).                    *)
(***************************************************************************)
EXTENDS PartitionAssign, NaturalsInduction, WellFoundedInduction, TLAPS

-----------------------------------------------------------------------------
(* Sums.                                                                     *)

\* What holds of 0, and of k + 1 with k, holds of m.
LEMMA Upward ==
  ASSUME NEW m \in Nat, NEW S, 0 \in S, \A k \in 0 .. m - 1 : k \in S => k + 1 \in S
  PROVE  m \in S
<1> SUFFICES ASSUME m \notin S
             PROVE  FALSE
  OBVIOUS
<1> DEFINE T == {k \in 0 .. m : k \notin S}
<1>1. T \subseteq Nat /\ m \in T
  OBVIOUS
<1>2. PICK q \in T : \A r \in T : ~(<<r, q>> \in OpToRel(<, Nat))
  BY <1>1, WFMin, NatLessThanWellFounded
<1>3. \A r \in T : ~(r < q)
  BY <1>1, <1>2 DEF OpToRel
<1>4. q # 0 /\ q \in 0 .. m
  OBVIOUS
<1>5. q - 1 \in 0 .. m - 1 /\ q - 1 < q /\ (q - 1) + 1 = q
  BY <1>4
<1>6. q - 1 \notin S
  BY <1>5
<1>7. q - 1 \in T
  BY <1>5, <1>6
<1> QED
  BY <1>3, <1>5, <1>7

Partial(g, f, m) ==
  /\ g \in [0 .. m -> Int]
  /\ g[0] = 0
  /\ \A k \in 0 .. m - 1 : g[k + 1] = g[k] + f[k]

\* The partial sums exist ...
LEMMA PartialExists ==
  ASSUME NEW m \in Nat, NEW f \in [0 .. m - 1 -> Int]
  PROVE  \E g : Partial(g, f, m)
<1> DEFINE S == {k \in 0 .. m : \E g : Partial(g, f, k)}
<1>1. 0 \in S
  <2>1. Partial([k \in 0 .. 0 |-> 0], f, 0)
    BY DEF Partial
  <2> QED
    BY <2>1
<1>2. ASSUME NEW k \in 0 .. m - 1, k \in S
      PROVE  k + 1 \in S
  <2>1. PICK g : Partial(g, f, k)
    BY <1>2
  <2> DEFINE h == [j \in 0 .. k + 1 |-> IF j = k + 1 THEN g[k] + f[k] ELSE g[j]]
  <2>2. h \in [0 .. k + 1 -> Int]
    BY <2>1 DEF Partial
  <2>3. h[0] = 0
    BY <2>1 DEF Partial
  <2>4. ASSUME NEW j \in 0 .. k
        PROVE  h[j + 1] = h[j] + f[j]
    BY <2>1 DEF Partial
  <2>5. Partial(h, f, k + 1)
    <3> HIDE DEF h
    <3> QED
      BY <2>2, <2>3, <2>4 DEF Partial
  <2> QED
    BY <2>5
<1> HIDE DEF S
<1>3. m \in S
  BY <1>1, <1>2, Upward
<1> QED
  BY <1>3 DEF S

\* ... and Sum is the last of them.
LEMMA SumIs ==
  ASSUME NEW m \in Nat, NEW f \in [0 .. m - 1 -> Int]
  PROVE  \E g : Partial(g, f, m) /\ Sum(f, m) = g[m]
<1>1. PICK g : Partial(g, f, m)
  BY PartialExists
<1> DEFINE Body(h) == [k \in 0 .. m |-> IF k = 0 THEN 0 ELSE h[k - 1] + f[k - 1]]
           sum == CHOOSE h : h = Body(h)
<1>2. g = Body(g)
  <2>1. ASSUME NEW k \in 0 .. m
        PROVE  g[k] = IF k = 0 THEN 0 ELSE g[k - 1] + f[k - 1]
    <3>1. CASE k = 0
      BY <1>1, <3>1 DEF Partial
    <3>2. CASE k # 0
      <4>1. k - 1 \in 0 .. m - 1 /\ (k - 1) + 1 = k
        BY <3>2
      <4> QED
        BY <1>1, <3>2, <4>1 DEF Partial
    <3> QED
      BY <3>1, <3>2
  <2> QED
    BY <1>1, <2>1 DEF Partial
<1>3. sum = Body(sum)
  BY <1>2
<1>4. Sum(f, m) = sum[m]
  BY DEF Sum
<1> HIDE DEF sum
<1> DEFINE S == {k \in 0 .. m : sum[k] = g[k]}
<1>5. 0 \in S
  BY <1>1, <1>3 DEF Partial
<1>6. ASSUME NEW k \in 0 .. m - 1, k \in S
      PROVE  k + 1 \in S
  <2>1. k + 1 \in 0 .. m /\ (k + 1) - 1 = k /\ k + 1 # 0
    OBVIOUS
  <2>2. sum[k + 1] = sum[k] + f[k]
    BY <1>3, <2>1
  <2> QED
    BY <1>1, <1>6, <2>1, <2>2 DEF Partial
<1> HIDE DEF S
<1>7. m \in S
  BY <1>5, <1>6, Upward
<1> QED
  BY <1>1, <1>4, <1>7 DEF S

\* A sum of integers is one.
LEMMA SumInt ==
  ASSUME NEW m \in Nat, NEW f \in [0 .. m - 1 -> Int]
  PROVE  Sum(f, m) \in Int
<1>1. PICK g : Partial(g, f, m) /\ Sum(f, m) = g[m]
  BY SumIs
<1> QED
  BY <1>1 DEF Partial

\* A sum of terms that are no larger is no larger, and smaller when one term is.
LEMMA SumAtMost ==
  ASSUME NEW m \in Nat, NEW f \in [0 .. m - 1 -> Int], NEW g \in [0 .. m - 1 -> Int],
         \A k \in 0 .. m - 1 : f[k] <= g[k]
  PROVE  /\ Sum(f, m) <= Sum(g, m)
         /\ (\E k \in 0 .. m - 1 : f[k] < g[k]) => Sum(f, m) < Sum(g, m)
<1>1. PICK F : Partial(F, f, m) /\ Sum(f, m) = F[m]
  BY SumIs
<1>2. PICK G : Partial(G, g, m) /\ Sum(g, m) = G[m]
  BY SumIs
<1>3. ASSUME NEW i \in 0 .. m, i < m => f[i] < g[i]
      PROVE  F[m] <= G[m] /\ (i < m => F[m] < G[m])
  <2> DEFINE S == {k \in 0 .. m : F[k] <= G[k] /\ (i < k => F[k] < G[k])}
  <2>1. 0 \in S
    BY <1>1, <1>2 DEF Partial
  <2>2. ASSUME NEW k \in 0 .. m - 1, k \in S
        PROVE  k + 1 \in S
    <3>1. F[k] \in Int /\ G[k] \in Int /\ f[k] \in Int /\ g[k] \in Int /\ f[k] <= g[k]
      BY <1>1, <1>2 DEF Partial
    <3>2. F[k + 1] = F[k] + f[k] /\ G[k + 1] = G[k] + g[k]
      BY <1>1, <1>2 DEF Partial
    <3>3. F[k] <= G[k] /\ (i < k => F[k] < G[k])
      BY <2>2
    <3>4. i < k + 1 => i < k \/ i = k
      OBVIOUS
    <3>5. i = k => f[k] < g[k]
      BY <1>3
    <3>6. F[k + 1] <= G[k + 1]
      BY <3>1, <3>2, <3>3
    <3>7. ASSUME i < k + 1
          PROVE  F[k + 1] < G[k + 1]
      <4>1. F[k] < G[k] \/ f[k] < g[k]
        BY <3>3, <3>4, <3>5, <3>7
      <4> QED
        BY <3>1, <3>2, <3>3, <4>1
    <3>8. k + 1 \in 0 .. m
      OBVIOUS
    <3> QED
      BY <3>6, <3>7, <3>8
  <2> HIDE DEF S
  <2>3. m \in S
    BY <2>1, <2>2, Upward
  <2> QED
    BY <2>3 DEF S
<1>4. F[m] <= G[m]
  BY <1>3
<1> QED
  BY <1>1, <1>2, <1>3, <1>4

\* The sum of term by term sums.
LEMMA SumAdd ==
  ASSUME NEW m \in Nat, NEW f \in [0 .. m - 1 -> Int], NEW g \in [0 .. m - 1 -> Int],
         NEW h \in [0 .. m - 1 -> Int], \A k \in 0 .. m - 1 : h[k] = f[k] + g[k]
  PROVE  Sum(h, m) = Sum(f, m) + Sum(g, m)
<1>1. PICK F : Partial(F, f, m) /\ Sum(f, m) = F[m]
  BY SumIs
<1>2. PICK G : Partial(G, g, m) /\ Sum(g, m) = G[m]
  BY SumIs
<1>3. PICK H : Partial(H, h, m) /\ Sum(h, m) = H[m]
  BY SumIs
<1> DEFINE S == {k \in 0 .. m : H[k] = F[k] + G[k]}
<1>4. 0 \in S
  <2>1. F[0] = 0 /\ G[0] = 0 /\ H[0] = 0
    BY <1>1, <1>2, <1>3 DEF Partial
  <2> QED
    BY <2>1
<1>5. ASSUME NEW k \in 0 .. m - 1, k \in S
      PROVE  k + 1 \in S
  <2>1. F[k] \in Int /\ G[k] \in Int /\ f[k] \in Int /\ g[k] \in Int
    <3>1. F[k] \in Int
      BY <1>1 DEF Partial
    <3>2. G[k] \in Int
      BY <1>2 DEF Partial
    <3> QED
      BY <3>1, <3>2
  <2>2. F[k + 1] = F[k] + f[k] /\ G[k + 1] = G[k] + g[k] /\ H[k + 1] = H[k] + h[k]
    <3>1. F[k + 1] = F[k] + f[k]
      BY <1>1 DEF Partial
    <3>2. G[k + 1] = G[k] + g[k]
      BY <1>2 DEF Partial
    <3>3. H[k + 1] = H[k] + h[k]
      BY <1>3 DEF Partial
    <3> QED
      BY <3>1, <3>2, <3>3
  <2>3. H[k] = F[k] + G[k] /\ h[k] = f[k] + g[k]
    BY <1>5
  <2>4. H[k + 1] = F[k + 1] + G[k + 1]
    <3>1. (F[k] + G[k]) + (f[k] + g[k]) = (F[k] + f[k]) + (G[k] + g[k])
      BY ONLY <2>1
    <3> QED
      BY ONLY <2>2, <2>3, <3>1, Zenon
  <2> QED
    BY <2>4
<1> HIDE DEF S
<1>6. m \in S
  BY <1>4, <1>5, Upward
<1> QED
  BY <1>1, <1>2, <1>3, <1>6 DEF S

LEMMA Distribute ==
  ASSUME NEW c \in Int, NEW x \in Int, NEW y \in Int
  PROVE  c * (x + y) = c * x + c * y
  OBVIOUS

Scaled(h, c, f, m) == \A k \in 0 .. m - 1 : h[k] = c * f[k]

\* The sum of a multiple.
LEMMA SumScaled ==
  ASSUME NEW m \in Nat, NEW f \in [0 .. m - 1 -> Int], NEW h \in [0 .. m - 1 -> Int],
         NEW c \in Int, Scaled(h, c, f, m)
  PROVE  Sum(h, m) = c * Sum(f, m)
<1>1. PICK F : Partial(F, f, m) /\ Sum(f, m) = F[m]
  BY SumIs
<1>2. PICK H : Partial(H, h, m) /\ Sum(h, m) = H[m]
  BY SumIs
<1>3. H[0] = c * F[0]
  BY <1>1, <1>2 DEF Partial
<1>4. ASSUME NEW k \in 0 .. m - 1, H[k] = c * F[k]
      PROVE  H[k + 1] = c * F[k + 1]
  <2>1. F[k + 1] = F[k] + f[k] /\ H[k + 1] = H[k] + h[k]
    BY <1>1, <1>2 DEF Partial
  <2>2. h[k] = c * f[k]
    BY DEF Scaled
  <2> DEFINE x == F[k]
             y == f[k]
  <2>3. x \in Int /\ y \in Int
    BY <1>1 DEF Partial
  <2> HIDE DEF x, y
  <2>4. c * (x + y) = c * x + c * y
    BY <2>3, Distribute
  <2> QED
    BY <1>4, <2>1, <2>2, <2>4, Zenon DEF x, y
<1> DEFINE S == {k \in 0 .. m : H[k] = c * F[k]}
<1>5. m \in S
  <2>1. 0 \in S
    BY <1>3
  <2>2. \A k \in 0 .. m - 1 : k \in S => k + 1 \in S
    BY <1>4
  <2> HIDE DEF S
  <2> QED
    BY <2>1, <2>2, Upward
<1> QED
  BY <1>1, <1>2, <1>5 DEF S

\* A sum with at most one term is that term.
LEMMA SumPoint ==
  ASSUME NEW m \in Nat, NEW f \in [0 .. m - 1 -> Int], NEW j \in 0 .. m - 1,
         \A k \in 0 .. m - 1 : k # j => f[k] = 0
  PROVE  Sum(f, m) = f[j]
<1>1. PICK F : Partial(F, f, m) /\ Sum(f, m) = F[m]
  BY SumIs
<1> DEFINE S == {k \in 0 .. m : F[k] = IF j < k THEN f[j] ELSE 0}
<1>2. 0 \in S
  BY <1>1 DEF Partial
<1>3. ASSUME NEW k \in 0 .. m - 1, k \in S
      PROVE  k + 1 \in S
  <2>1. F[k + 1] = F[k] + f[k] /\ f[k] \in Int /\ F[k] \in Int
    BY <1>1 DEF Partial
  <2>2. CASE k = j
    BY <1>3, <2>1, <2>2
  <2>3. CASE k # j
    <3>1. f[k] = 0 /\ (j < k + 1 <=> j < k)
      BY <2>3
    <3> QED
      BY <1>3, <2>1, <3>1
  <2> QED
    BY <2>2, <2>3
<1> HIDE DEF S
<1>4. m \in S
  BY <1>2, <1>3, Upward
<1> QED
  BY <1>1, <1>4 DEF S

\* m ones add up to m.
LEMMA SumOnes ==
  ASSUME NEW m \in Nat
  PROVE  Sum([k \in 0 .. m - 1 |-> 1], m) = m
<1> DEFINE f == [k \in 0 .. m - 1 |-> 1]
<1>1. PICK F : Partial(F, f, m) /\ Sum(f, m) = F[m]
  BY SumIs
<1> DEFINE S == {k \in 0 .. m : F[k] = k}
<1>2. 0 \in S
  BY <1>1 DEF Partial
<1>3. ASSUME NEW k \in 0 .. m - 1, k \in S
      PROVE  k + 1 \in S
  BY <1>1, <1>3 DEF Partial
<1> HIDE DEF S
<1>4. m \in S
  BY <1>2, <1>3, Upward
<1> QED
  BY <1>1, <1>4 DEF S

-----------------------------------------------------------------------------
(* Sums over some of the items.                                              *)

Part(S, f, m) == [k \in 0 .. m - 1 |-> IF k \in S THEN f[k] ELSE 0]
Over(S, f, m) == Sum(Part(S, f, m), m)

LEMMA PartType ==
  ASSUME NEW m \in Nat, NEW S, NEW f \in [0 .. m - 1 -> Nat]
  PROVE  Part(S, f, m) \in [0 .. m - 1 -> Int]
  BY DEF Part

LEMMA OverType ==
  ASSUME NEW m \in Nat, NEW S, NEW f \in [0 .. m - 1 -> Nat]
  PROVE  Over(S, f, m) \in Nat
<1> DEFINE z == [k \in 0 .. m - 1 |-> 0]
<1>1. z \in [0 .. m - 1 -> Int] /\ Part(S, f, m) \in [0 .. m - 1 -> Int]
  BY PartType
<1>2. Sum(z, m) = 0
  <2>1. CASE m = 0
    <3>1. PICK g : Partial(g, z, m) /\ Sum(z, m) = g[m]
      BY <1>1, SumIs
    <3> QED
      BY <2>1, <3>1 DEF Partial
  <2>2. CASE m # 0
    <3>1. 0 \in 0 .. m - 1
      BY <2>2
    <3> QED
      BY <1>1, <3>1, SumPoint
  <2> QED
    BY <2>1, <2>2
<1>3. \A k \in 0 .. m - 1 : z[k] <= Part(S, f, m)[k]
  BY DEF Part
<1> HIDE DEF z
<1>4. Sum(z, m) <= Sum(Part(S, f, m), m)
  BY <1>1, <1>3, SumAtMost
<1>5. Sum(Part(S, f, m), m) \in Int
  BY <1>1, SumInt
<1> QED
  BY <1>2, <1>4, <1>5 DEF Over

LEMMA OverUnion ==
  ASSUME NEW m \in Nat, NEW S, NEW T, S \cap T = {}, NEW f \in [0 .. m - 1 -> Nat]
  PROVE  Over(S \cup T, f, m) = Over(S, f, m) + Over(T, f, m)
<1> DEFINE h == Part(S \cup T, f, m)
           a == Part(S, f, m)
           b == Part(T, f, m)
<1>1. h \in [0 .. m - 1 -> Int] /\ a \in [0 .. m - 1 -> Int] /\ b \in [0 .. m - 1 -> Int]
  BY PartType
<1>2. \A k \in 0 .. m - 1 : h[k] = a[k] + b[k]
  BY DEF Part
<1> HIDE DEF h, a, b
<1>3. Sum(h, m) = Sum(a, m) + Sum(b, m)
  BY <1>1, <1>2, SumAdd
<1> QED
  BY <1>3 DEF Over, h, a, b

LEMMA OverOne ==
  ASSUME NEW m \in Nat, NEW j \in 0 .. m - 1, NEW f \in [0 .. m - 1 -> Nat]
  PROVE  Over({j}, f, m) = f[j]
<1>1. Part({j}, f, m) \in [0 .. m - 1 -> Int]
  BY PartType
<1>2. \A k \in 0 .. m - 1 : k # j => Part({j}, f, m)[k] = 0
  BY DEF Part
<1>3. Part({j}, f, m)[j] = f[j]
  BY DEF Part
<1> QED
  BY <1>1, <1>2, <1>3, SumPoint DEF Over

\* One item more.
LEMMA OverAdd ==
  ASSUME NEW m \in Nat, NEW S, NEW j \in 0 .. m - 1, j \notin S, NEW f \in [0 .. m - 1 -> Nat]
  PROVE  Over(S \cup {j}, f, m) = Over(S, f, m) + f[j]
<1>1. S \cap {j} = {}
  OBVIOUS
<1>2. Over(S \cup {j}, f, m) = Over(S, f, m) + Over({j}, f, m)
  BY <1>1, OverUnion
<1> QED
  BY <1>2, OverOne

\* One item less.
LEMMA OverRemove ==
  ASSUME NEW m \in Nat, NEW S, NEW j \in 0 .. m - 1, j \in S, NEW f \in [0 .. m - 1 -> Nat]
  PROVE  Over(S, f, m) = Over(S \ {j}, f, m) + f[j]
<1>1. (S \ {j}) \cup {j} = S
  OBVIOUS
<1> QED
  BY <1>1, OverAdd

\* The sum asks for the values on S alone.
LEMMA OverSame ==
  ASSUME NEW m, NEW S, NEW f, NEW g, \A k \in 0 .. m - 1 : k \in S => f[k] = g[k]
  PROVE  Over(S, f, m) = Over(S, g, m)
<1>1. Part(S, f, m) = Part(S, g, m)
  BY DEF Part
<1> QED
  BY <1>1 DEF Over

\* A part of a part adds up to no more.
LEMMA OverWithin ==
  ASSUME NEW m \in Nat, NEW S, NEW T, S \subseteq T, NEW f \in [0 .. m - 1 -> Nat]
  PROVE  Over(S, f, m) <= Over(T, f, m)
<1>1. T = S \cup (T \ S) /\ S \cap (T \ S) = {}
  OBVIOUS
<1>2. Over(T, f, m) = Over(S, f, m) + Over(T \ S, f, m)
  BY <1>1, OverUnion
<1> QED
  BY <1>2, OverType

\* What each item of a part has to its weight, the part has to its weight.
LEMMA OverWeighed ==
  ASSUME NEW m \in Nat, NEW S, NEW f \in [0 .. m - 1 -> Nat], NEW g \in [0 .. m - 1 -> Nat],
         NEW c \in Nat, NEW d \in Nat,
         \A k \in 0 .. m - 1 : k \in S => c * f[k] <= g[k] * d
  PROVE  /\ c * Over(S, f, m) <= Over(S, g, m) * d
         /\ (\E k \in 0 .. m - 1 : k \in S /\ c * f[k] < g[k] * d)
               => c * Over(S, f, m) < Over(S, g, m) * d
<1> DEFINE a == Part(S, f, m)
           b == Part(S, g, m)
           ca == [k \in 0 .. m - 1 |-> c * a[k]]
           db == [k \in 0 .. m - 1 |-> d * b[k]]
<1>1. a \in [0 .. m - 1 -> Int] /\ b \in [0 .. m - 1 -> Int]
  BY PartType
<1>t. \A x, y \in Int : x * y \in Int /\ x * y = y * x /\ 0 * x = 0 /\ x * 0 = 0
  OBVIOUS
<1>2. \A k \in 0 .. m - 1 : (k \in S => a[k] = f[k] /\ b[k] = g[k])
                              /\ (k \notin S => a[k] = 0 /\ b[k] = 0)
  BY DEF Part
<1> HIDE DEF a, b
<1>3. ca \in [0 .. m - 1 -> Int] /\ db \in [0 .. m - 1 -> Int]
  <2>1. \A k \in 0 .. m - 1 : a[k] \in Int /\ b[k] \in Int
    BY <1>1
  <2>2. \A k \in 0 .. m - 1 : c * a[k] \in Int /\ d * b[k] \in Int
    BY <1>t, <2>1
  <2> QED
    BY <2>2
<1>4. /\ \A k \in 0 .. m - 1 : ca[k] <= db[k]
      /\ \A k \in 0 .. m - 1 : k \in S /\ c * f[k] < g[k] * d => ca[k] < db[k]
  <2> SUFFICES ASSUME NEW k \in 0 .. m - 1
               PROVE  ca[k] <= db[k] /\ (k \in S /\ c * f[k] < g[k] * d => ca[k] < db[k])
    OBVIOUS
  <2>1. CASE k \in S
    <3>1. ca[k] = c * f[k] /\ db[k] = d * g[k]
      BY <1>2, <2>1
    <3>2. d * g[k] = g[k] * d
      BY <1>t
    <3> QED
      BY <2>1, <3>1, <3>2
  <2>2. CASE k \notin S
    <3>1. ca[k] = c * 0 /\ db[k] = d * 0
      BY <1>2, <2>2
    <3> QED
      BY <2>2, <3>1, <1>t
  <2> QED
    BY <2>1, <2>2
<1>5. Scaled(ca, c, a, m) /\ Scaled(db, d, b, m)
  BY DEF Scaled
<1> HIDE DEF ca, db
<1>6. Sum(a, m) \in Int /\ Sum(b, m) \in Int
  BY <1>1, SumInt
<1>7. Sum(ca, m) = c * Sum(a, m) /\ Sum(db, m) = d * Sum(b, m)
  <2>1. c \in Int /\ d \in Int
    OBVIOUS
  <2>2. Sum(ca, m) = c * Sum(a, m)
    BY <1>1, <1>3, <1>5, <2>1, SumScaled, Zenon
  <2>3. Sum(db, m) = d * Sum(b, m)
    BY <1>1, <1>3, <1>5, <2>1, SumScaled, Zenon
  <2> QED
    BY <2>2, <2>3
<1>8. Sum(ca, m) = c * Sum(a, m) /\ Sum(db, m) = Sum(b, m) * d
  BY <1>6, <1>7, <1>t
<1>9. Sum(ca, m) <= Sum(db, m) /\ ((\E k \in 0 .. m - 1 : ca[k] < db[k]) => Sum(ca, m) < Sum(db, m))
  BY <1>3, <1>4, SumAtMost
<1>10. Over(S, f, m) = Sum(a, m) /\ Over(S, g, m) = Sum(b, m)
  BY DEF Over, a, b
<1>11. c * Over(S, f, m) = Sum(ca, m) /\ Over(S, g, m) * d = Sum(db, m)
  BY <1>8, <1>10
<1> QED
  BY <1>4, <1>9, <1>11

\* Ones and zeros add up to at most the number of items.
LEMMA OverOnes ==
  ASSUME NEW m \in Nat, NEW S, NEW f \in [0 .. m - 1 -> Nat], \A k \in 0 .. m - 1 : k \in S => f[k] <= 1
  PROVE  Over(S, f, m) <= m
<1> DEFINE u == [k \in 0 .. m - 1 |-> 1]
<1>1. u \in [0 .. m - 1 -> Int] /\ Part(S, f, m) \in [0 .. m - 1 -> Int]
  BY PartType
<1>2. \A k \in 0 .. m - 1 : Part(S, f, m)[k] <= u[k]
  BY DEF Part
<1>3. Sum(u, m) = m
  BY SumOnes
<1> HIDE DEF u
<1>4. Sum(Part(S, f, m), m) <= Sum(u, m)
  BY <1>1, <1>2, SumAtMost
<1> QED
  BY <1>3, <1>4 DEF Over

-----------------------------------------------------------------------------
(* The inductive invariant.                                                  *)

\* Space: what there is to give out; sources, least: the source size and the
\* minimum of each item; Unset, Chosen: the items that have no size yet, or one.
Space == limit - DstOffset
sources == [k \in Items |-> item[k].src]
least == [k \in Items |-> MinSize(item[k])]
Unset(st) == {k \in Items : ~st[k]}
Chosen(st) == {k \in Items : st[k]}

\* What the function was called with.
Given == n \in 1 .. MaxItems /\ item \in [Items -> ItemSet] /\ limit \in DstSizes

\* An item that has its size may have that size.
Valid(st, sz) == \A k \in Items :
  /\ item[k].fixed => st[k]
  /\ st[k] => sz[k] >= least[k] /\ (item[k].fixed => sz[k] = item[k].src)

\* Z holds the items that a sweep has frozen: they are still in the totals sf and
\* df, as those without a size are.  What is left holds them and the minimum of
\* the others.
Balanced(Z, st, sz, sf, df) ==
  /\ Z \subseteq Items /\ \A z \in Z : st[z]
  /\ sf = Over(Z \cup Unset(st), sources, n)
  /\ Space = df + Over(Items \ (Z \cup Unset(st)), sz, n)
  /\ Over(Z, sz, n) + Over(Unset(st), least, n) <= df

\* v is less than the share of src in df + 1; without a source it is nothing.
Under(src, v, sf, df) ==
  /\ sf * v <= src * (df + 1)
  /\ src # 0 => sf * v < src * (df + 1)

\* No frozen item has more than its share, nor, once there is one, does the
\* minimum of an item that is still estimated ask for more.
Priced(Z, st, sz, sf, df) ==
  /\ \A z \in Z : Under(item[z].src, sz[z], sf, df)
  /\ Z # {} => \A k \in Unset(st) : Under(item[k].src, least[k], sf, df)

\* In a sweep that has settled nothing all estimates are of the same totals.
Estimated(st, sz, sf, df, i) == \A k \in Items : k < i /\ ~st[k] =>
  sf > 0 /\ sz[k] >= least[k] /\ Under(item[k].src, sz[k], sf, df)

\* The items before a and from b on are placed; rest of them are counted as not
\* placed, or the last one has just taken the gap between the ends.
Done(a, b) == {k \in Items : k < a \/ k >= b}

Shape(a, b, st, sz, off, rest) ==
  /\ \A k \in 0 .. n : off[k] # 0 <=> (k <= a \/ k >= b)
  /\ off[0] = DstOffset /\ off[n] = limit
  /\ \A k \in Done(a, b) : st[k] /\ off[k + 1] = off[k] + sz[k]
  /\ \A j, k \in 0 .. n : j < k /\ off[j] # 0 /\ off[k] # 0 => off[j] <= off[k]
  /\ off[b] - off[a] = Space - Over(Done(a, b), sz, n)
  /\ \/ rest = b - a
     \/ rest = 0 /\ b = a + 1 /\ st[a] /\ off[b] = off[a] + sz[a] /\ Unset(st) = {}

Running ==
  /\ Valid(set, size)
  /\ \E a, b \in 0 .. n : a < b /\ Shape(a, b, set, size, offset, remain_to_set)
  /\ ~changed => Estimated(set, size, src_flexible, dst_flexible, ii)
  /\ \E Z : /\ Balanced(Z, set, size, src_flexible, dst_flexible)
            /\ remain_to_set # 0 => Priced(Z, set, size, src_flexible, dst_flexible)

\* Before the sweeps.
Starting ==
  /\ offset = [k \in 0 .. n |-> 0]
  /\ ii = 0 /\ ~changed

IInv ==
  /\ TypeOK /\ LayoutCorrect
  /\ result = "start" => Starting
  /\ result = "running" => Running

-----------------------------------------------------------------------------
(* Arithmetic, of which the solvers get one fact at a time.                  *)

LEMMA Products ==
  /\ \A x, y \in Nat : x * y \in Nat
  /\ \A x, y \in Int : x * y \in Int /\ x * y = y * x
  OBVIOUS

LEMMA Monotone ==
  ASSUME NEW c \in Nat, NEW x \in Int, NEW y \in Int
  PROVE  /\ x <= y => c * x <= c * y
         /\ c # 0 /\ x < y => c * x < c * y
         /\ c # 0 /\ c * x <= c * y => x <= y
         /\ c # 0 /\ c * x < c * y => x < y
  OBVIOUS

LEMMA Exchange ==
  ASSUME NEW x \in Int, NEW y \in Int, NEW z \in Int
  PROVE  x * (y * z) = y * (x * z) /\ (x - y) * z = x * z - y * z /\ x * (y - z) = x * y - x * z
  OBVIOUS

LEMMA Wraps ==
  /\ \A x \in Int : Wrap(x) \in 0 .. U64 - 1
  /\ \A x \in 0 .. U64 - 1 : Wrap(x) = x
  BY SizeAssumption DEF Wrap

\* Division with remainder.
LEMMA Divides ==
  ASSUME NEW p \in Nat, NEW q \in Nat, q > 0, NEW x \in Int, x = p \div q,
         NEW r \in Int, r = p % q
  PROVE  p = q * x + r /\ 0 <= r /\ r < q
  BY SMT

\* An item that is raised to its minimum, where that is no more than its share
\* and one, leaves at least as much to each unit of the others.
LEMMA RaiseShare ==
  ASSUME NEW sf \in Nat, NEW D \in Nat, NEW s \in Nat, NEW m \in Nat, NEW t \in Nat, NEW v \in Nat,
         s <= sf, m < D, sf * m <= s * D
  PROVE  /\ sf * v <= t * D => (sf - s) * v <= t * (D - m)
         /\ sf * v < t * D => (sf - s) * v < t * (D - m)
<1> DEFINE r == sf - s
           e == D - m
<1>1. r \in Nat /\ e \in Nat /\ e # 0
  OBVIOUS
<1>2. r * D <= sf * e
  <2>1. r * D = sf * D - s * D /\ sf * e = sf * D - sf * m
    BY Exchange
  <2>2. sf * D \in Int /\ s * D \in Int /\ sf * m \in Int
    BY Products
  <2> QED
    BY <2>1, <2>2
<1> HIDE DEF r, e
<1>3. t * (r * D) <= t * (sf * e)
  <2>1. r * D \in Int /\ sf * e \in Int
    BY <1>1, Products
  <2> QED
    BY <1>2, <2>1, Monotone
<1>4. t * (r * D) = r * (t * D) /\ t * (sf * e) = sf * (t * e) /\ r * (sf * v) = sf * (r * v)
  BY <1>1, Exchange
<1>5. /\ sf * v \in Nat /\ t * D \in Nat /\ r * v \in Nat /\ t * e \in Nat
      /\ r * (sf * v) \in Nat /\ r * (t * D) \in Nat /\ sf * (t * e) \in Nat
  <2>1. sf * v \in Nat /\ t * D \in Nat /\ r * v \in Nat /\ t * e \in Nat
    BY <1>1, Products
  <2> QED
    BY <1>1, <2>1, Products
<1>6. r * v <= t * e \/ ~(sf * v <= t * D)
  <2> SUFFICES ASSUME sf * v <= t * D
               PROVE  r * v <= t * e
    OBVIOUS
  <2>1. CASE sf = 0
    <3>1. r = 0
      BY <2>1 DEF r
    <3> QED
      BY <1>5, <3>1
  <2>2. CASE sf # 0
    <3>1. r * (sf * v) <= r * (t * D)
      BY <1>1, <1>5, Monotone
    <3>2. sf * (r * v) <= sf * (t * e)
      BY <1>3, <1>4, <1>5, <3>1
    <3> QED
      BY <1>5, <2>2, <3>2, Monotone
  <2> QED
    BY <2>1, <2>2
<1>7. r * v < t * e \/ ~(sf * v < t * D)
  <2> SUFFICES ASSUME sf * v < t * D
               PROVE  r * v < t * e
    OBVIOUS
  <2>1. CASE r = 0
    <3>1. t # 0
      BY <1>5
    <3>2. t * e # 0
      BY <1>1, <3>1
    <3> QED
      BY <1>5, <2>1, <3>2
  <2>2. CASE r # 0
    <3>1. r * (sf * v) < r * (t * D)
      BY <1>1, <1>5, <2>2, Monotone
    <3>2. sf * (r * v) < sf * (t * e)
      BY <1>3, <1>4, <1>5, <3>1
    <3>3. sf # 0
      BY <2>2 DEF r
    <3> QED
      BY <1>5, <3>2, <3>3, Monotone
  <2> QED
    BY <2>1, <2>2
<1> QED
  BY <1>6, <1>7 DEF r, e

\* What the assumptions say of one call.
LEMMA Givens ==
  ASSUME Given
  PROVE  /\ n \in Nat /\ n >= 1 /\ n < U64
         /\ Items = 0 .. n - 1 /\ 0 \in 0 .. n /\ n \in 0 .. n
         /\ limit \in Nat /\ limit < U64 /\ DstOffset \in Nat /\ DstOffset > 0 /\ DstOffset <= limit
         /\ Space \in Nat /\ Space <= limit
         /\ \A k \in Items : /\ item[k].src \in Nat /\ item[k].fixed \in BOOLEAN
                             /\ least[k] = MinSize(item[k]) /\ least[k] \in Nat
                             /\ sources[k] = item[k].src
                             /\ item[k].fixed => least[k] = item[k].src
         /\ sources \in [0 .. n - 1 -> Nat] /\ least \in [0 .. n - 1 -> Nat]
         /\ sources \in [Items -> Nat] /\ least \in [Items -> Nat]
<1>1. n \in Nat /\ n >= 1 /\ n <= MaxItems /\ MaxItems \in Nat /\ MaxItems < U64
      /\ U64 \in Nat
  BY SizeAssumption DEF Given
<1>2. n < U64
  BY <1>1
<1>3. Items = 0 .. n - 1 /\ 0 \in 0 .. n /\ n \in 0 .. n
  BY <1>1 DEF Items
<1>4. limit \in Nat /\ limit < U64 /\ DstOffset \in Nat /\ DstOffset > 0 /\ DstOffset <= limit
  BY SizeAssumption DEF Given
<1>5. Space \in Nat /\ Space <= limit
  BY <1>4 DEF Space
<1>6. ASSUME NEW k \in Items
      PROVE  /\ item[k].src \in Nat /\ item[k].fixed \in BOOLEAN
             /\ least[k] = MinSize(item[k]) /\ least[k] \in Nat
             /\ sources[k] = item[k].src
             /\ item[k].fixed => least[k] = item[k].src
  <2>1. item[k] \in [src : Nat, min : Nat, fixed : BOOLEAN]
    BY SizeAssumption DEF Given
  <2>2. least[k] = MinSize(item[k]) /\ sources[k] = item[k].src
    BY DEF least, sources
  <2> QED
    BY <2>1, <2>2 DEF MinSize
<1>7. sources \in [Items -> Nat] /\ least \in [Items -> Nat]
  <2>1. \A k \in Items : item[k].src \in Nat /\ MinSize(item[k]) \in Nat
    BY <1>6
  <2> QED
    BY <2>1 DEF sources, least
<1> QED
  BY <1>1, <1>2, <1>3, <1>4, <1>5, <1>6, <1>7

\* An estimate, exact or off by one part in P where there is less than P to give
\* out, is less than the share that one MB more would give.
LEMMA EstimateUnder ==
  ASSUME NEW src \in Nat, NEW sf \in Nat, sf > 0, NEW df \in Nat, NEW P \in Nat,
         NEW p, p = src * df, NEW x, x = p \div sf, NEW e,
         \/ e = x
         \/ e \in 0 .. 2 * x + 1 /\ df < P /\ (sf * P) * e <= (P + 1) * p
  PROVE  e \in Nat /\ Under(src, e, sf, df)
<1>1. p \in Nat
  BY Products
<1>2. x \in Nat /\ sf * x <= p
  <2>1. PICK r : r = p % sf
    OBVIOUS
  <2>2. x \in Int /\ r \in Int
    BY <1>1, <2>1
  <2>3. p = sf * x + r /\ 0 <= r /\ r < sf
    BY <1>1, <2>1, <2>2, Divides
  <2>4. sf * x \in Int /\ sf * (-1) = -sf
    BY <2>2
  <2>5. x >= 0
    <3> SUFFICES ASSUME x <= -1
                 PROVE  FALSE
      BY <2>2
    <3>1. sf * x <= sf * (-1)
      BY <2>2, Monotone
    <3> QED
      BY <1>1, <2>2, <2>3, <2>4, <3>1
  <2> QED
    BY <1>1, <2>2, <2>3, <2>4, <2>5
<1>3. src * (df + 1) = p + src
  OBVIOUS
<1>4. CASE e = x
  <2>1. sf * e \in Nat
    BY <1>2, <1>4
  <2> QED
    BY <1>1, <1>2, <1>3, <1>4, <2>1 DEF Under
<1>5. CASE e \in 0 .. 2 * x + 1 /\ df < P /\ (sf * P) * e <= (P + 1) * p
  <2>1. e \in Nat
    BY <1>2, <1>5
  <2>2. PICK q \in Nat : q = sf * e
    BY <2>1, Products
  <2>3. P * q <= P * p + p
    <3>1. (sf * P) * e = P * (sf * e) /\ (P + 1) * p = P * p + p
      BY ONLY <1>1, <2>1, P \in Nat, sf \in Nat
    <3> QED
      BY <1>5, <2>2, <3>1
  <2>4. P * q \in Nat /\ P * p \in Nat /\ P * (p + src) = P * p + P * src /\ P * src \in Nat
    BY <1>1
  <2>5. CASE src = 0
    <3>1. p = 0 /\ P * p = 0
      BY <2>5
    <3>2. P * q <= P * 0
      BY <2>3, <3>1
    <3>3. q <= 0
      BY ONLY <1>5, <2>2, <3>2, Monotone, P \in Nat, df \in Nat
    <3> QED
      BY <1>3, <2>1, <2>2, <2>5, <3>1, <3>3 DEF Under
  <2>6. CASE src # 0
    <3>1. src * df < src * P
      BY <1>5, <2>6, Monotone
    <3>2. p < P * src
      BY <3>1, Products
    <3>3. P * q < P * (p + src)
      BY ONLY <1>1, <2>3, <2>4, <3>2
    <3>4. q < p + src
      <4>1. p + src \in Int
        BY <1>1
      <4> QED
        BY ONLY <1>5, <2>2, <3>3, <4>1, Monotone, P \in Nat, df \in Nat
    <3> QED
      BY <1>1, <1>3, <2>1, <2>2, <3>4 DEF Under
  <2> QED
    BY <2>5, <2>6
<1> QED
  BY <1>4, <1>5, <1>2

\* So it is no more than what is left for all items.
LEMMA UnderFits ==
  ASSUME NEW src \in Nat, NEW sf \in Nat, sf > 0, NEW df \in Nat, NEW e \in Nat,
         src <= sf, Under(src, e, sf, df)
  PROVE  e <= df
<1> SUFFICES ASSUME e >= df + 1
             PROVE  FALSE
  OBVIOUS
<1>1. df + 1 \in Nat /\ df + 1 > 0
  OBVIOUS
<1>2. sf * (df + 1) <= sf * e
  BY Monotone
<1>3. src * (df + 1) <= sf * (df + 1)
  <2>1. (df + 1) * src <= (df + 1) * sf
    BY Monotone
  <2> QED
    BY <2>1, Products
<1>4. sf * (df + 1) \in Nat /\ src * (df + 1) \in Nat /\ sf * e \in Nat
  BY <1>1, Products
<1>5. CASE src # 0
  BY <1>2, <1>3, <1>4, <1>5 DEF Under
<1>6. CASE src = 0
  <2>1. src * (df + 1) = 0 /\ sf * (df + 1) >= sf
    BY <1>6
  <2> QED
    BY <1>2, <1>4, <2>1 DEF Under
<1> QED
  BY <1>5, <1>6

-----------------------------------------------------------------------------
(* The sizes: raising an item, estimating it, freezing it.                   *)

SizesTyped == set \in [0 .. n -> BOOLEAN] /\ size \in [Items -> Nat]
              /\ src_flexible \in Nat /\ dst_flexible \in Nat

\* An item raised to its minimum takes that and its source size out of the totals.
LEMMA RaiseBalanced ==
  ASSUME Given, SizesTyped, NEW k \in Items, ~set[k], NEW Z,
         Balanced(Z, set, size, src_flexible, dst_flexible)
  PROVE  /\ item[k].src <= src_flexible /\ MinSize(item[k]) <= dst_flexible
         /\ Balanced(Z, [set EXCEPT ![k] = TRUE], [size EXCEPT ![k] = MinSize(item[k])],
                     src_flexible - item[k].src, dst_flexible - MinSize(item[k]))
<1> DEFINE U == Unset(set)
           V == U \ {k}
           st == [set EXCEPT ![k] = TRUE]
           sz == [size EXCEPT ![k] = MinSize(item[k])]
<1>0. /\ n \in Nat /\ Items = 0 .. n - 1 /\ Items \subseteq 0 .. n
      /\ least \in [0 .. n - 1 -> Nat] /\ sources \in [0 .. n - 1 -> Nat]
      /\ least[k] = MinSize(item[k]) /\ least[k] \in Nat /\ sources[k] = item[k].src
      /\ sources[k] \in Nat /\ Space \in Nat
  BY Givens
<1>1. k \in U /\ U \subseteq Items /\ k \notin Z /\ Z \subseteq Items
  BY DEF Unset, Balanced
<1>2. Unset(st) = V
  BY <1>0 DEF Unset, SizesTyped
<1>3. sz \in [0 .. n - 1 -> Nat] /\ size \in [0 .. n - 1 -> Nat] /\ sz[k] = least[k]
      /\ \A j \in Items : j # k => sz[j] = size[j]
  BY <1>0 DEF SizesTyped
<1>4. \A z \in Z : st[z]
  BY <1>0, <1>1 DEF Balanced, SizesTyped
<1> HIDE DEF U, st, sz
<1>5. /\ src_flexible = Over(Z \cup U, sources, n)
      /\ Space = dst_flexible + Over(Items \ (Z \cup U), size, n)
      /\ Over(Z, size, n) + Over(U, least, n) <= dst_flexible
  BY DEF Balanced, U
<1>6. Over(Z \cup U, sources, n) = Over(Z \cup V, sources, n) + sources[k]
  <2> DEFINE A == Z \cup U
  <2>1. A \ {k} = Z \cup V /\ k \in A
    BY <1>1
  <2> HIDE DEF A
  <2>2. k \in 0 .. n - 1 /\ n \in Nat /\ sources \in [0 .. n - 1 -> Nat] /\ k \in A
    BY <1>0, <2>1
  <2>3. Over(A, sources, n) = Over(A \ {k}, sources, n) + sources[k]
    BY <2>2, OverRemove
  <2> QED
    BY <2>1, <2>3 DEF A
<1>7. Over(U, least, n) = Over(V, least, n) + least[k]
  <2>1. k \in 0 .. n - 1 /\ n \in Nat /\ least \in [0 .. n - 1 -> Nat] /\ k \in U
    BY <1>0, <1>1
  <2>2. Over(U, least, n) = Over(U \ {k}, least, n) + least[k]
    BY ONLY <2>1, OverRemove
  <2> QED
    BY <2>2
<1>8. Over(Items \ (Z \cup V), sz, n) = Over(Items \ (Z \cup U), size, n) + least[k]
  <2> DEFINE S == Items \ (Z \cup U)
  <2>1. Items \ (Z \cup V) = S \cup {k} /\ k \notin S
    BY <1>1
  <2>2. Over(S, sz, n) = Over(S, size, n)
    <3>1. \A j \in 0 .. n - 1 : j \in S => sz[j] = size[j]
      BY <1>0, <1>3, <2>1
    <3> QED
      BY <3>1, OverSame
  <2> HIDE DEF S
  <2>3. Over(S \cup {k}, sz, n) = Over(S, sz, n) + sz[k]
    <3>1. k \in 0 .. n - 1 /\ k \notin S /\ n \in Nat /\ sz \in [0 .. n - 1 -> Nat]
      BY <1>0, <1>3, <2>1
    <3> QED
      BY <3>1, OverAdd
  <2> QED
    BY <1>3, <2>1, <2>2, <2>3 DEF S
<1>9. Over(Z, sz, n) = Over(Z, size, n)
  <2>1. \A j \in 0 .. n - 1 : j \in Z => sz[j] = size[j]
    BY <1>0, <1>1, <1>3
  <2> QED
    BY ONLY <2>1, OverSame
<1>10. /\ Over(Z, size, n) \in Nat /\ Over(V, least, n) \in Nat
       /\ Over(Z \cup V, sources, n) \in Nat /\ Over(Items \ (Z \cup U), size, n) \in Nat
  BY <1>0, <1>3, OverType
<1>11. sources[k] <= src_flexible /\ least[k] <= dst_flexible
  <2>0. src_flexible \in Nat /\ dst_flexible \in Nat /\ sources[k] \in Nat /\ least[k] \in Nat
    BY <1>0 DEF SizesTyped
  <2>1. sources[k] <= src_flexible
    BY ONLY <1>5, <1>6, <1>10, <2>0
  <2>2. least[k] <= dst_flexible
    BY ONLY <1>5, <1>7, <1>10, <2>0
  <2> QED
    BY <2>1, <2>2
<1>12. /\ src_flexible - sources[k] = Over(Z \cup V, sources, n)
       /\ Space = (dst_flexible - least[k]) + Over(Items \ (Z \cup V), sz, n)
       /\ Over(Z, sz, n) + Over(V, least, n) <= dst_flexible - least[k]
  <2>1. src_flexible \in Nat /\ dst_flexible \in Nat /\ sources[k] \in Nat /\ least[k] \in Nat
    BY <1>0 DEF SizesTyped
  <2>2. src_flexible - sources[k] = Over(Z \cup V, sources, n)
    BY <1>5, <1>6, <1>10, <2>1
  <2>3. Space = (dst_flexible - least[k]) + Over(Items \ (Z \cup V), sz, n)
    BY <1>5, <1>8, <1>10, <2>1
  <2>4. Over(Z, sz, n) + Over(V, least, n) <= dst_flexible - least[k]
    BY <1>5, <1>7, <1>9, <1>10, <2>1
  <2> QED
    BY <2>2, <2>3, <2>4
<1>13. Balanced(Z, st, sz, src_flexible - sources[k], dst_flexible - least[k])
  BY <1>1, <1>2, <1>4, <1>12 DEF Balanced
<1> QED
  BY <1>0, <1>11, <1>13 DEF st, sz

\* The items that were frozen, and the minimum of those still estimated, stay
\* within their share.
LEMMA RaisePriced ==
  ASSUME Given, SizesTyped, NEW k \in Items, ~set[k], NEW Z,
         Balanced(Z, set, size, src_flexible, dst_flexible),
         Priced(Z, set, size, src_flexible, dst_flexible)
  PROVE  Priced(Z, [set EXCEPT ![k] = TRUE], [size EXCEPT ![k] = MinSize(item[k])],
                src_flexible - item[k].src, dst_flexible - MinSize(item[k]))
<1> DEFINE st == [set EXCEPT ![k] = TRUE]
           sz == [size EXCEPT ![k] = MinSize(item[k])]
           s == item[k].src
           m == MinSize(item[k])
           sf == src_flexible
           D == dst_flexible + 1
<1>1. CASE Z = {}
  BY <1>1 DEF Priced
<1>2. CASE Z # {}
  <2>0. /\ Items \subseteq 0 .. n
        /\ \A j \in Items : item[j].src \in Nat /\ least[j] \in Nat
        /\ least[k] = m /\ m \in Nat /\ s \in Nat
    BY Givens
  <2>1. s <= sf /\ m <= dst_flexible
    BY RaiseBalanced
  <2>2. k \in Unset(set) /\ Unset(set) \subseteq Items /\ Unset(st) \subseteq Unset(set)
    BY <2>0 DEF Unset, SizesTyped
  <2>3. Z \subseteq Items /\ k \notin Z /\ \A z \in Z : sz[z] = size[z] /\ size[z] \in Nat
    BY DEF Balanced, SizesTyped
  <2> HIDE DEF st, sz, s, m
  <2>4. sf * m <= s * D
    BY <1>2, <2>0, <2>2 DEF Priced, Under, s
  <2>5. sf \in Nat /\ D \in Nat /\ m < D /\ (dst_flexible - m) + 1 = D - m
    BY <2>0, <2>1 DEF SizesTyped
  <2> HIDE DEF D, sf
  <2>6. ASSUME NEW t \in Nat, NEW v \in Nat,
               sf * v <= t * D, t # 0 => sf * v < t * D
        PROVE  Under(t, v, sf - s, dst_flexible - m)
    <3>1. (sf - s) * v <= t * (D - m) /\ (t # 0 => (sf - s) * v < t * (D - m))
      BY <2>0, <2>1, <2>4, <2>5, <2>6, RaiseShare
    <3> QED
      BY <2>5, <3>1 DEF Under
  <2>7. ASSUME NEW z \in Z
        PROVE  Under(item[z].src, sz[z], sf - s, dst_flexible - m)
    <3>1. sf * size[z] <= item[z].src * D /\ (item[z].src # 0 => sf * size[z] < item[z].src * D)
      BY DEF Priced, Under, sf, D
    <3> QED
      BY <2>0, <2>3, <2>6, <3>1
  <2>8. ASSUME NEW j \in Unset(st)
        PROVE  Under(item[j].src, least[j], sf - s, dst_flexible - m)
    <3>1. sf * least[j] <= item[j].src * D /\ (item[j].src # 0 => sf * least[j] < item[j].src * D)
      BY <1>2, <2>2 DEF Priced, Under, sf, D
    <3> QED
      BY <2>0, <2>2, <2>6, <3>1
  <2> QED
    BY <2>7, <2>8 DEF Priced, st, sz, s, m, sf
<1> QED
  BY <1>1, <1>2

\* An estimate is in no sum.
LEMMA EstimateKeeps ==
  ASSUME Given, SizesTyped, NEW k \in Items, ~set[k], NEW Z, NEW e \in Nat,
         Balanced(Z, set, size, src_flexible, dst_flexible)
  PROVE  /\ item[k].src <= src_flexible
         /\ Balanced(Z, set, [size EXCEPT ![k] = e], src_flexible, dst_flexible)
         /\ Priced(Z, set, size, src_flexible, dst_flexible)
              => Priced(Z, set, [size EXCEPT ![k] = e], src_flexible, dst_flexible)
<1> DEFINE U == Unset(set)
           sz == [size EXCEPT ![k] = e]
           A == Items \ (Z \cup U)
           B == Z \cup U
<1>1. k \in U /\ k \notin Z /\ k \notin A /\ k \in B /\ Z \subseteq Items
  BY DEF Unset, Balanced
<1>2. \A j \in Items : j # k => sz[j] = size[j]
  BY DEF SizesTyped
<1> HIDE DEF sz
<1>3. \A j \in 0 .. n - 1 : j \in A => sz[j] = size[j]
  BY <1>1, <1>2 DEF Items
<1>4. \A j \in 0 .. n - 1 : j \in Z => sz[j] = size[j]
  BY <1>1, <1>2 DEF Items
<1> HIDE DEF A
<1>5. Over(A, sz, n) = Over(A, size, n) /\ Over(Z, sz, n) = Over(Z, size, n)
  BY <1>3, <1>4, OverSame
<1>6. Balanced(Z, set, sz, src_flexible, dst_flexible)
  BY <1>5 DEF Balanced, A
<1>7. Priced(Z, set, size, src_flexible, dst_flexible)
        => Priced(Z, set, sz, src_flexible, dst_flexible)
  BY <1>1, <1>2 DEF Priced
<1>8. sources[k] <= src_flexible
  <2>1. src_flexible = Over(B, sources, n)
    BY DEF Balanced
  <2> HIDE DEF B
  <2>2. n \in Nat /\ k \in 0 .. n - 1 /\ sources \in [0 .. n - 1 -> Nat] /\ sources[k] \in Nat
    BY Givens
  <2>3. Over(B, sources, n) = Over(B \ {k}, sources, n) + sources[k]
    BY <1>1, <2>2, OverRemove
  <2>4. Over(B \ {k}, sources, n) \in Nat
    BY <2>2, OverType
  <2> QED
    BY <2>1, <2>2, <2>3, <2>4
<1> QED
  BY <1>6, <1>7, <1>8, Givens DEF sz

\* The sizes given out so far fit together.
LEMMA SetFits ==
  ASSUME Given, NEW Z, NEW st, NEW sz \in [Items -> Nat], NEW sf, NEW df \in Nat,
         Balanced(Z, st, sz, sf, df)
  PROVE  /\ df <= Space
         /\ Over(Chosen(st), sz, n) <= Space
         /\ Over(Chosen(st), sz, n) = Over(Items \ (Z \cup Unset(st)), sz, n) + Over(Z, sz, n)
<1> DEFINE S == Chosen(st)
           A == Items \ (Z \cup Unset(st))
<1>1. S = A \cup Z /\ A \cap Z = {}
  BY DEF Unset, Balanced, Chosen
<1>2. /\ Space = df + Over(A, sz, n)
      /\ Over(Z, sz, n) + Over(Unset(st), least, n) <= df
  BY DEF Balanced
<1> HIDE DEF S, A
<1>3. n \in Nat /\ sz \in [0 .. n - 1 -> Nat] /\ least \in [0 .. n - 1 -> Nat]
  BY Givens
<1>4. Over(S, sz, n) = Over(A, sz, n) + Over(Z, sz, n)
  BY ONLY <1>1, <1>3, OverUnion
<1>5. Over(A, sz, n) \in Nat /\ Over(Z, sz, n) \in Nat /\ Over(Unset(st), least, n) \in Nat
  BY <1>3, OverType
<1>6. df <= Space /\ Over(S, sz, n) <= Space
  BY <1>2, <1>4, <1>5
<1> QED
  BY <1>4, <1>6 DEF S, A

\* A sweep that settles nothing freezes an item at its estimate, and what is
\* left still holds the frozen items and the minimum of the others.
LEMMA FreezeKeeps ==
  ASSUME Given, SizesTyped, NEW u \in Items, ~set[u], NEW Z,
         Balanced(Z, set, size, src_flexible, dst_flexible),
         Priced(Z, set, size, src_flexible, dst_flexible),
         Estimated(set, size, src_flexible, dst_flexible, n)
  PROVE  /\ Balanced(Z \cup {u}, [set EXCEPT ![u] = TRUE], size, src_flexible, dst_flexible)
         /\ Priced(Z \cup {u}, [set EXCEPT ![u] = TRUE], size, src_flexible, dst_flexible)
<1> DEFINE U == Unset(set)
           V == U \ {u}
           Y == Z \cup {u}
           A == Z \cup U
           st == [set EXCEPT ![u] = TRUE]
           sf == src_flexible
           df == dst_flexible
<1>0. /\ n \in Nat
      /\ Items = 0 .. n - 1 /\ Items \subseteq 0 .. n
      /\ \A j \in Items : item[j].src \in Nat /\ sources[j] = item[j].src /\ least[j] \in Nat
      /\ least \in [0 .. n - 1 -> Nat] /\ sources \in [0 .. n - 1 -> Nat]
  BY Givens
<1>1. u \in U /\ U \subseteq Items /\ u \notin Z /\ Z \subseteq Items /\ Z \cap U = {}
  BY DEF Unset, Balanced
<1>2. /\ Unset(st) = V
      /\ \A y \in Y : st[y]
  BY <1>0, <1>1 DEF Unset, SizesTyped, Balanced
<1> HIDE DEF st
<1>3. /\ sf \in Nat /\ df \in Nat /\ size \in [0 .. n - 1 -> Nat]
      /\ \A j \in Items : size[j] \in Nat
  BY <1>0 DEF SizesTyped
<1>4. ASSUME NEW j \in U
      PROVE  sf > 0 /\ size[j] >= least[j] /\ Under(item[j].src, size[j], sf, df)
  BY <1>0, <1>1 DEF Estimated, Unset
<1>5. /\ sf = Over(A, sources, n)
      /\ Space = df + Over(Items \ A, size, n)
      /\ Over(Z, size, n) + Over(U, least, n) <= df
  BY DEF Balanced
<1>6. sf > 0
  BY <1>1, <1>4
<1> HIDE DEF U, sf, df
<1>7. ASSUME NEW j \in U
      PROVE  Under(item[j].src, size[j], sf, df) /\ Under(item[j].src, least[j], sf, df)
  <2>1. item[j].src \in Nat /\ size[j] \in Nat /\ least[j] \in Nat
    BY <1>0, <1>1, <1>3
  <2>2. Under(item[j].src, size[j], sf, df) /\ least[j] <= size[j]
    BY <1>4, <2>1
  <2>3. sf * least[j] <= sf * size[j]
    BY <1>3, <2>1, <2>2, Monotone
  <2>4. sf * least[j] \in Nat /\ sf * size[j] \in Nat /\ item[j].src * (df + 1) \in Nat
    <3>1. df + 1 \in Nat
      BY <1>3
    <3> QED
      BY ONLY <1>3, <2>1, <3>1, Products
  <2> QED
    BY <2>2, <2>3, <2>4 DEF Under
<1>8. \A z \in Z : Under(item[z].src, size[z], sf, df)
  BY DEF Priced, sf, df
<1>9. Priced(Y, st, size, sf, df)
  BY <1>1, <1>2, <1>7, <1>8 DEF Priced
<1> DEFINE w == [j \in 0 .. n - 1 |-> IF j \in Y THEN size[j] ELSE least[j]]
<1>10. w \in [0 .. n - 1 -> Nat]
  BY <1>0, <1>3
<1>11. \A j \in 0 .. n - 1 : w[j] = IF j \in Y THEN size[j] ELSE least[j]
  OBVIOUS
<1> HIDE DEF w
<1>12. Over(A, w, n) = Over(Y, size, n) + Over(V, least, n)
  <2>1. A = Y \cup V /\ Y \cap V = {}
    BY <1>1
  <2>2. \A j \in 0 .. n - 1 : (j \in Y => w[j] = size[j]) /\ (j \in V => w[j] = least[j])
    BY <1>11, <2>1
  <2> HIDE DEF A, Y, V
  <2>3. Over(A, w, n) = Over(Y, w, n) + Over(V, w, n)
    BY <1>0, <1>10, <2>1, OverUnion
  <2>4. Over(Y, w, n) = Over(Y, size, n) /\ Over(V, w, n) = Over(V, least, n)
    BY <2>2, OverSame
  <2> QED
    BY <2>3, <2>4
<1>13. ASSUME NEW j \in 0 .. n - 1, j \in A
       PROVE  Under(sources[j], w[j], sf, df)
  <2>1. CASE j \in Y
    BY <1>0, <1>1, <1>7, <1>8, <1>11, <2>1
  <2>2. CASE j \notin Y
    BY <1>0, <1>7, <1>11, <1>13, <2>2
  <2> QED
    BY <2>1, <2>2
<1>14. /\ Over(Z, size, n) \in Nat /\ Over(Y, size, n) \in Nat /\ Over(V, least, n) \in Nat
       /\ Over(U, least, n) \in Nat /\ Over(A, w, n) \in Nat
  BY <1>0, <1>3, <1>10, OverType
<1>15. ASSUME NEW j \in 0 .. n - 1, j \in A, sf * w[j] < sources[j] * (df + 1)
       PROVE  Over(A, w, n) <= df
  <2> HIDE DEF A
  <2>1. \A k \in 0 .. n - 1 : k \in A => sf * w[k] <= sources[k] * (df + 1)
    BY <1>13 DEF Under
  <2>2. df + 1 \in Nat
    BY <1>3
  <2>3. sf * Over(A, w, n) < Over(A, sources, n) * (df + 1)
    BY <1>0, <1>3, <1>10, <1>15, <2>1, <2>2, OverWeighed
  <2>4. sf * Over(A, w, n) < sf * (df + 1)
    BY <1>5, <2>3 DEF A
  <2>5. Over(A, w, n) < df + 1
    BY <1>3, <1>6, <1>14, <2>2, <2>4, Monotone
  <2> QED
    BY <1>3, <1>14, <2>5
<1>16. Over(A, w, n) <= df
  <2>0. /\ u \in 0 .. n - 1 /\ u \in A /\ w[u] = size[u] /\ sources[u] = item[u].src
        /\ size[u] \in Nat /\ least[u] \in Nat /\ item[u].src \in Nat
    BY <1>0, <1>1, <1>3, <1>11
  <2>1. CASE size[u] = least[u]
    <3> HIDE DEF A
    <3>1. Over(U, least, n) = Over(V, least, n) + least[u]
      <4>1. n \in Nat /\ least \in [0 .. n - 1 -> Nat] /\ u \in 0 .. n - 1 /\ u \in U
        BY <1>0, <1>1, <2>0
      <4>2. Over(U, least, n) = Over(U \ {u}, least, n) + least[u]
        BY ONLY <4>1, OverRemove
      <4> QED
        BY <4>2
    <3>2. Over(Y, size, n) = Over(Z, size, n) + size[u]
      <4>1. n \in Nat /\ u \in 0 .. n - 1 /\ u \notin Z /\ size \in [0 .. n - 1 -> Nat]
        BY <1>0, <1>1, <1>3, <2>0
      <4> QED
        BY <4>1, OverAdd
    <3> QED
      BY <1>3, <1>5, <1>12, <1>14, <2>0, <2>1, <3>1, <3>2
  <2>2. CASE item[u].src # 0
    <3>1. sf * w[u] < sources[u] * (df + 1)
      BY <1>1, <1>7, <2>0, <2>2 DEF Under
    <3> QED
      BY <1>15, <2>0, <3>1
  <2>3. CASE item[u].src = 0
    <3>1. sf * size[u] <= 0 * (df + 1)
      BY <1>1, <1>7, <2>3 DEF Under
    <3>2. 0 * (df + 1) = 0
      BY <1>3
    <3>3. size[u] = 0
      <4> SUFFICES ASSUME size[u] >= 1
                   PROVE  FALSE
        BY <2>0
      <4>1. sf * 1 <= sf * size[u]
        BY <1>3, <2>0, Monotone
      <4>2. sf * size[u] \in Nat
        BY <1>3, <2>0, Products
      <4> QED
        BY <1>3, <1>6, <3>1, <3>2, <4>1, <4>2
    <3>4. least[u] <= size[u]
      BY <1>1, <1>4, <2>0
    <3> QED
      BY <2>0, <2>1, <3>3, <3>4
  <2> QED
    BY <2>2, <2>3
<1>17. Balanced(Y, st, size, sf, df)
  <2>1. Y \cup V = A
    BY <1>1
  <2>2. Y \subseteq Items
    BY <1>1
  <2> HIDE DEF Y, V, A
  <2> QED
    BY <1>2, <1>5, <1>12, <1>16, <2>1, <2>2 DEF Balanced
<1> QED
  BY <1>9, <1>17 DEF st, sf, df

-----------------------------------------------------------------------------
(* The places: what is known from the two ends.                              *)

\* A sum over nothing.
LEMMA OverEmpty ==
  ASSUME NEW m \in Nat, NEW f \in [0 .. m - 1 -> Nat]
  PROVE  Over({}, f, m) = 0
<1>1. Over({} \cup {}, f, m) = Over({}, f, m) + Over({}, f, m)
  BY OverUnion
<1>2. {} \cup {} = {}
  OBVIOUS
<1> QED
  BY <1>1, <1>2, OverType

\* An item that is not settled lies between the ends, and is still counted.
LEMMA NotDone ==
  ASSUME Given, NEW a \in 0 .. n, NEW b \in 0 .. n, a < b,
         Shape(a, b, set, size, offset, remain_to_set),
         NEW k \in Items, ~Settled(k)
  PROVE  k \notin Done(a, b) /\ a <= k /\ k < b /\ remain_to_set = b - a /\ remain_to_set # 0
<1>1. n \in Nat /\ Items = 0 .. n - 1 /\ k \in 0 .. n /\ k + 1 \in 0 .. n /\ a \in Nat /\ b \in Nat
  BY Givens
<1>2. ~(k < a \/ k >= b)
  <2> SUFFICES ASSUME k < a \/ k >= b
               PROVE  FALSE
    OBVIOUS
  <2>1. (k <= a \/ k >= b) /\ (k + 1 <= a \/ k + 1 >= b)
    BY <1>1
  <2>2. offset[k] # 0 /\ offset[k + 1] # 0
    BY <1>1, <2>1 DEF Shape
  <2>3. set[k]
    BY DEF Shape, Done
  <2> QED
    BY <2>2, <2>3 DEF Settled
<1>3. remain_to_set = b - a
  <2> SUFFICES ASSUME remain_to_set # b - a
               PROVE  FALSE
    OBVIOUS
  <2>1. b = a + 1 /\ Unset(set) = {}
    BY DEF Shape
  <2>2. set[k]
    BY <2>1 DEF Unset
  <2>3. (k <= a \/ k >= b) /\ (k + 1 <= a \/ k + 1 >= b)
    BY <1>1, <2>1
  <2>4. offset[k] # 0 /\ offset[k + 1] # 0
    BY <1>1, <2>3 DEF Shape
  <2> QED
    BY <2>2, <2>4 DEF Settled
<1> QED
  BY <1>1, <1>2, <1>3 DEF Done

\* The places do not depend on the items in between.
LEMMA ShapeBetween ==
  ASSUME Given, set \in [0 .. n -> BOOLEAN], size \in [Items -> Nat],
         NEW a \in 0 .. n, NEW b \in 0 .. n, a < b, NEW off, NEW r,
         Shape(a, b, set, size, off, b - a),
         NEW k \in Items, k \notin Done(a, b), NEW fr, NEW z,
         r = b - a \/ (r = 0 /\ b = a + 1 /\ k = a /\ fr = TRUE /\ off[b] = off[a] + z)
  PROVE  Shape(a, b, [set EXCEPT ![k] = fr], [size EXCEPT ![k] = z], off, r)
<1> DEFINE D == Done(a, b)
           st == [set EXCEPT ![k] = fr]
           sz == [size EXCEPT ![k] = z]
<1>1. n \in Nat /\ Items = 0 .. n - 1 /\ Items \subseteq 0 .. n /\ a \in Nat /\ b \in Nat
  BY Givens
<1>2. \A j \in D : st[j] = set[j] /\ sz[j] = size[j]
  BY <1>1 DEF Done
<1>3. k = a => st[a] = fr /\ sz[a] = z
  BY <1>1
<1>4. r # b - a => Unset(st) = {}
  <2> SUFFICES ASSUME r # b - a, NEW j \in Items
               PROVE  st[j]
    BY DEF Unset
  <2>1. j # a => j \in D
    BY <1>1 DEF Done
  <2>2. \A i \in D : set[i]
    BY DEF Shape
  <2> QED
    BY <1>2, <1>3, <2>1, <2>2
<1> HIDE DEF st, sz
<1>5. Over(D, sz, n) = Over(D, size, n)
  <2>1. \A j \in 0 .. n - 1 : j \in D => sz[j] = size[j]
    BY <1>2
  <2> HIDE DEF D
  <2> QED
    BY <2>1, OverSame
<1>6. /\ \A j \in 0 .. n : off[j] # 0 <=> (j <= a \/ j >= b)
      /\ off[0] = DstOffset /\ off[n] = limit
      /\ \A i, j \in 0 .. n : i < j /\ off[i] # 0 /\ off[j] # 0 => off[i] <= off[j]
  BY DEF Shape
<1>7. \A j \in D : st[j] /\ off[j + 1] = off[j] + sz[j]
  BY <1>2 DEF Shape
<1>8. off[b] - off[a] = Space - Over(D, sz, n)
  BY <1>5 DEF Shape
<1>9. r = b - a \/ (r = 0 /\ b = a + 1 /\ st[a] /\ off[b] = off[a] + sz[a] /\ Unset(st) = {})
  BY <1>3, <1>4
<1> HIDE DEF D
<1>10. Shape(a, b, st, sz, off, r)
  BY <1>6, <1>7, <1>8, <1>9 DEF Shape, D
<1> QED
  BY <1>10 DEF st, sz

\* The room between the ends holds an item that has its size.
LEMMA RoomBetween ==
  ASSUME Given, NEW a \in 0 .. n, NEW b \in 0 .. n, a < b, NEW st, NEW sz \in [Items -> Nat],
         NEW off \in [0 .. n -> Nat], NEW r, Shape(a, b, st, sz, off, r),
         Over(Chosen(st), sz, n) <= Space,
         NEW k \in Items, k \notin Done(a, b), st[k]
  PROVE  /\ Over(Done(a, b) \cup {k}, sz, n) = Over(Done(a, b), sz, n) + sz[k]
         /\ off[a] + sz[k] <= off[b]
<1> DEFINE D == Done(a, b)
           S == Chosen(st)
<1>1. n \in Nat /\ Items = 0 .. n - 1 /\ sz \in [0 .. n - 1 -> Nat] /\ k \in 0 .. n - 1 /\ Space \in Nat
  BY Givens
<1>2. D \cup {k} \subseteq S
  BY DEF Shape, Done, Chosen
<1>3. k \notin D
  OBVIOUS
<1>4. off[b] - off[a] = Space - Over(D, sz, n)
  BY DEF Shape
<1>5. Over(S, sz, n) <= Space
  OBVIOUS
<1> HIDE DEF D, S
<1>6. Over(D \cup {k}, sz, n) = Over(D, sz, n) + sz[k]
  <2> DEFINE T == D \cup {k}
  <2>1. T \ {k} = D
    BY <1>3
  <2>2. n \in Nat /\ sz \in [0 .. n - 1 -> Nat] /\ k \in 0 .. n - 1 /\ k \in T
    BY <1>1
  <2> HIDE DEF T
  <2>3. Over(T, sz, n) = Over(T \ {k}, sz, n) + sz[k]
    BY ONLY <2>2, OverRemove
  <2> QED
    BY <2>1, <2>3 DEF T
<1>7. Over(D \cup {k}, sz, n) <= Over(S, sz, n)
  BY ONLY <1>1, <1>2, OverWithin
<1>8. /\ Over(D, sz, n) \in Nat /\ Over(S, sz, n) \in Nat
      /\ sz[k] \in Nat /\ off[a] \in Nat /\ off[b] \in Nat
  BY <1>1, OverType
<1>9. off[a] + sz[k] <= off[b]
  <2>1. Space \in Nat
    BY <1>1
  <2> QED
    BY ONLY <1>4, <1>5, <1>6, <1>7, <1>8, <2>1
<1> QED
  BY <1>6, <1>9 DEF D

\* The item after the front end is placed from there, ...
LEMMA PlaceFront ==
  ASSUME Given, NEW a \in 0 .. n, NEW b \in 0 .. n, a + 1 < b, NEW st, NEW sz \in [Items -> Nat],
         NEW off \in [0 .. n -> Nat], Shape(a, b, st, sz, off, b - a),
         Over(Chosen(st), sz, n) <= Space, st[a]
  PROVE  /\ off[a] + sz[a] <= limit
         /\ Shape(a + 1, b, st, sz, [off EXCEPT ![a + 1] = off[a] + sz[a]], b - a - 1)
<1> DEFINE v == off[a] + sz[a]
           new == [off EXCEPT ![a + 1] = v]
           D == Done(a, b)
<1>1. /\ n \in Nat /\ Items = 0 .. n - 1 /\ a \in Nat /\ b \in Nat /\ b <= n
      /\ a \in Items /\ a + 1 \in 0 .. n /\ a + 1 # b /\ a + 1 # a
      /\ 0 \in 0 .. n /\ n \in 0 .. n /\ n # a + 1 /\ 0 # a + 1 /\ DstOffset \in Nat /\ DstOffset > 0
  BY Givens
<1>known. \A j \in 0 .. n : off[j] # 0 <=> (j <= a \/ j >= b)
  BY DEF Shape
<1>ends. off[0] = DstOffset /\ off[n] = limit
  BY DEF Shape
<1>tiled. \A j \in D : st[j] /\ off[j + 1] = off[j] + sz[j]
  BY DEF Shape
<1>sorted. \A i, j \in 0 .. n : i < j /\ off[i] # 0 /\ off[j] # 0 => off[i] <= off[j]
  BY DEF Shape
<1>room. off[b] - off[a] = Space - Over(D, sz, n)
  BY DEF Shape
<1>3. a \notin D
  BY <1>1 DEF Done
<1>4. /\ Over(D \cup {a}, sz, n) = Over(D, sz, n) + sz[a]
      /\ off[a] + sz[a] <= off[b]
  <2>1. a < b /\ a \in Items /\ a \notin Done(a, b)
    BY <1>1, <1>3
  <2>2. PICK r : Shape(a, b, st, sz, off, r)
    OBVIOUS
  <2> QED
    BY <2>1, <2>2, RoomBetween
<1>5. Done(a + 1, b) = D \cup {a}
  <2>1. \A j \in Items : j < a + 1 <=> j < a \/ j = a
    BY <1>1
  <2>2. a \in Items
    BY <1>1
  <2> QED
    BY ONLY <2>1, <2>2 DEF Done
<1>6. \A j \in 0 .. n : off[j] \in Nat
  OBVIOUS
<1>7. sz[a] \in Nat /\ off[a] \in Nat /\ off[b] \in Nat /\ off[a] # 0 /\ off[b] # 0 /\ v \in Nat /\ v # 0
  BY <1>1, <1>known, <1>6
<1>8. \A j \in 0 .. n : new[j] = IF j = a + 1 THEN v ELSE off[j]
  OBVIOUS
<1> HIDE DEF new, v
<1>9. \A j \in 0 .. n : new[j] # 0 <=> (j <= a + 1 \/ j >= b)
  <2> SUFFICES ASSUME NEW j \in 0 .. n
               PROVE  new[j] # 0 <=> (j <= a + 1 \/ j >= b)
    OBVIOUS
  <2>1. CASE j = a + 1
    BY <1>7, <1>8, <2>1
  <2>2. CASE j # a + 1
    <3>1. new[j] # 0 <=> (j <= a \/ j >= b)
      BY <1>8, <1>known, <2>2
    <3>2. j <= a + 1 <=> j <= a
      BY <1>1, <2>2
    <3> QED
      BY ONLY <3>1, <3>2
  <2> QED
    BY <2>1, <2>2
<1>10. new[0] = DstOffset /\ new[n] = limit
  BY <1>1, <1>ends, <1>8
<1>11. \A j \in Done(a + 1, b) : st[j] /\ new[j + 1] = new[j] + sz[j]
  <2> SUFFICES ASSUME NEW j \in Done(a + 1, b)
               PROVE  st[j] /\ new[j + 1] = new[j] + sz[j]
    OBVIOUS
  <2>1. CASE j = a
    BY <1>1, <1>8, <2>1 DEF v
  <2>2. CASE j # a
    <3>1. j \in D /\ j \in 0 .. n /\ j + 1 \in 0 .. n /\ j # a + 1 /\ j + 1 # a + 1
      BY <1>1, <1>5, <2>2 DEF Done
    <3> QED
      BY <1>tiled, <1>8, <3>1
  <2> QED
    BY <2>1, <2>2
<1>12. \A i, j \in 0 .. n : i < j /\ new[i] # 0 /\ new[j] # 0 => new[i] <= new[j]
  <2> SUFFICES ASSUME NEW i \in 0 .. n, NEW j \in 0 .. n, i < j, new[i] # 0, new[j] # 0
               PROVE  new[i] <= new[j]
    OBVIOUS
  <2>1. CASE i = a + 1
    <3>1. j # a + 1 /\ j >= b
      BY <1>1, <1>9, <2>1
    <3>2. new[i] = v /\ new[j] = off[j] /\ off[j] # 0
      BY <1>8, <2>1, <3>1
    <3>3. off[b] <= off[j]
      BY <1>1, <1>sorted, <1>6, <1>7, <3>1, <3>2
    <3>4. v <= off[b]
      BY <1>4 DEF v
    <3> QED
      BY <1>6, <1>7, <3>2, <3>3, <3>4
  <2>2. CASE j = a + 1
    <3>1. i # a + 1 /\ i <= a
      BY <1>1, <2>2
    <3>2. new[j] = v /\ new[i] = off[i] /\ off[i] # 0
      BY <1>8, <2>2, <3>1
    <3>3. off[i] <= off[a]
      BY <1>1, <1>sorted, <1>6, <1>7, <3>1, <3>2
    <3>4. off[a] <= v
      BY <1>7 DEF v
    <3> QED
      BY <1>6, <1>7, <3>2, <3>3, <3>4
  <2>3. CASE i # a + 1 /\ j # a + 1
    BY <1>sorted, <1>8, <2>3
  <2> QED
    BY <2>1, <2>2, <2>3
<1>13. new[b] - new[a + 1] = Space - Over(Done(a + 1, b), sz, n)
  <2>1. new[b] = off[b] /\ new[a + 1] = off[a] + sz[a]
    BY <1>1, <1>8 DEF v
  <2> DEFINE x == Over(D, sz, n)
             y == Over(Done(a + 1, b), sz, n)
  <2>2. x \in Nat /\ Space \in Nat
    BY <1>1, OverType, Givens
  <2>3. y = x + sz[a]
    BY <1>4, <1>5
  <2>4. off[b] - off[a] = Space - x
    BY <1>room
  <2> HIDE DEF x, y
  <2>5. off[b] - off[a] - sz[a] = Space - y
    BY <1>7, <2>2, <2>3, <2>4
  <2> QED
    BY <1>7, <2>1, <2>5 DEF y
<1>14. b - a - 1 = b - (a + 1)
  BY <1>1
<1>15. Shape(a + 1, b, st, sz, new, b - a - 1)
  <2> HIDE DEF D
  <2> QED
    BY <1>9, <1>10, <1>11, <1>12, <1>13, <1>14 DEF Shape
<1>16. off[b] <= limit
  <2>1. limit \in Nat /\ limit # 0
    BY Givens
  <2>2. CASE b = n
    BY <1>ends, <2>1, <2>2
  <2>3. CASE b # n
    <3>1. b < n
      BY <1>1, <2>3
    <3> QED
      BY <1>1, <1>ends, <1>sorted, <1>7, <2>1, <3>1
  <2> QED
    BY <2>2, <2>3
<1>17. off[a] + sz[a] <= limit
  <2>1. off[a] \in Nat /\ sz[a] \in Nat /\ off[b] \in Nat
    BY <1>1
  <2>2. limit \in Nat
    BY Givens
  <2> QED
    BY ONLY <1>4, <1>16, <2>1, <2>2
<1> QED
  BY <1>15, <1>17 DEF new, v

\* ... and the one before the back end from that.
LEMMA PlaceBack ==
  ASSUME Given, NEW a \in 0 .. n, NEW b \in 0 .. n, a < b - 1, NEW st, NEW sz \in [Items -> Nat],
         NEW off \in [0 .. n -> Nat], Shape(a, b, st, sz, off, b - a),
         Over(Chosen(st), sz, n) <= Space, st[b - 1]
  PROVE  /\ off[b] - sz[b - 1] \in Nat /\ off[b] - sz[b - 1] <= limit
         /\ Shape(a, b - 1, st, sz, [off EXCEPT ![b - 1] = off[b] - sz[b - 1]], b - a - 1)
<1> DEFINE e == b - 1
           v == off[b] - sz[e]
           new == [off EXCEPT ![e] = v]
           D == Done(a, b)
<1>0. n \in Nat /\ Items = 0 .. n - 1 /\ DstOffset \in Nat /\ DstOffset > 0
  BY Givens
<1>1. /\ n \in Nat /\ Items = 0 .. n - 1 /\ a \in Nat /\ b \in Nat /\ b <= n
      /\ e \in Items /\ e \in 0 .. n /\ e # b /\ a < e /\ e # n /\ e # 0 /\ e + 1 = b
      /\ 0 \in 0 .. n /\ n \in 0 .. n /\ DstOffset \in Nat /\ DstOffset > 0
  BY <1>0
<1>known. \A j \in 0 .. n : off[j] # 0 <=> (j <= a \/ j >= b)
  BY DEF Shape
<1>ends. off[0] = DstOffset /\ off[n] = limit
  BY DEF Shape
<1>tiled. \A j \in D : st[j] /\ off[j + 1] = off[j] + sz[j]
  BY DEF Shape
<1>sorted. \A i, j \in 0 .. n : i < j /\ off[i] # 0 /\ off[j] # 0 => off[i] <= off[j]
  BY DEF Shape
<1>room. off[b] - off[a] = Space - Over(D, sz, n)
  BY DEF Shape
<1>3. e \notin D
  BY <1>1 DEF Done
<1>5. Done(a, e) = D \cup {e}
  <2>1. \A j \in Items : j >= e <=> j >= b \/ j = e
    BY <1>1
  <2> HIDE DEF e
  <2> QED
    BY <1>1, <2>1 DEF Done
<1>st. st[e]
  OBVIOUS
<1> HIDE DEF e
<1>4. /\ Over(D \cup {e}, sz, n) = Over(D, sz, n) + sz[e]
      /\ off[a] + sz[e] <= off[b]
  <2>1. e \in Items /\ e \notin Done(a, b) /\ a < b
    BY <1>1, <1>3
  <2> QED
    BY <1>st, <2>1, RoomBetween
<1>6. \A j \in 0 .. n : off[j] \in Nat
  OBVIOUS
<1>7. /\ sz[e] \in Nat /\ off[a] \in Nat /\ off[b] \in Nat /\ off[a] # 0 /\ off[b] # 0
      /\ v \in Nat /\ off[a] <= v /\ v <= off[b] /\ v # 0
  <2>1. sz[e] \in Nat /\ off[a] \in Nat /\ off[b] \in Nat
    BY <1>1, <1>6
  <2>2. off[a] # 0 /\ off[b] # 0
    BY <1>1, <1>known
  <2>3. off[a] + sz[e] <= off[b]
    BY <1>4
  <2> QED
    BY <2>1, <2>2, <2>3
<1>8. \A j \in 0 .. n : new[j] = IF j = e THEN v ELSE off[j]
  OBVIOUS
<1> HIDE DEF new, v
<1>9. \A j \in 0 .. n : new[j] # 0 <=> (j <= a \/ j >= e)
  <2> SUFFICES ASSUME NEW j \in 0 .. n
               PROVE  new[j] # 0 <=> (j <= a \/ j >= e)
    OBVIOUS
  <2>1. CASE j = e
    BY <1>1, <1>7, <1>8, <2>1
  <2>2. CASE j # e
    <3>1. new[j] # 0 <=> (j <= a \/ j >= b)
      BY <1>8, <1>known, <2>2
    <3>2. j >= e <=> j >= b
      BY <1>1, <2>2
    <3> QED
      BY ONLY <3>1, <3>2
  <2> QED
    BY <2>1, <2>2
<1>10. new[0] = DstOffset /\ new[n] = limit
  BY <1>1, <1>ends, <1>8
<1>11. \A j \in Done(a, e) : st[j] /\ new[j + 1] = new[j] + sz[j]
  <2> SUFFICES ASSUME NEW j \in Done(a, e)
               PROVE  st[j] /\ new[j + 1] = new[j] + sz[j]
    OBVIOUS
  <2>1. CASE j = e
    <3>1. new[e] = v /\ new[e + 1] = off[b]
      BY <1>1, <1>8
    <3>2. v + sz[e] = off[b]
      BY <1>7 DEF v
    <3> QED
      BY <1>st, <2>1, <3>1, <3>2
  <2>2. CASE j # e
    <3>1. j \in D /\ j \in 0 .. n /\ j + 1 \in 0 .. n /\ j + 1 # e
      BY <1>1, <1>5, <2>2 DEF Done
    <3> QED
      BY <1>tiled, <1>8, <2>2, <3>1
  <2> QED
    BY <2>1, <2>2
<1>12. \A i, j \in 0 .. n : i < j /\ new[i] # 0 /\ new[j] # 0 => new[i] <= new[j]
  <2> SUFFICES ASSUME NEW i \in 0 .. n, NEW j \in 0 .. n, i < j, new[i] # 0, new[j] # 0
               PROVE  new[i] <= new[j]
    OBVIOUS
  <2>1. CASE i = e
    <3>1. j # e /\ j >= b
      BY <1>1, <2>1
    <3>2. new[i] = v /\ new[j] = off[j] /\ off[j] # 0
      BY <1>8, <2>1, <3>1
    <3>3. off[b] <= off[j]
      BY <1>1, <1>sorted, <1>6, <1>7, <3>1, <3>2
    <3> QED
      BY <1>6, <1>7, <3>2, <3>3
  <2>2. CASE j = e
    <3>1. i # e /\ i <= a
      BY <1>1, <1>9, <2>2
    <3>2. new[j] = v /\ new[i] = off[i] /\ off[i] # 0
      BY <1>8, <2>2, <3>1
    <3>3. off[i] <= off[a]
      BY <1>1, <1>sorted, <1>6, <1>7, <3>1, <3>2
    <3> QED
      BY <1>6, <1>7, <3>2, <3>3
  <2>3. CASE i # e /\ j # e
    BY <1>sorted, <1>8, <2>3
  <2> QED
    BY <2>1, <2>2, <2>3
<1>13. new[e] - new[a] = Space - Over(Done(a, e), sz, n)
  <2>1. new[a] = off[a] /\ new[e] = off[b] - sz[e]
    BY <1>1, <1>8 DEF v
  <2> DEFINE x == Over(D, sz, n)
             y == Over(Done(a, e), sz, n)
  <2>2. x \in Nat /\ Space \in Nat
    BY <1>1, OverType, Givens
  <2>3. y = x + sz[e]
    BY <1>4, <1>5
  <2>4. off[b] - off[a] = Space - x
    BY <1>room
  <2> HIDE DEF x, y
  <2>5. off[b] - off[a] - sz[e] = Space - y
    BY <1>7, <2>2, <2>3, <2>4
  <2> QED
    BY <1>7, <2>1, <2>5 DEF y
<1>14. b - a - 1 = e - a
  BY <1>1
<1>15. Shape(a, e, st, sz, new, b - a - 1)
  <2> HIDE DEF D
  <2> QED
    BY <1>9, <1>10, <1>11, <1>12, <1>13, <1>14 DEF Shape
<1>16. off[b] <= limit
  <2>1. limit \in Nat /\ limit # 0
    BY Givens
  <2>2. CASE b = n
    BY <1>ends, <2>1, <2>2
  <2>3. CASE b # n
    <3>1. b < n
      BY <1>1, <2>3
    <3> QED
      BY <1>1, <1>ends, <1>sorted, <1>7, <2>1, <3>1
  <2> QED
    BY <2>2, <2>3
<1>17. off[b] - sz[e] \in Nat /\ off[b] - sz[e] <= limit
  <2>1. sz[e] \in Nat /\ off[b] \in Nat /\ limit \in Nat
    BY <1>1, Givens
  <2>2. off[b] - sz[e] \in Nat
    BY <1>7 DEF v
  <2> QED
    BY <1>16, <2>1, <2>2
<1> QED
  BY <1>15, <1>17 DEF new, v, e

-----------------------------------------------------------------------------
(* The steps.                                                                *)

\* What the type invariant says, in the forms the proofs use.
LEMMA TypeFacts ==
  ASSUME TypeOK
  PROVE  /\ Given /\ SizesTyped
         /\ set \in [0 .. n -> BOOLEAN] /\ size \in [Items -> 0 .. U64 - 1]
         /\ offset \in [0 .. n -> 0 .. U64 - 1] /\ offset \in [0 .. n -> Nat]
         /\ size \in [Items -> Nat] /\ src_flexible \in 0 .. U64 - 1
         /\ dst_flexible \in 0 .. U64 - 1 /\ remain_to_set \in 0 .. U64 - 1
         /\ next_flexible \in 0 .. n /\ ii \in 0 .. n /\ changed \in BOOLEAN /\ round \in Nat
<1>1. Given /\ U64 \in Nat
  BY SizeAssumption DEF TypeOK, Given
<1>2. /\ set \in [0 .. n -> BOOLEAN] /\ size \in [Items -> 0 .. U64 - 1]
      /\ offset \in [0 .. n -> 0 .. U64 - 1]
      /\ src_flexible \in 0 .. U64 - 1
      /\ dst_flexible \in 0 .. U64 - 1 /\ remain_to_set \in 0 .. U64 - 1
      /\ next_flexible \in 0 .. n /\ ii \in 0 .. n /\ changed \in BOOLEAN /\ round \in Nat
  BY DEF TypeOK
<1>3. 0 .. U64 - 1 \subseteq Nat
  BY <1>1
<1>4. offset \in [0 .. n -> Nat] /\ size \in [Items -> Nat]
  BY <1>2, <1>3
<1>5. SizesTyped
  BY <1>2, <1>3, <1>4 DEF SizesTyped
<1> QED
  BY <1>1, <1>2, <1>4, <1>5

\* What holds of the new values holds in the next state.
LEMMA RunningNext ==
  ASSUME UNCHANGED input, NEW a \in 0 .. n, NEW b \in 0 .. n, a < b, NEW Z,
         Valid(set', size'), Shape(a, b, set', size', offset', remain_to_set'),
         ~changed' => Estimated(set', size', src_flexible', dst_flexible', ii'),
         Balanced(Z, set', size', src_flexible', dst_flexible'),
         remain_to_set' # 0 => Priced(Z, set', size', src_flexible', dst_flexible')
  PROVE  Running'
<1>1. n' = n /\ item' = item /\ limit' = limit
  BY DEF input
<1>2. Items' = Items /\ Space' = Space /\ least' = least /\ sources' = sources
  BY <1>1 DEF Items, Space, least, sources
<1>3. /\ Unset(set)' = Unset(set') /\ Done(a, b)' = Done(a, b)
  BY <1>2 DEF Unset, Done
<1>4. Valid(set, size)'
  BY <1>1, <1>2 DEF Valid
<1>5. Shape(a, b, set, size, offset, remain_to_set)'
  BY <1>1, <1>2, <1>3 DEF Shape
<1>6. (~changed => Estimated(set, size, src_flexible, dst_flexible, ii))'
  BY <1>1, <1>2 DEF Estimated
<1>7. Balanced(Z, set, size, src_flexible, dst_flexible)'
  BY <1>1, <1>2, <1>3 DEF Balanced
<1>8. (remain_to_set # 0 => Priced(Z, set, size, src_flexible, dst_flexible))'
  BY <1>1, <1>2, <1>3 DEF Priced
<1>9. a \in (0 .. n)' /\ b \in (0 .. n)'
  BY <1>1
<1> QED
  BY <1>4, <1>5, <1>6, <1>7, <1>8, <1>9 DEF Running

\* The last item that is not set takes what is left between the ends.
LEMMA GapBalanced ==
  ASSUME Given, SizesTyped, NEW k \in Items, Unset(set) = {k}, NEW Z,
         Balanced(Z, set, size, src_flexible, dst_flexible),
         NEW gap \in Nat, gap = Space - Over(Items \ {k}, size, n)
  PROVE  /\ gap <= dst_flexible /\ item[k].src <= src_flexible
         /\ Balanced(Z, [set EXCEPT ![k] = TRUE], [size EXCEPT ![k] = gap],
                     src_flexible - item[k].src, dst_flexible - gap)
<1> DEFINE A == Items \ (Z \cup {k})
           B == Items \ {k}
           Y == Z \cup {k}
           F == Items \ Z
           st == [set EXCEPT ![k] = TRUE]
           sz == [size EXCEPT ![k] = gap]
<1>0. /\ n \in Nat /\ Items = 0 .. n - 1 /\ Items \subseteq 0 .. n
      /\ least \in [0 .. n - 1 -> Nat] /\ sources \in [0 .. n - 1 -> Nat]
      /\ sources[k] = item[k].src /\ sources[k] \in Nat /\ Space \in Nat
  BY Givens
<1>1. k \notin Z /\ Z \subseteq Items
  BY DEF Unset, Balanced
<1>2. Unset(st) = {} /\ \A z \in Z : st[z]
  BY <1>0, <1>1 DEF Unset, SizesTyped, Balanced
<1>3. sz \in [0 .. n - 1 -> Nat] /\ size \in [0 .. n - 1 -> Nat] /\ sz[k] = gap
      /\ \A j \in Items : j # k => sz[j] = size[j]
  BY <1>0 DEF SizesTyped
<1>4. src_flexible \in Nat /\ dst_flexible \in Nat
  BY DEF SizesTyped
<1> HIDE DEF st, sz
<1>5. /\ src_flexible = Over(Y, sources, n)
      /\ Space = dst_flexible + Over(A, size, n)
      /\ Over(Z, size, n) + Over({k}, least, n) <= dst_flexible
  BY DEF Balanced
<1>6. Over(Y, sources, n) = Over(Z, sources, n) + sources[k]
  <2>1. Y \ {k} = Z
    BY <1>1
  <2>2. k \in 0 .. n - 1 /\ k \in Y /\ n \in Nat /\ sources \in [0 .. n - 1 -> Nat]
    BY <1>0
  <2> HIDE DEF Y
  <2>3. Over(Y, sources, n) = Over(Y \ {k}, sources, n) + sources[k]
    BY <2>2, OverRemove
  <2> QED
    BY <2>1, <2>3
<1>7. Over(B, size, n) = Over(A, size, n) + Over(Z, size, n)
  <2>1. A \cap Z = {} /\ n \in Nat /\ size \in [0 .. n - 1 -> Nat]
    BY <1>0, <1>3
  <2>2. A \cup Z = B
    BY <1>1
  <2> HIDE DEF A, B
  <2>3. Over(A \cup Z, size, n) = Over(A, size, n) + Over(Z, size, n)
    BY <2>1, OverUnion
  <2> QED
    BY <2>2, <2>3
<1>8. Over(F, sz, n) = Over(A, sz, n) + gap
  <2>1. F \ {k} = A
    OBVIOUS
  <2>2. k \in 0 .. n - 1 /\ k \in F /\ n \in Nat /\ sz \in [0 .. n - 1 -> Nat]
    BY <1>0, <1>1, <1>3
  <2> HIDE DEF F
  <2>3. Over(F, sz, n) = Over(F \ {k}, sz, n) + sz[k]
    BY <2>2, OverRemove
  <2> QED
    BY <1>3, <2>1, <2>3
<1>9. Over(A, sz, n) = Over(A, size, n) /\ Over(Z, sz, n) = Over(Z, size, n)
  <2>1. \A j \in 0 .. n - 1 : j \in A => sz[j] = size[j]
    BY <1>0, <1>3
  <2>2. \A j \in 0 .. n - 1 : j \in Z => sz[j] = size[j]
    BY <1>0, <1>1, <1>3
  <2> HIDE DEF A
  <2> QED
    BY <2>1, <2>2, OverSame
<1>10. /\ Over(Z, size, n) \in Nat /\ Over(A, size, n) \in Nat /\ Over(Z, sources, n) \in Nat
       /\ Over({k}, least, n) \in Nat /\ Over({}, least, n) = 0
  BY <1>0, <1>3, OverType, OverEmpty
<1>11. gap = Space - Over(B, size, n)
  OBVIOUS
<1> HIDE DEF A, B, Y, F
<1> DEFINE inA == Over(A, size, n)
           inZ == Over(Z, size, n)
           srcZ == Over(Z, sources, n)
<1>12. /\ inA \in Nat /\ inZ \in Nat /\ srcZ \in Nat /\ sources[k] \in Nat /\ Space \in Nat
       /\ src_flexible = srcZ + sources[k]
       /\ Space = dst_flexible + inA
       /\ gap = Space - (inA + inZ)
       /\ Over(F, sz, n) = inA + gap
       /\ Over(Z, sz, n) = inZ
  BY <1>0, <1>5, <1>6, <1>7, <1>8, <1>9, <1>10, <1>11
<1> HIDE DEF inA, inZ, srcZ
<1>13. gap <= dst_flexible /\ sources[k] <= src_flexible /\ gap = dst_flexible - inZ
  BY <1>4, <1>12
<1>14. /\ src_flexible - sources[k] = Over(Z, sources, n)
       /\ Space = (dst_flexible - gap) + Over(F, sz, n)
       /\ Over(Z, sz, n) + Over({}, least, n) <= dst_flexible - gap
  <2>1. src_flexible - sources[k] = srcZ
    BY <1>4, <1>12
  <2>2. Space = (dst_flexible - gap) + Over(F, sz, n)
    BY <1>4, <1>12
  <2>3. Over(Z, sz, n) + 0 <= dst_flexible - gap
    BY <1>4, <1>12, <1>13
  <2> QED
    BY <1>10, <2>1, <2>2, <2>3 DEF srcZ
<1>15. Z \cup {} = Z /\ Items \ Z = F
  BY DEF F
<1>16. Balanced(Z, st, sz, src_flexible - sources[k], dst_flexible - gap)
  BY <1>1, <1>2, <1>14, <1>15 DEF Balanced
<1> QED
  BY <1>0, <1>13, <1>16 DEF st, sz

\* A visit that leaves its item where it is, or places it from one of the ends.
LEMMA PlaceKeeps ==
  ASSUME TypeOK, result = "running", NEW k \in Items, ~Settled(k),
         NEW a \in 0 .. n, NEW b \in 0 .. n, a < b,
         Shape(a, b, set, size, offset, remain_to_set),
         NEW z \in Nat, z <= limit, NEW fr \in BOOLEAN,
         NEW sf \in 0 .. U64 - 1, NEW df \in 0 .. limit, NEW c \in BOOLEAN,
         Valid([set EXCEPT ![k] = fr], [size EXCEPT ![k] = z]),
         NEW Z, Balanced(Z, [set EXCEPT ![k] = fr], [size EXCEPT ![k] = z], sf, df),
         Priced(Z, [set EXCEPT ![k] = fr], [size EXCEPT ![k] = z], sf, df),
         ~c => Estimated([set EXCEPT ![k] = fr], [size EXCEPT ![k] = z], sf, df, k + 1),
         Place(k, z, fr, sf, df, c), offset[k] = 0 \/ offset[k + 1] = 0 \/ fr
  PROVE  /\ TypeOK' /\ UNCHANGED input /\ result' \in {"running", "false"}
         /\ result' = "running" => Running'
<1> DEFINE st == [set EXCEPT ![k] = fr]
           sz == [size EXCEPT ![k] = z]
<1>1. /\ n \in Nat /\ Items = 0 .. n - 1 /\ k \in 0 .. n /\ k + 1 \in 0 .. n
      /\ a \in Nat /\ b \in Nat /\ k \in Nat
      /\ limit \in Nat /\ limit < U64 /\ U64 \in Nat /\ n < U64 /\ Given
  <2>1. Given /\ U64 \in Nat
    BY TypeFacts, SizeAssumption
  <2>2. /\ n \in Nat /\ Items = 0 .. n - 1 /\ limit \in Nat /\ limit < U64 /\ n < U64
    BY <2>1, Givens
  <2> QED
    BY <2>1, <2>2
<1>2. /\ set \in [0 .. n -> BOOLEAN] /\ size \in [Items -> 0 .. U64 - 1]
      /\ size \in [Items -> Nat]
      /\ offset \in [0 .. n -> 0 .. U64 - 1] /\ offset \in [0 .. n -> Nat]
  BY TypeFacts
<1>3. k \notin Done(a, b) /\ a <= k /\ k < b /\ remain_to_set = b - a /\ remain_to_set # 0
  BY <1>1, NotDone
<1>4. \A j \in Items : size[j] <= limit
  BY DEF TypeOK
<1>5. /\ st \in [0 .. n -> BOOLEAN] /\ sz \in [Items -> 0 .. U64 - 1] /\ sz \in [Items -> Nat]
      /\ \A j \in Items : sz[j] <= limit
      /\ sz[k] = z /\ (fr => st[k])
  <2>1. z \in 0 .. U64 - 1
    BY <1>1
  <2> QED
    BY <1>1, <1>2, <1>4, <2>1
<1>6. Shape(a, b, st, sz, offset, b - a)
  BY <1>1, <1>2, <1>3, ShapeBetween
<1>7. Wrap(sf) = sf /\ Wrap(df) = df /\ df \in 0 .. U64 - 1 /\ df \in Nat
  <2>1. df \in 0 .. U64 - 1 /\ df \in Nat
    BY <1>1
  <2> QED
    BY <2>1, Wraps
<1>8. Over(Chosen(st), sz, n) <= Space
  BY <1>1, <1>5, <1>7, SetFits
<1>9. fr => st = [set EXCEPT ![k] = TRUE]
  OBVIOUS
<1>10. Wrap(remain_to_set - 1) = b - a - 1 /\ b - a - 1 \in 0 .. U64 - 1
  <2>1. remain_to_set - 1 \in 0 .. U64 - 1 /\ remain_to_set - 1 = b - a - 1
    BY <1>1, <1>3
  <2> QED
    BY <2>1, Wraps
<1> HIDE DEF st, sz
<1>types. ASSUME UNCHANGED <<input, next_flexible, round>>, set' = st, size' = sz,
                 NEW off \in [0 .. n -> 0 .. U64 - 1], offset' = off,
                 src_flexible' = sf, dst_flexible' = df, remain_to_set' \in 0 .. U64 - 1,
                 ii' \in 0 .. n, changed' \in BOOLEAN, result' \in {"running", "false"}
          PROVE  TypeOK'
  <2>1. n' = n /\ item' = item /\ limit' = limit /\ build' = build /\ Items' = Items
    BY <1>types DEF input, Items
  <2>2. /\ build \in Builds /\ n \in 1 .. MaxItems /\ limit \in DstSizes /\ item \in [Items -> ItemSet]
        /\ next_flexible \in 0 .. n /\ round \in Nat
    BY DEF TypeOK
  <2>3. /\ set' \in [0 .. n -> BOOLEAN] /\ size' \in [Items -> 0 .. U64 - 1]
        /\ \A j \in Items : size'[j] <= limit
    BY <1>5, <1>types
  <2>4. offset' \in [0 .. n -> 0 .. U64 - 1]
    BY <1>types
  <2>5. {src_flexible', dst_flexible', remain_to_set'} \subseteq 0 .. U64 - 1
    BY <1>7, <1>types
  <2>6. /\ next_flexible' \in 0 .. n /\ ii' \in 0 .. n /\ changed' \in BOOLEAN /\ round' \in Nat
        /\ result' \in {"start", "running", "true", "false", "throw"}
    BY <1>types, <2>2
  <2> QED
    BY <2>1, <2>2, <2>3, <2>4, <2>5, <2>6 DEF TypeOK
<1>next. ASSUME UNCHANGED input, set' = st, size' = sz, src_flexible' = sf, dst_flexible' = df,
                NEW d \in 0 .. n, NEW e \in 0 .. n, d < e,
                Shape(d, e, st, sz, offset', remain_to_set'),
                ~changed' => ~c /\ ii' = k + 1
         PROVE  Running'
  <2>1. Valid(set', size') /\ Shape(d, e, set', size', offset', remain_to_set')
    BY <1>next DEF st, sz
  <2>2. Balanced(Z, set', size', src_flexible', dst_flexible')
    BY <1>next DEF st, sz
  <2>3. Priced(Z, set', size', src_flexible', dst_flexible')
    BY <1>next DEF st, sz
  <2>4. ~changed' => Estimated(set', size', src_flexible', dst_flexible', ii')
    BY <1>next DEF st, sz
  <2> QED
    BY <1>next, <2>1, <2>2, <2>3, <2>4, RunningNext
<1>11. CASE /\ offset[k] # 0 /\ offset[k + 1] # 0
            /\ size' = sz /\ set' = st
            /\ result' = "false"
            /\ src_flexible' = Wrap(sf) /\ dst_flexible' = Wrap(df)
            /\ UNCHANGED <<input, offset, remain_to_set, sweep>>
  <2>1. UNCHANGED <<input, next_flexible, round>> /\ offset' = offset /\ result' = "false"
        /\ ii' = ii /\ changed' = changed /\ remain_to_set' = remain_to_set
    BY <1>11 DEF sweep
  <2>2. ii \in 0 .. n /\ changed \in BOOLEAN /\ remain_to_set \in 0 .. U64 - 1
    BY TypeFacts
  <2> QED
    BY <1>2, <1>7, <1>11, <1>types, <2>1, <2>2
<1>12. CASE /\ offset[k] # 0 /\ offset[k + 1] = 0 /\ fr
            /\ offset' = [offset EXCEPT ![k + 1] = Wrap(offset[k] + z)]
            /\ size' = sz /\ set' = [set EXCEPT ![k] = TRUE]
            /\ remain_to_set' = Wrap(remain_to_set - 1)
            /\ changed' = (c \/ Wrap(remain_to_set - 1) # remain_to_set)
            /\ ii' = k + 1
            /\ UNCHANGED <<input, next_flexible, round, result>>
            /\ src_flexible' = Wrap(sf) /\ dst_flexible' = Wrap(df)
  <2>1. k = a /\ a + 1 < b
    <3>1. \A j \in 0 .. n : offset[j] # 0 <=> (j <= a \/ j >= b)
      BY DEF Shape
    <3> QED
      BY <1>1, <1>3, <1>12, <3>1
  <2>2. /\ offset[a] + sz[a] <= limit
        /\ Shape(a + 1, b, st, sz, [offset EXCEPT ![a + 1] = offset[a] + sz[a]], b - a - 1)
    <3>1. st[a] /\ a + 1 < b
      BY <1>5, <1>12, <2>1
    <3> QED
      BY ONLY <1>1, <1>2, <1>5, <1>6, <1>8, <3>1, a \in 0 .. n, b \in 0 .. n, PlaceFront
  <2>3. Wrap(offset[k] + z) = offset[a] + sz[a] /\ offset[a] + sz[a] \in 0 .. U64 - 1
    <3>1. offset[a] + sz[a] \in 0 .. U64 - 1
      <4>1. offset[a] \in Nat /\ sz[a] \in Nat
        BY <1>2, <1>5, <2>1
      <4> QED
        BY ONLY <1>1, <2>2, <4>1
    <3> QED
      BY <1>5, <2>1, <3>1, Wraps
  <2>4. offset' = [offset EXCEPT ![a + 1] = offset[a] + sz[a]] /\ remain_to_set' = b - a - 1
    BY <1>10, <1>12, <2>1, <2>3
  <2>5. changed' = TRUE
    <3>1. Wrap(remain_to_set - 1) # remain_to_set
      BY <1>1, <1>3, <1>10
    <3> QED
      BY <1>12, <3>1
  <2>6. set' = st /\ size' = sz /\ src_flexible' = sf /\ dst_flexible' = df /\ UNCHANGED input
        /\ result' = "running"
    BY <1>7, <1>9, <1>12
  <2>7. a + 1 \in 0 .. n
    BY <1>1, <2>1
  <2>8. Running'
    BY <1>next, <2>1, <2>2, <2>4, <2>5, <2>6, <2>7
  <2>9. [offset EXCEPT ![a + 1] = offset[a] + sz[a]] \in [0 .. n -> 0 .. U64 - 1]
    BY <1>2, <2>3
  <2> QED
    BY <1>1, <1>10, <1>12, <1>types, <2>4, <2>5, <2>6, <2>8, <2>9
<1>13. CASE /\ offset[k] = 0 /\ offset[k + 1] # 0 /\ fr
            /\ offset' = [offset EXCEPT ![k] = Wrap(offset[k + 1] - z)]
            /\ size' = sz /\ set' = [set EXCEPT ![k] = TRUE]
            /\ remain_to_set' = Wrap(remain_to_set - 1)
            /\ changed' = (c \/ Wrap(remain_to_set - 1) # remain_to_set)
            /\ ii' = k + 1
            /\ UNCHANGED <<input, next_flexible, round, result>>
            /\ src_flexible' = Wrap(sf) /\ dst_flexible' = Wrap(df)
  <2>1. k = b - 1 /\ k + 1 = b /\ a < b - 1
    <3>1. \A j \in 0 .. n : offset[j] # 0 <=> (j <= a \/ j >= b)
      BY DEF Shape
    <3> QED
      BY <1>1, <1>3, <1>13, <3>1
  <2>2. /\ offset[b] - sz[k] \in Nat /\ offset[b] - sz[k] <= limit
        /\ Shape(a, k, st, sz, [offset EXCEPT ![k] = offset[b] - sz[k]], b - a - 1)
    <3>1. st[b - 1]
      BY <1>5, <1>13, <2>1
    <3>2. /\ offset[b] - sz[b - 1] \in Nat /\ offset[b] - sz[b - 1] <= limit
          /\ Shape(a, b - 1, st, sz, [offset EXCEPT ![b - 1] = offset[b] - sz[b - 1]], b - a - 1)
      BY <1>1, <1>2, <1>5, <1>6, <1>8, <2>1, <3>1, PlaceBack
    <3> QED
      BY <2>1, <3>2
  <2>3. Wrap(offset[k + 1] - z) = offset[b] - sz[k] /\ offset[b] - sz[k] \in 0 .. U64 - 1
    <3>1. offset[b] - sz[k] \in 0 .. U64 - 1
      BY <1>1, <2>2
    <3> QED
      BY <1>5, <2>1, <3>1, Wraps
  <2>4. offset' = [offset EXCEPT ![k] = offset[b] - sz[k]] /\ remain_to_set' = b - a - 1
    BY <1>10, <1>13, <2>1, <2>3
  <2>5. changed' = TRUE
    <3>1. Wrap(remain_to_set - 1) # remain_to_set
      BY <1>1, <1>3, <1>10
    <3> QED
      BY <1>13, <3>1
  <2>6. set' = st /\ size' = sz /\ src_flexible' = sf /\ dst_flexible' = df /\ UNCHANGED input
        /\ result' = "running"
    BY <1>7, <1>9, <1>13
  <2>7. a < k
    BY <2>1
  <2>8. Running'
    BY <1>1, <1>next, <2>2, <2>4, <2>5, <2>6, <2>7
  <2>9. [offset EXCEPT ![k] = offset[b] - sz[k]] \in [0 .. n -> 0 .. U64 - 1]
    BY <1>2, <2>3
  <2>10. UNCHANGED <<input, next_flexible, round>> /\ ii' \in 0 .. n /\ remain_to_set' \in 0 .. U64 - 1
    BY <1>1, <1>10, <1>13, <2>4
  <2>11. TypeOK'
    BY <1>types, <2>4, <2>5, <2>6, <2>9, <2>10
  <2> QED
    BY <2>6, <2>8, <2>11
<1>14. CASE /\ offset' = offset /\ size' = sz /\ set' = st
            /\ remain_to_set' = remain_to_set
            /\ changed' = (c \/ remain_to_set # remain_to_set)
            /\ ii' = k + 1
            /\ UNCHANGED <<input, next_flexible, round, result>>
            /\ src_flexible' = Wrap(sf) /\ dst_flexible' = Wrap(df)
  <2>1. set' = st /\ size' = sz /\ src_flexible' = sf /\ dst_flexible' = df /\ UNCHANGED input
        /\ result' = "running" /\ changed' = c /\ ii' = k + 1
    BY <1>7, <1>14
  <2>2. Shape(a, b, st, sz, offset', remain_to_set')
    BY <1>3, <1>6, <1>14
  <2>3. Running'
    BY <1>next, <2>1, <2>2
  <2>4. remain_to_set' \in 0 .. U64 - 1
    BY <1>14, TypeFacts
  <2> QED
    BY <1>1, <1>2, <1>14, <1>types, <2>1, <2>3, <2>4
<1> QED
  BY <1>11, <1>12, <1>13, <1>14 DEF Place, Placed, st, sz

\* The type invariant of the next state, conjunct by conjunct.
LEMMA TypeNext ==
  ASSUME TypeOK, UNCHANGED input, set' \in [0 .. n -> BOOLEAN],
         size' \in [Items -> 0 .. U64 - 1], offset' \in [0 .. n -> 0 .. U64 - 1],
         result' = "running" => \A j \in Items : size'[j] <= limit,
         src_flexible' \in 0 .. U64 - 1, dst_flexible' \in 0 .. U64 - 1,
         remain_to_set' \in 0 .. U64 - 1,
         next_flexible' \in 0 .. n, ii' \in 0 .. n, changed' \in BOOLEAN, round' \in Nat,
         result' \in {"start", "running", "true", "false", "throw"}
  PROVE  TypeOK'
<1>1. n' = n /\ item' = item /\ limit' = limit /\ build' = build /\ Items' = Items
  BY DEF input, Items
<1>2. /\ build \in Builds /\ n \in 1 .. MaxItems /\ limit \in DstSizes /\ item \in [Items -> ItemSet]
  BY DEF TypeOK
<1>3. {src_flexible', dst_flexible', remain_to_set'} \subseteq 0 .. U64 - 1
  OBVIOUS
<1> QED
  BY <1>1, <1>2, <1>3 DEF TypeOK

\* A visit to an item both of whose ends are known, and that is not frozen: it
\* is the last one, and takes the gap or does not fit into it.
LEMMA GapKeeps ==
  ASSUME TypeOK, result = "running", NEW k \in Items, ~set[k],
         NEW a \in 0 .. n, NEW b \in 0 .. n, a < b,
         Shape(a, b, set, size, offset, remain_to_set), Valid(set, size),
         NEW Z, Balanced(Z, set, size, src_flexible, dst_flexible),
         NEW z \in Nat, z <= limit, NEW c \in BOOLEAN,
         Place(k, z, FALSE, src_flexible, dst_flexible, c), offset[k] # 0, offset[k + 1] # 0
  PROVE  /\ TypeOK' /\ UNCHANGED input /\ result' \in {"running", "false"}
         /\ result' = "running" => Running'
<1> DEFINE gap == offset[k + 1] - offset[k]
           st == [set EXCEPT ![k] = TRUE]
           sz == [size EXCEPT ![k] = gap]
           sf == src_flexible - item[k].src
           df == dst_flexible - gap
<1>1. /\ Given /\ SizesTyped
      /\ set \in [0 .. n -> BOOLEAN] /\ size \in [Items -> 0 .. U64 - 1] /\ size \in [Items -> Nat]
      /\ offset \in [0 .. n -> 0 .. U64 - 1] /\ offset \in [0 .. n -> Nat]
      /\ src_flexible \in 0 .. U64 - 1 /\ dst_flexible \in 0 .. U64 - 1
      /\ remain_to_set \in 0 .. U64 - 1 /\ changed \in BOOLEAN /\ ii \in 0 .. n
      /\ next_flexible \in 0 .. n /\ round \in Nat /\ U64 \in Nat
  BY TypeFacts, SizeAssumption
<1>2. /\ n \in Nat /\ Items = 0 .. n - 1 /\ limit \in Nat /\ limit < U64 /\ Space <= limit /\ Space \in Nat
      /\ item[k].src \in Nat /\ least[k] = MinSize(item[k])
  BY <1>1, Givens
<1>3. k \in 0 .. n /\ k + 1 \in 0 .. n /\ a \in Nat /\ b \in Nat /\ k \in Nat
  BY <1>2
<1>4. k \notin Done(a, b) /\ a <= k /\ k < b /\ remain_to_set = b - a
  BY <1>1, NotDone DEF Settled
<1>5. k = a /\ k + 1 = b
  <2>1. \A j \in 0 .. n : offset[j] # 0 <=> (j <= a \/ j >= b)
    BY DEF Shape
  <2>2. (k <= a \/ k >= b) /\ (k + 1 <= a \/ k + 1 >= b)
    BY <1>3, <2>1
  <2> QED
    BY <1>3, <1>4, <2>2
<1>6. remain_to_set = 1
  BY <1>3, <1>4, <1>5
<1>7. Done(a, b) = Items \ {k}
  BY <1>2, <1>3, <1>5 DEF Done
<1>8. Unset(set) = {k}
  <2>1. \A j \in Items \ {k} : set[j]
    BY <1>7 DEF Shape
  <2> QED
    BY <2>1 DEF Unset
<1>9. gap \in 0 .. U64 - 1 /\ gap \in Nat /\ Wrap(offset[k + 1] - offset[k]) = gap
  <2>1. offset[k] <= offset[k + 1]
    <3>1. \A i, j \in 0 .. n : i < j /\ offset[i] # 0 /\ offset[j] # 0 => offset[i] <= offset[j]
      BY DEF Shape
    <3>2. k < k + 1
      BY <1>3
    <3> QED
      BY <1>3, <3>1, <3>2
  <2>2. offset[k] \in 0 .. U64 - 1 /\ offset[k + 1] \in 0 .. U64 - 1
    BY <1>1, <1>3
  <2>3. gap \in 0 .. U64 - 1 /\ gap \in Nat
    <3>1. U64 \in Nat /\ \A x, y \in 0 .. U64 - 1 : x <= y => y - x \in 0 .. U64 - 1 /\ y - x \in Nat
      BY <1>1
    <3> QED
      BY <2>1, <2>2, <3>1
  <2> QED
    BY <2>3, Wraps
<1>10. gap = Space - Over(Items \ {k}, size, n)
  BY <1>5, <1>7 DEF Shape
<1> HIDE DEF gap
<1>11. /\ gap <= dst_flexible /\ item[k].src <= src_flexible
       /\ Balanced(Z, st, sz, sf, df)
  BY <1>1, <1>8, <1>9, <1>10, GapBalanced
<1>12. dst_flexible <= Space
  <2>1. Given /\ size \in [Items -> Nat] /\ dst_flexible \in Nat
    BY <1>1 DEF SizesTyped
  <2> QED
    BY <2>1, SetFits
<1>13. gap <= limit
  BY <1>1, <1>2, <1>9, <1>11, <1>12
<1>14. sf \in 0 .. U64 - 1 /\ df \in 0 .. U64 - 1 /\ Wrap(sf) = sf /\ Wrap(df) = df
  <2>1. sf \in 0 .. U64 - 1 /\ df \in 0 .. U64 - 1
    <3>1. \A x \in 0 .. U64 - 1 : \A y \in Nat : y <= x => x - y \in 0 .. U64 - 1
      BY <1>1
    <3> QED
      BY <1>1, <1>2, <1>9, <1>11, <3>1
  <2> QED
    BY <2>1, Wraps
<1>15. Wrap(remain_to_set - 1) = 0
  <2>1. remain_to_set - 1 \in 0 .. U64 - 1 /\ remain_to_set - 1 = 0
    BY <1>1, <1>6
  <2> QED
    BY <2>1, Wraps
<1>16. Shape(a, b, st, sz, offset, 0)
  <2>1. offset[b] = offset[a] + gap
    <3>1. offset[k] \in Nat /\ offset[k + 1] \in Nat
      BY <1>1, <1>3
    <3> QED
      BY <1>5, <3>1 DEF gap
  <2>2. b = a + 1 /\ b - a = remain_to_set
    BY <1>4, <1>5
  <2>3. Shape(a, b, set, size, offset, b - a)
    BY <2>2
  <2> QED
    BY <1>1, <1>4, <1>5, <2>1, <2>2, <2>3, ShapeBetween
<1>17. CASE /\ ~Fits(k, gap)
            /\ size' = [size EXCEPT ![k] = z]
            /\ set' = [set EXCEPT ![k] = FALSE]
            /\ result' = "false"
            /\ src_flexible' = Wrap(src_flexible) /\ dst_flexible' = Wrap(dst_flexible)
            /\ UNCHANGED <<input, offset, remain_to_set, sweep>>
  <2>1. UNCHANGED <<input, offset, remain_to_set, next_flexible, ii, changed, round>>
    BY <1>17 DEF sweep
  <2>2. src_flexible' \in 0 .. U64 - 1 /\ dst_flexible' \in 0 .. U64 - 1
    BY <1>1, <1>17, Wraps
  <2>3. z \in 0 .. U64 - 1
    BY <1>1, <1>2
  <2>4. size' \in [Items -> 0 .. U64 - 1] /\ set' \in [0 .. n -> BOOLEAN]
    BY <1>1, <1>17, <2>3
  <2>5. result' = "false"
    BY <1>17
  <2>6. /\ offset' \in [0 .. n -> 0 .. U64 - 1] /\ remain_to_set' \in 0 .. U64 - 1
        /\ next_flexible' \in 0 .. n /\ ii' \in 0 .. n /\ changed' \in BOOLEAN /\ round' \in Nat
    BY <1>1, <2>1
  <2> QED
    BY <2>1, <2>2, <2>4, <2>5, <2>6, TypeNext
<1>18. CASE /\ Fits(k, gap)
            /\ offset' = offset /\ size' = sz /\ set' = st
            /\ remain_to_set' = Wrap(remain_to_set - 1)
            /\ changed' = (c \/ Wrap(remain_to_set - 1) # remain_to_set)
            /\ ii' = k + 1
            /\ UNCHANGED <<input, next_flexible, round, result>>
            /\ src_flexible' = Wrap(sf) /\ dst_flexible' = Wrap(df)
  <2>1. Valid(st, sz)
    <3>1. gap >= least[k] /\ ~item[k].fixed
      BY <1>2, <1>18 DEF Fits, Valid
    <3>2. \A j \in Items : j # k => st[j] = set[j] /\ sz[j] = size[j]
      BY <1>1, <1>2
    <3>3. sz[k] = gap
      BY <1>1
    <3>4. \A j \in Items : /\ item[j].fixed => set[j]
                           /\ set[j] => size[j] >= least[j] /\ (item[j].fixed => size[j] = item[j].src)
      BY DEF Valid
    <3>5. st[k]
      BY <1>1, <1>3
    <3> HIDE DEF st, sz
    <3> QED
      BY <3>1, <3>2, <3>3, <3>4, <3>5 DEF Valid
  <2>2. size' \in [Items -> 0 .. U64 - 1] /\ set' \in [0 .. n -> BOOLEAN]
        /\ \A j \in Items : size'[j] <= limit
    <3>1. \A j \in Items : size[j] <= limit
      BY DEF TypeOK
    <3> QED
      BY <1>1, <1>9, <1>13, <1>18, <3>1
  <2>3. changed' = TRUE /\ remain_to_set' = 0
    <3>1. Wrap(remain_to_set - 1) # remain_to_set
      BY <1>6, <1>15
    <3> QED
      BY <1>15, <1>18, <3>1
  <2> HIDE DEF st, sz, sf, df
  <2>4. src_flexible' = sf /\ dst_flexible' = df /\ UNCHANGED <<input, next_flexible, round>>
        /\ result' = "running" /\ ii' \in 0 .. n /\ set' = st /\ size' = sz /\ offset' = offset
    BY <1>3, <1>14, <1>18
  <2>5. /\ src_flexible' \in 0 .. U64 - 1 /\ dst_flexible' \in 0 .. U64 - 1
        /\ remain_to_set' \in 0 .. U64 - 1 /\ offset' \in [0 .. n -> 0 .. U64 - 1]
        /\ changed' \in BOOLEAN /\ round' \in Nat /\ next_flexible' \in 0 .. n
        /\ result' \in {"start", "running", "true", "false", "throw"}
    <3>1. offset' \in [0 .. n -> 0 .. U64 - 1] /\ round' \in Nat /\ next_flexible' \in 0 .. n
      BY <1>1, <2>4
    <3>2. src_flexible' \in 0 .. U64 - 1 /\ dst_flexible' \in 0 .. U64 - 1
      BY <1>14, <2>4
    <3>3. remain_to_set' \in 0 .. U64 - 1
      BY <1>18, Wraps, <1>1, <1>6
    <3> QED
      BY <2>3, <2>4, <3>1, <3>2, <3>3
  <2>6. TypeOK'
    BY <2>2, <2>4, <2>5, TypeNext
  <2>7. Running'
    <3>1. Balanced(Z, set', size', src_flexible', dst_flexible')
      BY <1>11, <2>4
    <3>2. Valid(set', size') /\ Shape(a, b, set', size', offset', remain_to_set')
      BY <1>16, <2>1, <2>3, <2>4
    <3> QED
      BY <2>3, <2>4, <3>1, <3>2, RunningNext
  <2> QED
    BY <2>4, <2>6, <2>7
<1>19. Wrap(offset[k + 1] - offset[k]) = gap
  BY <1>9
<1> QED
  BY <1>17, <1>18, <1>19 DEF Place, Placed

\* A visit to a settled item.
LEMMA VisitSkip ==
  ASSUME TypeOK, result = "running", Running, ii < n, Skip(ii)
  PROVE  /\ TypeOK' /\ UNCHANGED input /\ result' = "running" /\ Running'
<1>1. /\ Given /\ ii \in 0 .. n /\ next_flexible \in 0 .. n
      /\ set \in [0 .. n -> BOOLEAN] /\ size \in [Items -> 0 .. U64 - 1]
      /\ offset \in [0 .. n -> 0 .. U64 - 1]
      /\ src_flexible \in 0 .. U64 - 1 /\ dst_flexible \in 0 .. U64 - 1
      /\ remain_to_set \in 0 .. U64 - 1 /\ changed \in BOOLEAN /\ round \in Nat
  BY TypeFacts
<1>2. n \in Nat /\ Items = 0 .. n - 1
  BY <1>1, Givens
<1>3. ii \in Items /\ ii + 1 \in 0 .. n /\ set[ii]
  BY <1>1, <1>2 DEF Skip, Settled
<1>4. /\ UNCHANGED <<input, set, offset, size, src_flexible, dst_flexible, remain_to_set>>
      /\ UNCHANGED <<changed, round, result>> /\ ii' = ii + 1
      /\ next_flexible' \in {next_flexible, ii + 1}
  BY DEF Skip, layout, totals
<1>5. \A j \in Items : size[j] <= limit
  BY DEF TypeOK
<1>6. TypeOK'
  <2>1. /\ set' \in [0 .. n -> BOOLEAN] /\ size' \in [Items -> 0 .. U64 - 1]
        /\ offset' \in [0 .. n -> 0 .. U64 - 1]
        /\ \A j \in Items : size'[j] <= limit
    BY <1>1, <1>4, <1>5
  <2>2. /\ src_flexible' \in 0 .. U64 - 1 /\ dst_flexible' \in 0 .. U64 - 1
        /\ remain_to_set' \in 0 .. U64 - 1 /\ changed' \in BOOLEAN /\ round' \in Nat
        /\ next_flexible' \in 0 .. n /\ ii' \in 0 .. n
        /\ result' \in {"start", "running", "true", "false", "throw"}
    BY <1>1, <1>3, <1>4
  <2> QED
    BY <1>4, <2>1, <2>2, TypeNext
<1>7. PICK a \in 0 .. n, b \in 0 .. n : a < b /\ Shape(a, b, set, size, offset, remain_to_set)
  BY DEF Running
<1>8. PICK Z : /\ Balanced(Z, set, size, src_flexible, dst_flexible)
               /\ remain_to_set # 0 => Priced(Z, set, size, src_flexible, dst_flexible)
  BY DEF Running
<1>9. ~changed => Estimated(set, size, src_flexible, dst_flexible, ii + 1)
  <2>1. \A j \in Items : j < ii + 1 /\ ~set[j] => j < ii
    BY <1>2, <1>3
  <2>2. ~changed => Estimated(set, size, src_flexible, dst_flexible, ii)
    BY DEF Running
  <2> QED
    BY <2>1, <2>2 DEF Estimated
<1>10. Valid(set, size)
  BY DEF Running
<1>11. Running'
  BY <1>4, <1>7, <1>8, <1>9, <1>10, RunningNext
<1> QED
  BY <1>4, <1>6, <1>11

\* A visit that fails leaves the layout alone.
LEMMA VisitFail ==
  ASSUME TypeOK, NEW outcome \in {"false", "throw"}, Fail(outcome), UNCHANGED <<set, size>>
  PROVE  TypeOK' /\ UNCHANGED input /\ result' = outcome
<1>1. /\ ii \in 0 .. n /\ next_flexible \in 0 .. n
      /\ set \in [0 .. n -> BOOLEAN] /\ size \in [Items -> 0 .. U64 - 1]
      /\ offset \in [0 .. n -> 0 .. U64 - 1]
      /\ src_flexible \in 0 .. U64 - 1 /\ dst_flexible \in 0 .. U64 - 1
      /\ remain_to_set \in 0 .. U64 - 1 /\ changed \in BOOLEAN /\ round \in Nat
  BY TypeFacts
<1>2. /\ UNCHANGED <<input, set, offset, size, src_flexible, dst_flexible, remain_to_set>>
      /\ UNCHANGED <<changed, round, next_flexible, ii>> /\ result' = outcome
  BY DEF Fail, totals, sweep
<1>3. result' # "running" /\ result' \in {"start", "running", "true", "false", "throw"}
  BY <1>2
<1>4. TypeOK'
  BY <1>1, <1>2, <1>3, TypeNext
<1> QED
  BY <1>2, <1>4

\* An item whose estimate is below its minimum is raised to that.
LEMMA VisitRaise ==
  ASSUME TypeOK, result = "running", Running, NEW k \in Items, ~set[k],
         Place(k, MinSize(item[k]), TRUE, src_flexible - item[k].src,
               dst_flexible - MinSize(item[k]), TRUE)
  PROVE  /\ TypeOK' /\ UNCHANGED input /\ result' \in {"running", "false"}
         /\ result' = "running" => Running'
<1> DEFINE z == MinSize(item[k])
           sf == src_flexible - item[k].src
           df == dst_flexible - z
           st == [set EXCEPT ![k] = TRUE]
           sz == [size EXCEPT ![k] = z]
<1>1. /\ Given /\ SizesTyped
      /\ set \in [0 .. n -> BOOLEAN] /\ size \in [Items -> Nat]
      /\ src_flexible \in 0 .. U64 - 1 /\ dst_flexible \in 0 .. U64 - 1 /\ U64 \in Nat
  BY TypeFacts, SizeAssumption
<1>2. /\ n \in Nat /\ Items = 0 .. n - 1 /\ limit \in Nat /\ Space <= limit /\ Space \in Nat
      /\ item[k].src \in Nat /\ least[k] = z /\ z \in Nat
      /\ item[k].fixed => z = item[k].src
  BY <1>1, Givens
<1>3. ~Settled(k)
  BY DEF Settled
<1>4. PICK a \in 0 .. n, b \in 0 .. n : a < b /\ Shape(a, b, set, size, offset, remain_to_set)
  BY DEF Running
<1>5. remain_to_set # 0
  BY <1>1, <1>3, <1>4, NotDone
<1>6. PICK Z : /\ Balanced(Z, set, size, src_flexible, dst_flexible)
               /\ Priced(Z, set, size, src_flexible, dst_flexible)
  BY <1>5 DEF Running
<1>7. /\ item[k].src <= src_flexible /\ z <= dst_flexible
      /\ Balanced(Z, st, sz, sf, df) /\ Priced(Z, st, sz, sf, df)
  BY <1>1, <1>6, RaiseBalanced, RaisePriced
<1>8. dst_flexible <= Space
  <2>1. dst_flexible \in Nat
    BY <1>1
  <2> QED
    BY <1>1, <1>6, <2>1, SetFits
<1>9. z <= limit /\ sf \in 0 .. U64 - 1 /\ df \in 0 .. limit
  <2>1. \A x \in 0 .. U64 - 1 : \A y \in Nat : y <= x => x - y \in 0 .. U64 - 1
    BY <1>1
  <2>2. \A x \in 0 .. U64 - 1 : \A y \in Nat :
          y <= x /\ x <= Space => y <= limit /\ x - y \in 0 .. limit
    BY <1>1, <1>2
  <2> HIDE DEF z
  <2>3. sf \in 0 .. U64 - 1
    BY <1>1, <1>2, <1>7, <2>1
  <2>4. z <= limit /\ df \in 0 .. limit
    BY <1>1, <1>2, <1>7, <1>8, <2>2
  <2> QED
    BY <2>3, <2>4
<1>10. Valid(st, sz)
  <2>1. \A j \in Items : /\ item[j].fixed => set[j]
                         /\ set[j] => size[j] >= least[j] /\ (item[j].fixed => size[j] = item[j].src)
    BY DEF Running, Valid
  <2>2. \A j \in Items : j # k => st[j] = set[j] /\ sz[j] = size[j]
    BY <1>1, <1>2
  <2>3. st[k] /\ sz[k] = z
    BY <1>1, <1>2
  <2>4. z >= least[k]
    BY <1>2
  <2> HIDE DEF st, sz, z
  <2> QED
    BY <1>2, <2>1, <2>2, <2>3, <2>4 DEF Valid
<1>11. PICK fr \in BOOLEAN : fr = TRUE
  OBVIOUS
<1>12. /\ Valid([set EXCEPT ![k] = fr], [size EXCEPT ![k] = z])
       /\ Balanced(Z, [set EXCEPT ![k] = fr], [size EXCEPT ![k] = z], sf, df)
       /\ Priced(Z, [set EXCEPT ![k] = fr], [size EXCEPT ![k] = z], sf, df)
       /\ Place(k, z, fr, sf, df, fr)
  BY <1>7, <1>10, <1>11
<1> HIDE DEF z, sf, df
<1> QED
  BY <1>2, <1>3, <1>4, <1>9, <1>11, <1>12, PlaceKeeps

\* An item whose estimate is not below its minimum keeps it for this sweep.
LEMMA VisitEstimate ==
  ASSUME TypeOK, result = "running", Running, NEW k \in Items, k = ii, ~set[k],
         src_flexible # 0, NEW e \in Estimates(k), e >= MinSize(item[k]),
         Place(k, e, FALSE, src_flexible, dst_flexible, changed)
  PROVE  /\ TypeOK' /\ UNCHANGED input /\ result' \in {"running", "false"}
         /\ result' = "running" => Running'
<1> DEFINE sz == [size EXCEPT ![k] = e]
<1>1. /\ Given /\ SizesTyped
      /\ set \in [0 .. n -> BOOLEAN] /\ size \in [Items -> Nat]
      /\ src_flexible \in 0 .. U64 - 1 /\ dst_flexible \in 0 .. U64 - 1 /\ U64 \in Nat
      /\ changed \in BOOLEAN /\ src_flexible \in Nat /\ dst_flexible \in Nat
  <2>1. SizesTyped
    BY TypeFacts
  <2> QED
    BY <2>1, TypeFacts, SizeAssumption DEF SizesTyped
<1>2. /\ n \in Nat /\ Items = 0 .. n - 1 /\ limit \in Nat /\ Space <= limit /\ Space \in Nat
      /\ item[k].src \in Nat /\ least[k] = MinSize(item[k])
  BY <1>1, Givens
<1>3. ~Settled(k)
  BY DEF Settled
<1>4. PICK a \in 0 .. n, b \in 0 .. n : a < b /\ Shape(a, b, set, size, offset, remain_to_set)
  BY DEF Running
<1>5. remain_to_set # 0
  BY <1>1, <1>3, <1>4, NotDone
<1>6. PICK Z : /\ Balanced(Z, set, size, src_flexible, dst_flexible)
               /\ Priced(Z, set, size, src_flexible, dst_flexible)
  BY <1>5 DEF Running
<1>7. src_flexible > 0
  BY <1>1
<1>8. dst_flexible <= Space
  BY <1>1, <1>6, SetFits
<1>9. e \in Nat /\ Under(item[k].src, e, src_flexible, dst_flexible)
  <2>1. PICK P : P = Precision
    OBVIOUS
  <2>2. P \in Nat /\ (build.rounded => dst_flexible < P)
    <3>1. build \in Builds /\ limit \in DstSizes
      BY <1>1 DEF TypeOK, Given
    <3>2. build.rounded => Space < P
      BY <2>1, <3>1, SizeAssumption DEF Space
    <3> QED
      BY <1>1, <1>2, <1>8, <2>1, <3>2, SizeAssumption
  <2> DEFINE p == item[k].src * dst_flexible
             x == p \div src_flexible
  <2>3. \/ e = x
        \/ e \in 0 .. 2 * x + 1 /\ build.rounded /\ (src_flexible * P) * e <= (P + 1) * p
    BY <2>1 DEF Estimates
  <2> HIDE DEF x
  <2>4. x = p \div src_flexible
    BY DEF x
  <2>5. p = item[k].src * dst_flexible
    OBVIOUS
  <2> HIDE DEF p
  <2>6. \/ e = x
        \/ e \in 0 .. 2 * x + 1 /\ dst_flexible < P /\ (src_flexible * P) * e <= (P + 1) * p
    BY <2>2, <2>3
  <2>7. item[k].src \in Nat /\ src_flexible \in Nat /\ dst_flexible \in Nat
    BY <1>1, <1>2
  <2> QED
    BY ONLY <1>7, <2>2, <2>4, <2>5, <2>6, <2>7, EstimateUnder
<1>10. /\ item[k].src <= src_flexible
      /\ Balanced(Z, set, sz, src_flexible, dst_flexible)
      /\ Priced(Z, set, sz, src_flexible, dst_flexible)
  BY <1>1, <1>6, <1>9, EstimateKeeps
<1>11. e <= dst_flexible
  BY <1>1, <1>2, <1>7, <1>9, <1>10, UnderFits
<1>12. e <= limit /\ dst_flexible \in 0 .. limit
  BY <1>1, <1>2, <1>9, <1>11, <1>8
<1>13. Valid(set, size) /\ (~changed => Estimated(set, size, src_flexible, dst_flexible, k))
  BY DEF Running
<1>14. (\A j \in Items : j # k => sz[j] = size[j]) /\ sz[k] = e
  BY <1>1
<1> HIDE DEF sz
<1>15. Valid(set, sz)
  BY <1>13, <1>14 DEF Valid
<1>16. ~changed => Estimated(set, sz, src_flexible, dst_flexible, k + 1)
  <2>1. \A j \in Items : j < k + 1 => j < k \/ j = k
    BY <1>2
  <2>2. e >= least[k]
    BY <1>2
  <2> QED
    BY <1>7, <1>9, <1>13, <1>14, <2>1, <2>2 DEF Estimated
<1>17. CASE offset[k] # 0 /\ offset[k + 1] # 0
  BY <1>1, <1>4, <1>6, <1>9, <1>12, <1>13, <1>17, GapKeeps
<1>18. CASE offset[k] = 0 \/ offset[k + 1] = 0
  <2>1. PICK fr \in BOOLEAN : fr = FALSE
    OBVIOUS
  <2>2. [set EXCEPT ![k] = fr] = set
    BY <1>1, <2>1
  <2>3. Place(k, e, fr, src_flexible, dst_flexible, changed)
    BY <2>1
  <2>4. /\ Valid([set EXCEPT ![k] = fr], [size EXCEPT ![k] = e])
        /\ Balanced(Z, [set EXCEPT ![k] = fr], [size EXCEPT ![k] = e], src_flexible, dst_flexible)
        /\ Priced(Z, [set EXCEPT ![k] = fr], [size EXCEPT ![k] = e], src_flexible, dst_flexible)
        /\ ~changed => Estimated([set EXCEPT ![k] = fr], [size EXCEPT ![k] = e],
                                 src_flexible, dst_flexible, k + 1)
    BY <1>10, <1>15, <1>16, <2>2 DEF sz
  <2> QED
    BY <1>1, <1>3, <1>4, <1>9, <1>12, <1>18, <2>3, <2>4, PlaceKeeps
<1> QED
  BY <1>17, <1>18

\* An item that has its size is placed, if one of its ends is known.
LEMMA VisitSized ==
  ASSUME TypeOK, result = "running", Running, NEW k \in Items, k = ii, set[k], ~Settled(k),
         Place(k, size[k], TRUE, src_flexible, dst_flexible, changed)
  PROVE  /\ TypeOK' /\ UNCHANGED input /\ result' \in {"running", "false"}
         /\ result' = "running" => Running'
<1>1. /\ Given
      /\ set \in [0 .. n -> BOOLEAN] /\ size \in [Items -> Nat]
      /\ src_flexible \in 0 .. U64 - 1 /\ dst_flexible \in 0 .. U64 - 1 /\ U64 \in Nat
      /\ changed \in BOOLEAN /\ dst_flexible \in Nat
  <2>1. SizesTyped
    BY TypeFacts
  <2> QED
    BY <2>1, TypeFacts, SizeAssumption DEF SizesTyped
<1>2. n \in Nat /\ Items = 0 .. n - 1 /\ limit \in Nat /\ Space <= limit /\ Space \in Nat
  BY <1>1, Givens
<1>3. PICK a \in 0 .. n, b \in 0 .. n : a < b /\ Shape(a, b, set, size, offset, remain_to_set)
  BY DEF Running
<1>4. remain_to_set # 0
  BY <1>1, <1>3, NotDone
<1>5. PICK Z : /\ Balanced(Z, set, size, src_flexible, dst_flexible)
               /\ Priced(Z, set, size, src_flexible, dst_flexible)
  BY <1>4 DEF Running
<1>6. dst_flexible <= Space
  BY <1>1, <1>5, SetFits
<1>7. dst_flexible \in 0 .. limit
  BY <1>1, <1>2, <1>6
<1>8. Valid(set, size) /\ (~changed => Estimated(set, size, src_flexible, dst_flexible, k))
  BY DEF Running
<1>9. ~changed => Estimated(set, size, src_flexible, dst_flexible, k + 1)
  <2>1. \A j \in Items : j < k + 1 /\ ~set[j] => j < k
    BY <1>2
  <2> QED
    BY <1>8, <2>1 DEF Estimated
<1>10. PICK fr \in BOOLEAN : fr = TRUE
  OBVIOUS
<1>11. PICK z \in Nat : z = size[k] /\ z <= limit
  BY <1>1 DEF TypeOK
<1>12. [set EXCEPT ![k] = fr] = set /\ [size EXCEPT ![k] = z] = size
  BY <1>1, <1>10, <1>11
<1>13. /\ Valid([set EXCEPT ![k] = fr], [size EXCEPT ![k] = z])
       /\ Balanced(Z, [set EXCEPT ![k] = fr], [size EXCEPT ![k] = z], src_flexible, dst_flexible)
       /\ Priced(Z, [set EXCEPT ![k] = fr], [size EXCEPT ![k] = z], src_flexible, dst_flexible)
       /\ ~changed => Estimated([set EXCEPT ![k] = fr], [size EXCEPT ![k] = z],
                                src_flexible, dst_flexible, k + 1)
       /\ Place(k, z, fr, src_flexible, dst_flexible, changed)
  BY <1>5, <1>8, <1>9, <1>10, <1>11, <1>12
<1> QED
  BY <1>1, <1>3, <1>7, <1>10, <1>11, <1>13, PlaceKeeps

\* A visit, whatever it finds.
LEMMA VisitKeeps ==
  ASSUME TypeOK, Running, Visit
  PROVE  /\ TypeOK' /\ UNCHANGED input /\ result' \in {"running", "false", "throw"}
         /\ result' = "running" => Running'
<1>1. result = "running" /\ ii < n
  BY DEF Visit
<1>2. ii \in Items /\ ii = ii
  BY <1>1, TypeFacts, Givens
<1>3. CASE Skip(ii)
  BY <1>1, <1>3, VisitSkip
<1>4. CASE ~set[ii] /\ src_flexible = 0 /\ Fail("throw") /\ UNCHANGED <<set, size>>
  <2>1. PICK outcome \in {"false", "throw"} : outcome = "throw"
    OBVIOUS
  <2> QED
    BY <1>4, <2>1, VisitFail
<1>5. CASE /\ ~set[ii]
           /\ Place(ii, MinSize(item[ii]), TRUE, src_flexible - item[ii].src,
                    dst_flexible - MinSize(item[ii]), TRUE)
  BY <1>1, <1>2, <1>5, VisitRaise
<1>6. CASE /\ ~set[ii] /\ src_flexible # 0
           /\ \E e \in Estimates(ii) :
                /\ e >= MinSize(item[ii])
                /\ Place(ii, e, FALSE, src_flexible, dst_flexible, changed)
  BY <1>1, <1>2, <1>6, VisitEstimate
<1>7. CASE set[ii] /\ ~Settled(ii) /\ size[ii] = 0 /\ Fail("false") /\ UNCHANGED <<set, size>>
  <2>1. PICK outcome \in {"false", "throw"} : outcome = "false"
    OBVIOUS
  <2> QED
    BY <1>7, <2>1, VisitFail
<1>8. CASE /\ set[ii] /\ ~Settled(ii)
           /\ Place(ii, size[ii], TRUE, src_flexible, dst_flexible, changed)
  BY <1>1, <1>2, <1>8, VisitSized
<1> QED
  BY <1>3, <1>4, <1>5, <1>6, <1>7, <1>8 DEF Visit, Unsized, Sized

-----------------------------------------------------------------------------
(* The preparation.                                                          *)

\* A sum of numbers each of which could be taken M times.
LEMMA OverBounded ==
  ASSUME NEW m \in Nat, NEW M \in Nat, m <= M, M # 0, NEW B \in Nat, B # 0, NEW S,
         NEW f \in [0 .. m - 1 -> Nat], \A k \in 0 .. m - 1 : M * f[k] < B
  PROVE  Over(S, f, m) < B
<1> DEFINE u == [k \in 0 .. m - 1 |-> 1]
           d == B - 1
<1>1. u \in [0 .. m - 1 -> Nat] /\ d \in Nat /\ \A k \in 0 .. m - 1 : u[k] = 1
  OBVIOUS
<1> HIDE DEF u
<1>2. ASSUME NEW k \in 0 .. m - 1
      PROVE  M * f[k] <= u[k] * d
  <2>1. M * f[k] < B /\ M * f[k] \in Nat
    BY Products
  <2>2. u[k] * d = d
    BY <1>1
  <2> QED
    BY <2>1, <2>2
<1> HIDE DEF d
<1>3. M * Over(S, f, m) <= Over(S, u, m) * d
  <2>1. \A k \in 0 .. m - 1 : k \in S => M * f[k] <= u[k] * d
    BY <1>2
  <2> QED
    BY <1>1, <2>1, OverWeighed
<1>4. Over(S, u, m) <= m
  <2>1. \A k \in 0 .. m - 1 : k \in S => u[k] <= 1
    BY <1>1
  <2> QED
    BY <1>1, <2>1, OverOnes
<1>5. Over(S, u, m) \in Nat /\ Over(S, f, m) \in Nat
  BY <1>1, OverType
<1>6. Over(S, u, m) * d <= M * d
  <2>1. Over(S, u, m) <= M
    BY <1>4, <1>5
  <2>2. d * Over(S, u, m) <= d * M
    BY <1>1, <1>5, <2>1, Monotone
  <2> QED
    BY <1>1, <1>5, <2>2, Products
<1>7. M * Over(S, f, m) <= M * d
  <2>1. M * Over(S, f, m) \in Nat /\ Over(S, u, m) * d \in Nat /\ M * d \in Nat
    BY <1>1, <1>5, Products
  <2> QED
    BY <1>3, <1>6, <2>1
<1>8. Over(S, f, m) <= d
  BY <1>1, <1>5, <1>7, Monotone
<1> QED
  BY <1>1, <1>5, <1>8 DEF d

\* The totals that the sweeps start with.
LEMMA FixBalanced ==
  ASSUME Given, Feasible,
         NEW st, st = [k \in 0 .. n |-> (k = n /\ Feasible) \/ (k < n /\ item[k].fixed)],
         NEW sz, sz = [k \in Items |-> IF item[k].fixed THEN item[k].src ELSE 0]
  PROVE  /\ Balanced({}, st, sz, SrcFlexible, FlexibleSpace)
         /\ SrcFlexible \in 0 .. U64 - 1 /\ FlexibleSpace \in 0 .. U64 - 1
         /\ \A k \in Items : sz[k] <= limit
<1> DEFINE F == Unset(st)
           G == Items \ F
<1>1. /\ n \in Nat /\ n <= MaxItems /\ MaxItems \in Nat /\ MaxItems # 0 /\ U64 \in Nat /\ U64 # 0
      /\ Items = 0 .. n - 1 /\ limit \in Nat /\ limit < U64 /\ DstOffset \in Nat /\ DstOffset <= limit
      /\ Space \in Nat /\ Space <= limit
  <2>1. /\ n <= MaxItems /\ MaxItems \in Nat /\ MaxItems # 0 /\ U64 \in Nat /\ U64 # 0
    BY SizeAssumption DEF Given
  <2> QED
    BY <2>1, Givens
<1>2. \A k \in Items : /\ item[k].src \in Nat /\ sources[k] = item[k].src /\ least[k] = MinSize(item[k])
                       /\ least[k] \in Nat /\ item[k].fixed \in BOOLEAN
                       /\ item[k].fixed => least[k] = item[k].src
  BY Givens
<1>3. sources \in [0 .. n - 1 -> Nat] /\ least \in [0 .. n - 1 -> Nat]
  BY Givens
<1>4. \A k \in Items : /\ st[k] \in BOOLEAN /\ (st[k] <=> item[k].fixed)
                       /\ sz[k] = IF item[k].fixed THEN item[k].src ELSE 0
  <2>1. \A k \in Items : k \in 0 .. n /\ k < n /\ k # n
    BY <1>1
  <2> QED
    BY <1>2, <2>1
<1>5. \A k \in Items : /\ k \in F <=> ~item[k].fixed
                       /\ k \in G <=> item[k].fixed
  BY <1>4 DEF Unset
<1>6. F \cup G = Items /\ F \cap G = {} /\ G = Items \ ({} \cup F) /\ {} \cup F = F
  BY DEF Unset
<1>7. sz \in [0 .. n - 1 -> Nat]
  BY <1>1, <1>2
<1> HIDE DEF F, G
<1> DEFINE srcF == Over(F, sources, n)
           srcG == Over(G, sources, n)
           minF == Over(F, least, n)
<1>8. srcF \in Nat /\ srcG \in Nat /\ minF \in Nat
  BY <1>1, <1>3, OverType
<1>9. Over(G, sz, n) = srcG /\ Over(G, least, n) = srcG
  <2>1. \A k \in 0 .. n - 1 : k \in G => sz[k] = sources[k] /\ least[k] = sources[k]
    BY <1>1, <1>2, <1>4, <1>5
  <2> QED
    BY <2>1, OverSame
<1>10. Over(Items, sources, n) = srcF + srcG /\ Over(Items, least, n) = minF + srcG
  <2>1. /\ Over(F \cup G, sources, n) = srcF + srcG
        /\ Over(F \cup G, least, n) = minF + Over(G, least, n)
    <3>1. F \cap G = {} /\ n \in Nat
      BY <1>1, <1>6
    <3> QED
      BY ONLY <1>3, <3>1, OverUnion
  <2> QED
    BY <1>6, <1>9, <2>1
<1>11. SrcFlexible = srcF
  <2>1. [k \in Items |-> IF item[k].fixed THEN 0 ELSE item[k].src] = Part(F, sources, n)
    BY <1>1, <1>2, <1>5 DEF Part
  <2> QED
    BY <2>1 DEF SrcFlexible, Total, Over
<1>12. SrcSize = srcF + srcG
  <2>1. [k \in Items |-> item[k].src] = Part(Items, sources, n)
    BY <1>1, <1>2 DEF Part
  <2> QED
    BY <1>10, <2>1 DEF SrcSize, Total, Over
<1>13. SrcMin = minF + srcG
  <2>1. [k \in Items |-> MinSize(item[k])] = Part(Items, least, n)
    BY <1>1, <1>2 DEF Part
  <2> QED
    BY <1>10, <2>1 DEF SrcMin, Total, Over
<1>14. Wrap(limit - DstOffset) = Space
  <2>1. Space \in 0 .. U64 - 1
    BY <1>1
  <2> QED
    BY <2>1, Wraps DEF Space
<1> HIDE DEF srcF, srcG, minF
<1>15. minF + srcG <= Space
  BY <1>13, <1>14 DEF Feasible, Enough
<1>16. FlexibleSpace = Space - srcG /\ Space - srcG \in 0 .. U64 - 1 /\ Space - srcG \in Nat
  <2>1. Space - srcG \in 0 .. U64 - 1 /\ Space - srcG \in Nat
    BY <1>1, <1>8, <1>15
  <2>2. limit - DstOffset - (SrcSize - SrcFlexible) = Space - srcG
    BY <1>1, <1>8, <1>11, <1>12 DEF Space
  <2> QED
    BY <2>1, <2>2, Wraps DEF FlexibleSpace
<1>17. srcF < U64
  <2>1. \A k \in 0 .. n - 1 : MaxItems * sources[k] < U64
    BY <1>1, <1>2, SizeAssumption DEF Given
  <2> QED
    BY <1>1, <1>3, <2>1, OverBounded DEF srcF
<1>18. Balanced({}, st, sz, SrcFlexible, FlexibleSpace)
  <2>1. Over({}, sz, n) = 0
    BY <1>1, <1>7, OverEmpty
  <2>2. SrcFlexible = Over({} \cup F, sources, n)
    BY <1>6, <1>11 DEF srcF
  <2>3. Space = FlexibleSpace + Over(Items \ ({} \cup F), sz, n)
    BY <1>1, <1>6, <1>8, <1>9, <1>16
  <2>4. Over({}, sz, n) + Over(F, least, n) <= FlexibleSpace
    BY <1>1, <1>8, <1>15, <1>16, <2>1 DEF minF
  <2> QED
    BY <2>2, <2>3, <2>4 DEF Balanced, F
<1>19. ASSUME NEW k \in Items
       PROVE  sz[k] <= limit
  <2>1. CASE item[k].fixed
    <3>1. k \in G /\ k \in 0 .. n - 1 /\ sz[k] \in Nat
      BY <1>1, <1>5, <1>7, <2>1
    <3>2. n \in Nat
      BY <1>1
    <3>3. Over(G, sz, n) = Over(G \ {k}, sz, n) + sz[k]
      BY ONLY <1>7, <3>1, <3>2, OverRemove
    <3>4. Over(G \ {k}, sz, n) \in Nat
      BY ONLY <1>7, <3>2, OverType
    <3>5. sz[k] <= srcG
      BY <1>9, <3>1, <3>3, <3>4
    <3> QED
      BY <1>1, <1>8, <1>15, <3>1, <3>5
  <2>2. CASE ~item[k].fixed
    BY <1>1, <1>4, <2>2
  <2> QED
    BY <2>1, <2>2
<1>20. SrcFlexible \in 0 .. U64 - 1 /\ FlexibleSpace \in 0 .. U64 - 1
  BY <1>1, <1>8, <1>11, <1>16, <1>17
<1> QED
  BY <1>18, <1>19, <1>20

\* A fixed item fits in 64 bits.
LEMMA FixTyped ==
  ASSUME Given, Fix
  PROVE  set' \in [0 .. n -> BOOLEAN] /\ size' \in [Items -> 0 .. U64 - 1]
<1>0. MaxItems \in Nat /\ MaxItems # 0 /\ U64 \in Nat /\ U64 # 0 /\ n \in Nat
  BY SizeAssumption, Givens
<1>1. ASSUME NEW j \in Items
      PROVE  item[j].src \in 0 .. U64 - 1
  <2>1. PICK x \in Nat : x = item[j].src /\ MaxItems * x < U64
    <3>1. item[j] \in ItemSet
      BY DEF Given
    <3> QED
      BY <3>1, SizeAssumption, Givens
  <2>2. x <= MaxItems * x /\ MaxItems * x \in Nat
    <3>1. MaxItems >= 1 /\ 1 \in Int
      BY <1>0
    <3>2. x * 1 <= x * MaxItems
      BY <1>0, <3>1, Monotone
    <3> QED
      BY <1>0, <3>2, Products
  <2> QED
    BY <1>0, <2>1, <2>2
<1>2. \A j \in Items : item[j].fixed \in BOOLEAN
  BY Givens
<1>3. set' \in [0 .. n -> BOOLEAN]
  <2>1. \A k \in 0 .. n : ((k = n /\ Feasible) \/ (k < n /\ item[k].fixed)) \in BOOLEAN
    OBVIOUS
  <2> QED
    BY <2>1 DEF Fix
<1>4. size' \in [Items -> 0 .. U64 - 1]
  <2>1. 0 \in 0 .. U64 - 1
    BY <1>0
  <2> QED
    BY <1>1, <2>1 DEF Fix
<1> QED
  BY <1>3, <1>4

\* The sweeps start with the ends of the disk, the fixed sizes, and the totals.
LEMMA BeginKeeps ==
  ASSUME TypeOK, Starting, Begin
  PROVE  TypeOK' /\ UNCHANGED input /\ result' = "running" /\ Running'
<1> DEFINE st == [k \in 0 .. n |-> (k = n /\ Feasible) \/ (k < n /\ item[k].fixed)]
           sz == [k \in Items |-> IF item[k].fixed THEN item[k].src ELSE 0]
           off == [[k \in 0 .. n |-> 0] EXCEPT ![0] = DstOffset, ![n] = limit]
<1>1. Given /\ Feasible /\ Fix
  BY TypeFacts DEF Begin
<1>2. /\ n \in Nat /\ n >= 1 /\ n < U64 /\ Items = 0 .. n - 1 /\ 0 \in 0 .. n /\ n \in 0 .. n
      /\ limit \in Nat /\ limit < U64 /\ DstOffset \in Nat /\ DstOffset > 0 /\ DstOffset <= limit
      /\ Space \in Nat
  BY <1>1, Givens
<1>3. /\ next_flexible \in 0 .. n /\ ii = 0 /\ changed = FALSE
  BY TypeFacts DEF Starting
<1>4. /\ offset' = off /\ set' = st /\ size' = sz
      /\ src_flexible' = SrcFlexible /\ dst_flexible' = FlexibleSpace /\ remain_to_set' = n
      /\ round' \in {0, 1} /\ result' = "running"
      /\ UNCHANGED <<input, next_flexible, ii, changed>>
  BY DEF Begin, Fix, Starting
<1>5. /\ Balanced({}, st, sz, SrcFlexible, FlexibleSpace)
      /\ SrcFlexible \in 0 .. U64 - 1 /\ FlexibleSpace \in 0 .. U64 - 1
      /\ \A k \in Items : sz[k] <= limit
  BY <1>1, FixBalanced
<1>6. \A k \in Items : /\ item[k].fixed => least[k] = item[k].src
                       /\ st[k] <=> item[k].fixed
                       /\ item[k].fixed => sz[k] = item[k].src
                       /\ item[k].src \in Nat
  <2>1. \A k \in Items : k \in 0 .. n /\ k < n /\ k # n
    BY <1>2
  <2>2. \A k \in Items : item[k].fixed \in BOOLEAN
    BY <1>1, Givens
  <2> QED
    BY <1>1, <2>1, <2>2, Givens
<1>7. /\ off[0] = DstOffset /\ off[n] = limit
      /\ \A k \in 0 .. n : k # 0 /\ k # n => off[k] = 0
      /\ off \in [0 .. n -> 0 .. U64 - 1]
  <2>1. 0 \in 0 .. U64 - 1 /\ DstOffset \in 0 .. U64 - 1 /\ limit \in 0 .. U64 - 1 /\ n # 0
    BY <1>1, <1>2, SizeAssumption
  <2>2. off = [k \in 0 .. n |-> IF k = n THEN limit ELSE IF k = 0 THEN DstOffset ELSE 0]
    BY <1>2, <2>1
  <2> HIDE DEF off
  <2> QED
    BY <1>2, <2>1, <2>2
<1>8. sz \in [0 .. n - 1 -> Nat]
  BY <1>2, <1>6
<1> HIDE DEF st, sz, off
<1>9. Valid(st, sz)
  BY <1>6 DEF Valid
<1>10. Shape(0, n, st, sz, off, n)
  <2>1. Done(0, n) = {}
    BY <1>2 DEF Done
  <2>2. Over(Done(0, n), sz, n) = 0
    BY <1>2, <1>8, <2>1, OverEmpty
  <2>3. off[n] - off[0] = Space - 0
    BY <1>2, <1>7 DEF Space
  <2>4. \A k \in 0 .. n : off[k] # 0 <=> (k <= 0 \/ k >= n)
    BY <1>2, <1>7
  <2>5. \A j, k \in 0 .. n : j < k /\ off[j] # 0 /\ off[k] # 0 => off[j] <= off[k]
    <3> SUFFICES ASSUME NEW j \in 0 .. n, NEW k \in 0 .. n, j < k, off[j] # 0, off[k] # 0
                 PROVE  off[j] <= off[k]
      OBVIOUS
    <3>1. j = 0 /\ k = n
      BY <1>2, <1>7
    <3> QED
      BY <1>2, <1>7, <3>1
  <2>6. n = n - 0
    BY <1>2
  <2> QED
    BY <1>7, <2>1, <2>2, <2>3, <2>4, <2>5, <2>6 DEF Shape
<1>11. Priced({}, st, sz, SrcFlexible, FlexibleSpace)
  BY DEF Priced
<1>12. Estimated(st, sz, SrcFlexible, FlexibleSpace, 0)
  BY <1>2 DEF Estimated
<1>13. TypeOK'
  <2>1. set' \in [0 .. n -> BOOLEAN] /\ size' \in [Items -> 0 .. U64 - 1]
    BY <1>1, FixTyped
  <2>2. \A j \in Items : size'[j] <= limit
    BY <1>4, <1>5
  <2>3. /\ offset' \in [0 .. n -> 0 .. U64 - 1] /\ src_flexible' \in 0 .. U64 - 1
        /\ dst_flexible' \in 0 .. U64 - 1
    BY <1>4, <1>5, <1>7
  <2>4. remain_to_set' \in 0 .. U64 - 1 /\ round' \in Nat
    BY <1>2, <1>4, SizeAssumption
  <2>5. /\ next_flexible' \in 0 .. n /\ ii' \in 0 .. n /\ changed' \in BOOLEAN
        /\ result' \in {"start", "running", "true", "false", "throw"}
    BY <1>2, <1>3, <1>4
  <2> QED
    BY <1>4, <2>1, <2>2, <2>3, <2>4, <2>5, TypeNext
<1>14. Running'
  <2>0. PICK a \in 0 .. n : a = 0
    BY <1>2
  <2>1. PICK Z : Z = {}
    OBVIOUS
  <2>2. /\ Shape(a, n, set', size', offset', remain_to_set') /\ a < n
        /\ Balanced(Z, set', size', src_flexible', dst_flexible')
        /\ Priced(Z, set', size', src_flexible', dst_flexible')
        /\ Estimated(set', size', src_flexible', dst_flexible', ii') /\ Valid(set', size')
    BY <1>2, <1>3, <1>4, <1>5, <1>9, <1>10, <1>11, <1>12, <2>0, <2>1
  <2> QED
    BY <1>2, <1>4, <2>2, RunningNext
<1> QED
  BY <1>4, <1>13, <1>14

\* A disk that is refused at once.
LEMMA RejectKeeps ==
  ASSUME TypeOK, Reject
  PROVE  TypeOK' /\ UNCHANGED input /\ result' = "false"
<1>1. /\ Given /\ ii \in 0 .. n /\ next_flexible \in 0 .. n
      /\ offset \in [0 .. n -> 0 .. U64 - 1]
      /\ src_flexible \in 0 .. U64 - 1 /\ dst_flexible \in 0 .. U64 - 1
      /\ remain_to_set \in 0 .. U64 - 1 /\ changed \in BOOLEAN /\ round \in Nat
  BY TypeFacts
<1>2. /\ UNCHANGED <<input, offset, src_flexible, dst_flexible, remain_to_set>>
      /\ UNCHANGED <<changed, round, next_flexible, ii>> /\ result' = "false" /\ Fix
  BY DEF Reject, totals, sweep
<1>3. set' \in [0 .. n -> BOOLEAN] /\ size' \in [Items -> 0 .. U64 - 1]
  BY <1>1, <1>2, FixTyped
<1>4. result' # "running" /\ result' \in {"start", "running", "true", "false", "throw"}
  BY <1>2
<1>5. TypeOK'
  BY <1>1, <1>2, <1>3, <1>4, TypeNext
<1> QED
  BY <1>2, <1>5

-----------------------------------------------------------------------------
(* The end of a sweep.                                                       *)

\* When nothing is left to place, the items tile the destination.
LEMMA SettledLayout ==
  ASSUME TypeOK, Running, remain_to_set = 0
  PROVE  /\ offset[0] = DstOffset /\ offset[n] = limit
         /\ \A k \in Items : /\ offset[k + 1] = offset[k] + size[k]
                             /\ size[k] >= MinSize(item[k])
                             /\ item[k].fixed => size[k] = item[k].src
<1>1. Given /\ n \in Nat /\ Items = 0 .. n - 1
      /\ \A k \in Items : least[k] = MinSize(item[k])
  <2>1. Given
    BY TypeFacts
  <2> QED
    BY <2>1, Givens
<1>2. PICK a \in 0 .. n, b \in 0 .. n : a < b /\ Shape(a, b, set, size, offset, remain_to_set)
  BY DEF Running
<1>3. remain_to_set # b - a
  BY <1>1, <1>2
<1>4. b = a + 1 /\ set[a] /\ offset[b] = offset[a] + size[a]
  BY <1>2, <1>3 DEF Shape
<1>5. ASSUME NEW k \in Items
      PROVE  set[k] /\ offset[k + 1] = offset[k] + size[k]
  <2>1. CASE k = a
    BY <1>4, <2>1
  <2>2. CASE k # a
    <3>1. k \in Done(a, b)
      BY <1>1, <1>4, <2>2 DEF Done
    <3> QED
      BY <1>2, <3>1 DEF Shape
  <2> QED
    BY <2>1, <2>2
<1>6. \A k \in Items : set[k] => size[k] >= least[k] /\ (item[k].fixed => size[k] = item[k].src)
  BY DEF Running, Valid
<1> QED
  BY <1>1, <1>2, <1>5, <1>6 DEF Shape

\* Otherwise the next sweep starts, perhaps with one more item frozen.
LEMMA NextSweep ==
  ASSUME TypeOK, result = "running", Running, ii = n, remain_to_set # 0
  PROVE  /\ Freeze \in [0 .. n -> BOOLEAN] /\ Valid(Freeze, size)
         /\ \E a, b \in 0 .. n : a < b /\ Shape(a, b, Freeze, size, offset, remain_to_set)
         /\ \E Z : /\ Balanced(Z, Freeze, size, src_flexible, dst_flexible)
                   /\ Priced(Z, Freeze, size, src_flexible, dst_flexible)
<1> DEFINE u == next_flexible
<1>1. /\ Given /\ SizesTyped /\ set \in [0 .. n -> BOOLEAN] /\ u \in 0 .. n
  BY TypeFacts
<1>2. n \in Nat /\ Items = 0 .. n - 1 /\ Items \subseteq 0 .. n
  BY <1>1, Givens
<1>3. PICK a \in 0 .. n, b \in 0 .. n : a < b /\ Shape(a, b, set, size, offset, remain_to_set)
  BY DEF Running
<1>4. PICK Z : /\ Balanced(Z, set, size, src_flexible, dst_flexible)
               /\ Priced(Z, set, size, src_flexible, dst_flexible)
  BY DEF Running
<1>5. Valid(set, size) /\ (~changed => Estimated(set, size, src_flexible, dst_flexible, n))
  BY DEF Running
<1>6. CASE Freeze = set
  BY <1>1, <1>3, <1>4, <1>5, <1>6
<1>7. CASE Freeze # set
  <2> DEFINE st == [set EXCEPT ![u] = TRUE]
  <2>1. Freeze = st /\ ~changed /\ u < n
    BY <1>7 DEF Freeze
  <2>2. u \in Items /\ ~set[u]
    BY <1>1, <1>2, <1>7, <2>1
  <2>3. /\ Balanced(Z \cup {u}, st, size, src_flexible, dst_flexible)
        /\ Priced(Z \cup {u}, st, size, src_flexible, dst_flexible)
    BY <1>1, <1>4, <1>5, <2>1, <2>2, FreezeKeeps
  <2>4. st \in [0 .. n -> BOOLEAN] /\ st[u] /\ \A k \in Items : k # u => st[k] = set[k]
    BY <1>1, <1>2
  <2> HIDE DEF st
  <2>5. Valid(st, size)
    <3>1. \A j \in Items : /\ item[j].fixed => set[j]
                           /\ set[j] => size[j] >= least[j] /\ (item[j].fixed => size[j] = item[j].src)
      BY <1>5 DEF Valid
    <3>2. size[u] >= least[u]
      <4>1. u < n
        BY <2>1
      <4> QED
        BY <1>5, <2>1, <2>2, <4>1 DEF Estimated
    <3> QED
      BY <2>2, <2>4, <3>1, <3>2 DEF Valid
  <2>6. Shape(a, b, st, size, offset, remain_to_set)
    <3>1. \A k \in Done(a, b) : st[k] /\ offset[k + 1] = offset[k] + size[k]
      <4>1. \A k \in Done(a, b) : set[k] /\ offset[k + 1] = offset[k] + size[k]
        BY <1>3 DEF Shape
      <4>2. Done(a, b) \subseteq Items
        BY DEF Done
      <4> QED
        BY <2>2, <2>4, <4>1, <4>2
    <3>2. remain_to_set = b - a
      BY <1>3 DEF Shape
    <3> QED
      BY <1>3, <3>1, <3>2 DEF Shape
  <2> QED
    BY <1>3, <2>1, <2>3, <2>4, <2>5, <2>6
<1> QED
  BY <1>6, <1>7

\* Both ways a sweep ends.
LEMMA EndSweepKeeps ==
  ASSUME TypeOK, Running, EndSweep
  PROVE  /\ TypeOK' /\ UNCHANGED input /\ result' \in {"running", "true", "false"}
         /\ result' = "running" => Running'
         /\ LayoutCorrect'
<1>1. /\ Given /\ ii \in 0 .. n /\ next_flexible \in 0 .. n /\ n \in 0 .. n /\ 0 \in 0 .. n
      /\ set \in [0 .. n -> BOOLEAN] /\ size \in [Items -> 0 .. U64 - 1]
      /\ offset \in [0 .. n -> 0 .. U64 - 1]
      /\ src_flexible \in 0 .. U64 - 1 /\ dst_flexible \in 0 .. U64 - 1
      /\ remain_to_set \in 0 .. U64 - 1 /\ changed \in BOOLEAN /\ round \in Nat
  <2>1. Given
    BY TypeFacts
  <2> QED
    BY <2>1, TypeFacts, Givens
<1>2. /\ result = "running" /\ ii = n
      /\ UNCHANGED <<input, offset, size, src_flexible, dst_flexible, remain_to_set>>
  BY DEF EndSweep, totals
<1>3. \A j \in Items : size[j] <= limit
  BY <1>2 DEF TypeOK
<1>4. CASE remain_to_set = 0 /\ result' = "true" /\ UNCHANGED <<set, sweep>>
  <2>1. UNCHANGED <<changed, round, next_flexible, ii>> /\ set' = set /\ result' = "true"
    BY <1>4 DEF sweep
  <2>2. TypeOK'
    <3>1. result' # "running" /\ result' \in {"start", "running", "true", "false", "throw"}
      BY <2>1
    <3> QED
      BY <1>1, <1>2, <2>1, <3>1, TypeNext
  <2>3. LayoutCorrect'
    <3>1. n' = n /\ item' = item /\ limit' = limit /\ Items' = Items
      BY <1>2 DEF input, Items
    <3> QED
      BY <1>2, <1>4, <3>1, SettledLayout DEF LayoutCorrect, MinSize
  <2> QED
    BY <1>2, <2>1, <2>2, <2>3
<1>5. CASE /\ remain_to_set # 0
           /\ set' = Freeze
           /\ round' = IF build.counted THEN round + 1 ELSE round
           /\ IF round' > 10 * n
                THEN result' = "false" /\ UNCHANGED <<ii, changed>>
                ELSE ii' = 0 /\ changed' = FALSE /\ UNCHANGED result
           /\ UNCHANGED next_flexible
  <2>1. Freeze \in [0 .. n -> BOOLEAN] /\ Valid(Freeze, size)
    BY <1>2, <1>5, NextSweep
  <2>2. PICK a \in 0 .. n, b \in 0 .. n :
          a < b /\ Shape(a, b, Freeze, size, offset, remain_to_set)
    BY <1>2, <1>5, NextSweep
  <2>3. PICK Z : /\ Balanced(Z, Freeze, size, src_flexible, dst_flexible)
                 /\ Priced(Z, Freeze, size, src_flexible, dst_flexible)
    BY <1>2, <1>5, NextSweep
  <2>4. round' \in Nat /\ result' \in {"running", "false"} /\ ii' \in 0 .. n /\ changed' \in BOOLEAN
    <3>1. round' \in {round, round + 1} /\ round + 1 \in Nat
      BY <1>1, <1>5
    <3>2. \/ result' = "false" /\ ii' = ii /\ changed' = changed
          \/ ii' = 0 /\ changed' = FALSE /\ result' = result
      BY <1>5
    <3>3. result' \in {"running", "false"}
      BY <1>2, <3>2
    <3>4. ii' \in 0 .. n /\ changed' \in BOOLEAN
      BY <1>1, <3>2
    <3> QED
      BY <1>1, <3>1, <3>3, <3>4
  <2>5. TypeOK'
    <3>1. set' \in [0 .. n -> BOOLEAN] /\ \A j \in Items : size'[j] <= limit
      BY <1>2, <1>3, <1>5, <2>1
    <3>2. /\ size' \in [Items -> 0 .. U64 - 1] /\ offset' \in [0 .. n -> 0 .. U64 - 1]
          /\ src_flexible' \in 0 .. U64 - 1 /\ dst_flexible' \in 0 .. U64 - 1
          /\ remain_to_set' \in 0 .. U64 - 1 /\ next_flexible' \in 0 .. n
          /\ result' \in {"start", "running", "true", "false", "throw"}
      BY <1>1, <1>2, <1>5, <2>4
    <3> QED
      BY <1>2, <2>4, <3>1, <3>2, TypeNext
  <2>6. ASSUME result' = "running"
        PROVE  Running'
    <3>1. ii' = 0 /\ set' = Freeze
      BY <1>5, <2>6
    <3>2. Estimated(set', size', src_flexible', dst_flexible', ii')
      <4>1. \A k \in Items : ~(k < 0)
        BY <1>1, Givens
      <4> QED
        BY <3>1, <4>1 DEF Estimated
    <3>3. /\ Shape(a, b, set', size', offset', remain_to_set') /\ Valid(set', size')
          /\ Balanced(Z, set', size', src_flexible', dst_flexible')
          /\ Priced(Z, set', size', src_flexible', dst_flexible')
      BY <1>2, <2>1, <2>2, <2>3, <3>1
    <3> QED
      BY <1>2, <2>2, <3>2, <3>3, RunningNext
  <2>7. LayoutCorrect'
    BY <2>4 DEF LayoutCorrect
  <2> QED
    BY <1>2, <2>4, <2>5, <2>6, <2>7
<1> QED
  BY <1>4, <1>5 DEF EndSweep

-----------------------------------------------------------------------------
(* The theorems.                                                             *)

\* The invariant holds at the start, ...
LEMMA InitHolds == Init => IInv
<1> SUFFICES ASSUME Init
             PROVE  IInv
  OBVIOUS
<1>1. /\ n \in 1 .. MaxItems /\ limit \in DstSizes /\ build \in Builds /\ Items = 0 .. n - 1
      /\ n \in Nat /\ 0 \in 0 .. n /\ U64 \in Nat /\ 0 \in 0 .. U64 - 1
  BY SizeAssumption DEF Init, Items
<1>2. /\ set \in [0 .. n -> BOOLEAN] /\ offset \in [0 .. n -> 0 .. U64 - 1]
      /\ size \in [Items -> 0 .. U64 - 1] /\ item \in [Items -> ItemSet]
  BY <1>1 DEF Init
<1>3. /\ {src_flexible, dst_flexible, remain_to_set} \subseteq 0 .. U64 - 1
      /\ next_flexible \in 0 .. n /\ ii \in 0 .. n /\ changed \in BOOLEAN /\ round \in Nat
      /\ result = "start"
  BY <1>1 DEF Init
<1>4. TypeOK
  BY <1>1, <1>2, <1>3 DEF TypeOK
<1>5. Starting
  BY DEF Init, Starting
<1> QED
  BY <1>3, <1>4, <1>5 DEF IInv, LayoutCorrect

\* ... every step keeps it, ...
LEMMA NextKeeps == IInv /\ [Next]_vars => IInv'
<1> SUFFICES ASSUME IInv, [Next]_vars
             PROVE  IInv'
  OBVIOUS
<1>0. /\ TypeOK /\ LayoutCorrect
      /\ result = "start" => Starting
      /\ result = "running" => Running
  BY DEF IInv
<1>a. ASSUME TypeOK', result' \in {"running", "false", "throw"}, result' = "running" => Running'
      PROVE  IInv'
  <2>1. result' # "start" /\ result' # "true"
    BY <1>a
  <2> QED
    BY <1>a, <2>1 DEF IInv, LayoutCorrect
<1>1. CASE Begin
  <2>1. Starting
    BY <1>0, <1>1 DEF Begin
  <2> QED
    BY <1>0, <1>1, <1>a, <2>1, BeginKeeps
<1>2. CASE Reject
  <2>1. TypeOK' /\ result' = "false"
    BY <1>0, <1>2, RejectKeeps
  <2> QED
    BY <1>a, <2>1
<1>3. CASE Visit
  <2>1. Running
    BY <1>0, <1>3 DEF Visit
  <2> QED
    BY <1>0, <1>3, <1>a, <2>1, VisitKeeps
<1>4. CASE EndSweep
  <2>1. Running
    BY <1>0, <1>4 DEF EndSweep
  <2>2. /\ TypeOK' /\ LayoutCorrect' /\ result' \in {"running", "true", "false"}
        /\ result' = "running" => Running'
    BY <1>0, <1>4, <2>1, EndSweepKeeps
  <2>3. result' # "start"
    BY <2>2
  <2> QED
    BY <2>2, <2>3 DEF IInv
<1>5. CASE UNCHANGED vars
  <2>1. /\ UNCHANGED <<build, n, limit, item, set, offset, size>>
        /\ UNCHANGED <<src_flexible, dst_flexible, remain_to_set>>
        /\ UNCHANGED <<next_flexible, ii, changed, round, result>>
    BY <1>5 DEF vars, input, layout, totals, sweep
  <2>2. Items' = Items /\ Space' = Space /\ least' = least /\ sources' = sources
        /\ Unset(set)' = Unset(set)
    BY <2>1 DEF Items, Space, least, sources, Unset, MinSize
  <2>3. TypeOK'
    BY <1>0, <2>1, <2>2 DEF TypeOK
  <2>4. LayoutCorrect'
    BY <1>0, <2>1, <2>2 DEF LayoutCorrect, MinSize
  <2>5. result' = "start" => Starting'
    BY <1>0, <2>1 DEF Starting
  <2>6. ASSUME Running
        PROVE  Running'
    <3>1. PICK a \in 0 .. n, b \in 0 .. n : a < b /\ Shape(a, b, set, size, offset, remain_to_set)
      BY <2>6 DEF Running
    <3>2. PICK Z : /\ Balanced(Z, set, size, src_flexible, dst_flexible)
                   /\ remain_to_set # 0 => Priced(Z, set, size, src_flexible, dst_flexible)
      BY <2>6 DEF Running
    <3>3. /\ Valid(set, size)
          /\ ~changed => Estimated(set, size, src_flexible, dst_flexible, ii)
      BY <2>6 DEF Running
    <3>4. UNCHANGED input
      BY <2>1 DEF input
    <3> QED
      BY <2>1, <3>1, <3>2, <3>3, <3>4, RunningNext
  <2> QED
    BY <1>0, <2>1, <2>3, <2>4, <2>5, <2>6 DEF IInv
<1>6. CASE Stop
  BY <1>5, <1>6 DEF Stop
<1> QED
  BY <1>1, <1>2, <1>3, <1>4, <1>5, <1>6 DEF Next

\* ... so it always holds.
LEMMA InvHolds == Spec => []IInv
  BY InitHolds, NextKeeps, PTL DEF Spec

\* The variables keep their types, no subtraction of 64-bit totals wraps
\* around, and while the sweeps run no estimated, raised or settled size is
\* larger than the disk: for any number of partitions, with exact estimates of any
\* size, and with floats where they cannot be off by a MB.
THEOREM TypeCorrect == Spec => []TypeOK
  BY InvHolds, PTL DEF IInv

\* When PartitionAssign returns true the partitions tile the destination from
\* the MSR to its end, none smaller than its data and the fixed ones as large
\* as they were.
THEOREM Layout == Spec => []LayoutCorrect
  BY InvHolds, PTL DEF IInv

\* While the sweeps run, what they have placed lies inside the destination in
\* the order of the partitions, and the space left is no more than the disk.
THEOREM InOrder == Spec => []PlacedInOrder
<1>1. IInv => PlacedInOrder
  <2> SUFFICES ASSUME IInv, result = "running"
               PROVE  /\ dst_flexible <= limit
                      /\ \A k \in 0 .. n : offset[k] # 0 => offset[k] \in DstOffset .. limit
                      /\ \A j, k \in 0 .. n : (j < k /\ offset[j] # 0 /\ offset[k] # 0)
                                                => offset[j] <= offset[k]
    BY DEF PlacedInOrder
  <2>1. TypeOK /\ Running
    BY DEF IInv
  <2>2. Given /\ offset \in [0 .. n -> Nat] /\ size \in [Items -> Nat] /\ dst_flexible \in Nat
    BY <2>1, TypeFacts DEF SizesTyped
  <2>3. /\ n \in Nat /\ 0 \in 0 .. n /\ n \in 0 .. n /\ n >= 1 /\ limit \in Nat /\ Space \in Nat
        /\ Space <= limit /\ DstOffset \in Nat /\ DstOffset > 0 /\ DstOffset <= limit
    BY <2>2, Givens
  <2>4. PICK a \in 0 .. n, b \in 0 .. n : Shape(a, b, set, size, offset, remain_to_set)
    BY <2>1 DEF Running
  <2>5. PICK Z : Balanced(Z, set, size, src_flexible, dst_flexible)
    BY <2>1 DEF Running
  <2>6. dst_flexible <= Space
    BY <2>2, <2>5, SetFits
  <2>7. /\ offset[0] = DstOffset /\ offset[n] = limit
        /\ \A j, k \in 0 .. n : j < k /\ offset[j] # 0 /\ offset[k] # 0 => offset[j] <= offset[k]
    BY <2>4 DEF Shape
  <2>8. ASSUME NEW k \in 0 .. n, offset[k] # 0
        PROVE  offset[k] \in DstOffset .. limit
    <3>1. offset[k] \in Nat /\ (k = 0 \/ 0 < k) /\ (k = n \/ k < n)
      BY <2>2, <2>3
    <3>2. offset[0] # 0 /\ offset[n] # 0
      BY <2>3, <2>7
    <3>3. DstOffset <= offset[k]
      BY <2>3, <2>7, <2>8, <3>1, <3>2
    <3>4. offset[k] <= limit
      BY <2>3, <2>7, <2>8, <3>1, <3>2
    <3> QED
      BY <2>3, <3>1, <3>3, <3>4
  <2> QED
    BY <2>2, <2>3, <2>6, <2>7, <2>8
<1> QED
  BY <1>1, InvHolds, PTL

-----------------------------------------------------------------------------
(* Exact estimates: every sweep settles or freezes an item, and one item is  *)
(* always left to take the last gap.                                         *)

ones == [k \in Items |-> 1]

\* A visit finds nothing to do: no end of an item with a size is known, or not
\* both ends of one without.
Waiting(k) == IF set[k] THEN offset[k] = 0 /\ offset[k + 1] = 0
                        ELSE offset[k] = 0 \/ offset[k + 1] = 0

\* The items before next_flexible are settled, and it is not, once a sweep that
\* has changed nothing has passed it; such a sweep has left the others waiting.
Advance ==
  /\ \A k \in Items : k < next_flexible => Settled(k)
  /\ ~changed => /\ next_flexible < ii => ~Settled(next_flexible)
                 /\ \A k \in Items : k < ii => Settled(k) \/ Waiting(k)

\* Each sweep but the running one has placed an item or given one its size.
Unplaced == Over(Unset(set), ones, n)
Budget == round + remain_to_set + Unplaced <= 2 * n + (IF changed THEN 0 ELSE 1)

\* Either no sweep has frozen an item, or no minimum asks for more than its share.
Exact(st, sf, df) ==
  \/ sf = Over(Unset(st), sources, n)
  \/ \A k \in Unset(st) : sf * least[k] <= sources[k] * df

\* In a sweep without a change all estimates are at most their shares.
Shares(st, sz, sf, df, i) == \A k \in Unset(st) : k < i => sf * sz[k] <= sources[k] * df

Progress ==
  /\ Advance /\ Budget
  /\ remain_to_set # 0 => Unset(set) # {} /\ Exact(set, src_flexible, dst_flexible)
  /\ ~changed => Shares(set, size, src_flexible, dst_flexible, ii)

\* A quotient is at least what the product has room for.
LEMMA ShareFits ==
  ASSUME NEW p \in Nat, NEW sf \in Nat, sf > 0, NEW m \in Nat, sf * m <= p
  PROVE  m <= p \div sf
<1> DEFINE x == p \div sf
           r == p % sf
<1>1. x \in Int /\ r \in Int
  OBVIOUS
<1>2. p = sf * x + r /\ r < sf
  <2>1. x = p \div sf /\ r = p % sf
    OBVIOUS
  <2> HIDE DEF x, r
  <2> QED
    BY ONLY p \in Nat, sf \in Nat, sf > 0, <1>1, <2>1, Divides
<1> HIDE DEF x, r
<1>3. sf * (x + 1) = sf * x + sf /\ sf * x \in Int /\ sf * m \in Int
  BY <1>1
<1>4. sf * m < sf * (x + 1)
  BY <1>1, <1>2, <1>3
<1>5. m < x + 1
  <2>1. x + 1 \in Int /\ m \in Int /\ sf # 0
    BY <1>1
  <2> QED
    BY <1>4, <2>1, Monotone
<1> QED
  BY <1>1, <1>5 DEF x

\* The last item without a size has the share it needs.
LEMMA LastShares ==
  ASSUME Given, SizesTyped, NEW k \in Items, Unset(set) = {k}, NEW Z,
         Balanced(Z, set, size, src_flexible, dst_flexible),
         Exact(set, src_flexible, dst_flexible)
  PROVE  src_flexible * least[k] <= sources[k] * dst_flexible
<1>1. /\ n \in Nat /\ Items = 0 .. n - 1 /\ sources[k] \in Nat /\ least[k] \in Nat
      /\ sources \in [0 .. n - 1 -> Nat] /\ least \in [0 .. n - 1 -> Nat]
  BY Givens
<1>2. size \in [0 .. n - 1 -> Nat] /\ src_flexible \in Nat /\ dst_flexible \in Nat
  BY <1>1 DEF SizesTyped
<1>3. CASE src_flexible = Over(Unset(set), sources, n)
  <2>1. k \in 0 .. n - 1
    BY <1>1
  <2>2. src_flexible = sources[k]
    <3>1. Over({k}, sources, n) = sources[k]
      BY ONLY <1>1, <2>1, OverOne
    <3> QED
      BY <1>3, <3>1
  <2>3. least[k] <= dst_flexible
    <3>1. Over({k}, least, n) = least[k]
      BY ONLY <1>1, <2>1, OverOne
    <3>2. Over(Z, size, n) \in Nat
      BY ONLY <1>1, <1>2, OverType
    <3>3. Over(Z, size, n) + Over({k}, least, n) <= dst_flexible
      BY DEF Balanced
    <3> QED
      BY ONLY <1>1, <1>2, <3>1, <3>2, <3>3
  <2>4. sources[k] * least[k] <= sources[k] * dst_flexible
    <3>1. sources[k] \in Nat /\ least[k] \in Int /\ dst_flexible \in Int
      BY <1>1, <1>2
    <3> QED
      BY ONLY <2>3, <3>1, Monotone
  <2> QED
    BY <2>2, <2>4
<1>4. CASE \A j \in Unset(set) : src_flexible * least[j] <= sources[j] * dst_flexible
  BY <1>4
<1> QED
  BY <1>3, <1>4 DEF Exact

\* An exact estimate is the quotient: an item that has the share it needs is
\* not raised.
LEMMA ExactFits ==
  ASSUME Given, SizesTyped, NEW k \in Items, ~build.rounded, src_flexible # 0,
         NEW e \in Estimates(k)
  PROVE  /\ src_flexible * least[k] <= sources[k] * dst_flexible => e >= least[k]
         /\ e \in Nat /\ src_flexible * e <= sources[k] * dst_flexible
<1> DEFINE p == sources[k] * dst_flexible
           x == p \div src_flexible
           r == p % src_flexible
<1>1. sources[k] \in Nat /\ least[k] \in Nat /\ sources[k] = item[k].src
  BY Givens
<1>2. src_flexible \in Nat /\ dst_flexible \in Nat /\ src_flexible > 0
  BY DEF SizesTyped
<1>3. p \in Nat
  BY ONLY <1>1, <1>2, Products
<1>4. e = x
  BY <1>1 DEF Estimates
<1>5. p = src_flexible * x + r /\ 0 <= r /\ r < src_flexible /\ x \in Int /\ r \in Int
  <2>1. x \in Int /\ r \in Int
    BY <1>2, <1>3
  <2>2. x = p \div src_flexible /\ r = p % src_flexible
    OBVIOUS
  <2> HIDE DEF x, r, p
  <2> QED
    BY ONLY <1>2, <1>3, <2>1, <2>2, Divides
<1> HIDE DEF r
<1>6. src_flexible * least[k] <= p => least[k] <= x
  <2> HIDE DEF p
  <2> QED
    BY ONLY <1>1, <1>2, <1>3, ShareFits DEF x
<1>7. x \in Nat
  <2>1. src_flexible * 0 <= p
    BY <1>2, <1>3
  <2> HIDE DEF p
  <2>2. 0 <= x
    BY ONLY <1>2, <1>3, <2>1, ShareFits DEF x
  <2> QED
    BY <1>5, <2>2
<1> HIDE DEF x
<1>8. src_flexible * x <= p
  <2> HIDE DEF p
  <2>1. src_flexible * x \in Int
    BY <1>2, <1>5
  <2> QED
    BY ONLY <1>3, <1>5, <2>1
<1> QED
  BY <1>1, <1>4, <1>6, <1>7, <1>8

-----------------------------------------------------------------------------
(* One visit.                                                                *)

\* Giving item k its size takes it from those without one.
LEMMA UnsetWithout ==
  ASSUME Given, set \in [0 .. n -> BOOLEAN], NEW k \in Items, NEW fr \in BOOLEAN, set[k] => fr
  PROVE  /\ ~fr \/ set[k] => [set EXCEPT ![k] = fr] = set
         /\ fr => Unset([set EXCEPT ![k] = fr]) = Unset(set) \ {k}
         /\ Over(Unset([set EXCEPT ![k] = fr]), ones, n) \in Nat
         /\ Unplaced \in Nat
         /\ fr /\ ~set[k] => Over(Unset([set EXCEPT ![k] = fr]), ones, n) = Unplaced - 1
         /\ ~fr \/ set[k] => Over(Unset([set EXCEPT ![k] = fr]), ones, n) = Unplaced
<1> DEFINE st == [set EXCEPT ![k] = fr]
<1>1. n \in Nat /\ Items = 0 .. n - 1 /\ Items \subseteq 0 .. n
  BY Givens
<1>2. k \in 0 .. n - 1 /\ ones \in [0 .. n - 1 -> Nat] /\ ones[k] = 1
  BY <1>1 DEF ones
<1>3. st \in [0 .. n -> BOOLEAN] /\ st[k] = fr /\ \A j \in 0 .. n : j # k => st[j] = set[j]
  BY <1>1
<1> HIDE DEF st
<1>4. ~fr \/ set[k] => st = set
  BY <1>1, <1>3
<1>5. fr => Unset(st) = Unset(set) \ {k}
  BY <1>1, <1>3 DEF Unset
<1>6. Over(Unset(st), ones, n) \in Nat /\ Unplaced \in Nat
  BY ONLY <1>1, <1>2, OverType DEF Unplaced
<1>7. ~set[k] => Unplaced = Over(Unset(set) \ {k}, ones, n) + 1
  <2> SUFFICES ASSUME ~set[k]
               PROVE  Unplaced = Over(Unset(set) \ {k}, ones, n) + 1
    OBVIOUS
  <2>1. k \in Unset(set)
    BY DEF Unset
  <2>2. Unplaced = Over(Unset(set) \ {k}, ones, n) + ones[k]
    BY ONLY <1>1, <1>2, <2>1, OverRemove DEF Unplaced
  <2> QED
    BY <1>2, <2>2
<1>8. fr /\ ~set[k] => Over(Unset(st), ones, n) = Unplaced - 1
  BY ONLY <1>5, <1>6, <1>7
<1>9. ~fr \/ set[k] => Over(Unset(st), ones, n) = Unplaced
  BY <1>4 DEF Unplaced
<1> QED
  BY <1>4, <1>5, <1>6, <1>8, <1>9 DEF st

\* A visit that has something to do places the item or gives it its size.
LEMMA BudgetNext ==
  ASSUME TypeOK, Budget, UNCHANGED <<input, round>>, NEW k \in Items, NEW fr \in BOOLEAN, set[k] => fr,
         set' = [set EXCEPT ![k] = fr], changed' \in BOOLEAN, changed => changed',
         remain_to_set' \in Nat,
         remain_to_set' <= remain_to_set,
         changed' /\ ~changed => remain_to_set' < remain_to_set \/ (fr /\ ~set[k])
  PROVE  Budget'
<1>0. /\ remain_to_set' \in Nat /\ remain_to_set' <= remain_to_set
      /\ changed' /\ ~changed => remain_to_set' < remain_to_set \/ (fr /\ ~set[k])
  OBVIOUS
<1>1. /\ Given /\ set \in [0 .. n -> BOOLEAN] /\ remain_to_set \in Nat /\ round \in Nat
      /\ changed \in BOOLEAN
  BY TypeFacts, SizeAssumption
<1>2. n \in Nat
  BY <1>1, Givens
<1>3. n' = n /\ Items' = Items /\ round' = round
  BY DEF input, Items
<1>4. Unplaced' = Over(Unset(set'), ones, n)
  BY <1>3 DEF Unplaced, Unset, ones
<1> DEFINE left == Over(Unset(set'), ones, n)
<1>5. /\ left \in Nat /\ Unplaced \in Nat
      /\ fr /\ ~set[k] => left = Unplaced - 1
      /\ ~fr \/ set[k] => left = Unplaced
  BY <1>1, <1>4, UnsetWithout
<1>6. left <= Unplaced /\ (fr /\ ~set[k] => left < Unplaced)
  BY <1>5
<1>7. round + remain_to_set + Unplaced <= 2 * n + (IF changed THEN 0 ELSE 1)
  BY DEF Budget
<1> HIDE DEF left
<1>8. PICK u \in Nat, v \in Nat, r \in Nat, rr \in Nat, d \in Nat, nn \in Nat :
             /\ u = Unplaced /\ v = left /\ r = remain_to_set /\ rr = remain_to_set'
             /\ d = round /\ nn = n
  BY <1>0, <1>1, <1>2, <1>5
<1>9. v <= u /\ rr <= r /\ (changed' /\ ~changed => rr + v < r + u)
  <2>1. v <= u /\ rr <= r
    BY <1>0, <1>6, <1>8
  <2>2. changed' /\ ~changed => rr < r \/ v < u
    BY <1>0, <1>6, <1>8
  <2> QED
    BY <2>1, <2>2
<1>10. d + r + u <= 2 * nn + (IF changed THEN 0 ELSE 1)
  BY <1>7, <1>8
<1>11. d + rr + v <= 2 * nn + (IF changed' THEN 0 ELSE 1)
  <2>1. CASE changed
    <3>1. d + r + u <= 2 * nn /\ changed'
      BY <1>10, <2>1
    <3>2. d + rr + v <= 2 * nn
      BY <1>9, <3>1
    <3> QED
      BY <3>1, <3>2
  <2>2. CASE ~changed /\ changed'
    <3>1. d + r + u <= 2 * nn + 1
      BY <1>10, <2>2
    <3>2. d + rr + v <= 2 * nn
      BY <1>9, <2>2, <3>1
    <3> QED
      BY <2>2, <3>2
  <2>3. CASE ~changed /\ ~changed'
    <3>1. d + r + u <= 2 * nn + 1
      BY <1>10, <2>3
    <3>2. d + rr + v <= 2 * nn + 1
      BY <1>9, <3>1
    <3> QED
      BY <2>3, <3>2
  <2> QED
    BY <2>1, <2>2, <2>3
<1> QED
  BY <1>3, <1>4, <1>8, <1>11 DEF Budget, left

\* A visit settles no item that was not, and unsettles none.
LEMMA AdvanceNext ==
  ASSUME TypeOK, Advance, UNCHANGED <<input, next_flexible>>, NEW k \in Items, k = ii, ii' = k + 1,
         ~Settled(k), NEW fr \in BOOLEAN, set[k] => fr, set' = [set EXCEPT ![k] = fr],
         \A x \in 0 .. n : offset[x] # 0 => offset'[x] # 0,
         ~changed' => ~changed /\ offset' = offset /\ set' = set /\ Waiting(k)
  PROVE  Advance'
<1>1. /\ Given /\ set \in [0 .. n -> BOOLEAN] /\ next_flexible \in 0 .. n
  BY TypeFacts
<1>2. n \in Nat /\ Items = 0 .. n - 1 /\ Items \subseteq 0 .. n
      /\ \A j \in Items : j + 1 \in 0 .. n
  <2>1. n \in Nat /\ Items = 0 .. n - 1
    BY <1>1, Givens
  <2> QED
    BY ONLY <2>1
<1>3. n' = n /\ Items' = Items /\ next_flexible' = next_flexible
  BY DEF input, Items
<1>4. ASSUME NEW j \in Items, Settled(j)
      PROVE  Settled(j)'
  <2>1. set'[j]
    BY <1>1, <1>2, <1>4 DEF Settled
  <2>2. offset'[j] # 0 /\ offset'[j + 1] # 0
    BY <1>2, <1>4 DEF Settled
  <2> QED
    BY <2>1, <2>2 DEF Settled
<1>5. \A j \in Items' : j < next_flexible' => Settled(j)'
  BY <1>3, <1>4 DEF Advance
<1>6. ASSUME ~changed'
      PROVE  /\ next_flexible' < ii' => ~Settled(next_flexible)'
             /\ \A j \in Items' : j < ii' => Settled(j)' \/ Waiting(j)'
  <2>1. ~changed /\ offset' = offset /\ set' = set /\ Waiting(k)
    BY <1>6
  <2>2. /\ Settled(next_flexible)' <=> Settled(next_flexible)
        /\ \A j \in Items : (Settled(j)' <=> Settled(j)) /\ (Waiting(j)' <=> Waiting(j))
    BY <1>3, <2>1 DEF Settled, Waiting
  <2>3. /\ next_flexible < ii => ~Settled(next_flexible)
        /\ \A j \in Items : j < ii => Settled(j) \/ Waiting(j)
    BY <2>1 DEF Advance
  <2>4. \A j \in 0 .. n : j < k + 1 => j < k \/ j = k
    BY <1>2
  <2>5. next_flexible < k + 1 => ~Settled(next_flexible)
    BY <1>1, <2>3, <2>4
  <2>6. \A j \in Items : j < k + 1 => Settled(j) \/ Waiting(j)
    BY <1>2, <2>1, <2>3, <2>4
  <2> QED
    BY <1>3, <2>2, <2>5, <2>6
<1> QED
  BY <1>5, <1>6 DEF Advance

\* What a visit does that does not fail.
LEMMA PlaceProgress ==
  ASSUME TypeOK, Advance, Budget, NEW a \in 0 .. n, NEW b \in 0 .. n, a < b,
         Shape(a, b, set, size, offset, remain_to_set),
         NEW k \in Items, k = ii, ~Settled(k), NEW z, NEW fr \in BOOLEAN, set[k] => fr,
         NEW sf, NEW df, NEW c \in BOOLEAN, c <=> changed \/ (fr /\ ~set[k]),
         Place(k, z, fr, sf, df, c), result' = "running"
  PROVE  /\ Advance' /\ Budget' /\ UNCHANGED input /\ ii' = k + 1
         /\ changed' \in BOOLEAN
         /\ remain_to_set' # 0 \/ ~changed' =>
              /\ set' = [set EXCEPT ![k] = fr] /\ size' = [size EXCEPT ![k] = z]
              /\ src_flexible' = Wrap(sf) /\ dst_flexible' = Wrap(df)
         /\ ~changed' => ~changed /\ ~c
<1> DEFINE gap == Wrap(offset[k + 1] - offset[k])
<1>1. /\ Given /\ set \in [0 .. n -> BOOLEAN] /\ changed \in BOOLEAN /\ U64 \in Nat
      /\ remain_to_set \in 0 .. U64 - 1 /\ offset \in [0 .. n -> 0 .. U64 - 1]
  BY TypeFacts, SizeAssumption
<1>2. n \in Nat /\ Items = 0 .. n - 1
  BY <1>1, Givens
<1>3. k \in 0 .. n /\ k + 1 \in 0 .. n /\ k \in Nat
  BY <1>2
<1>4. k \notin Done(a, b) /\ a <= k /\ k < b /\ remain_to_set = b - a /\ remain_to_set # 0
  BY <1>1, NotDone
<1>5. remain_to_set \in Nat /\ Placed \in Nat /\ Placed = remain_to_set - 1
  <2>1. remain_to_set - 1 \in 0 .. U64 - 1
    BY <1>1, <1>4
  <2> QED
    BY <1>1, <2>1, Wraps DEF Placed
<1>6. Placed < remain_to_set /\ Placed # remain_to_set
  BY <1>5
\* the gap between two known ends
<1>7. CASE /\ offset[k] # 0 /\ offset[k + 1] # 0 /\ ~fr
           /\ offset' = offset /\ size' = [size EXCEPT ![k] = gap] /\ set' = [set EXCEPT ![k] = TRUE]
           /\ remain_to_set' = Placed /\ changed' = (c \/ Placed # remain_to_set)
           /\ ii' = k + 1 /\ UNCHANGED <<input, next_flexible, round, result>>
  <2>1. k = a /\ k + 1 = b
    <3>1. \A j \in 0 .. n : offset[j] # 0 <=> (j <= a \/ j >= b)
      BY DEF Shape
    <3>2. (k <= a \/ k >= b) /\ (k + 1 <= a \/ k + 1 >= b)
      BY <1>3, <1>7, <3>1
    <3> QED
      BY <1>3, <1>4, <3>2
  <2>2. remain_to_set' = 0 /\ changed' = TRUE
    <3>1. remain_to_set = 1
      BY <1>3, <1>4, <2>1
    <3>2. Placed = 0
      BY <1>5, <3>1
    <3> QED
      BY <1>6, <1>7, <3>2
  <2>3. PICK one \in BOOLEAN : one = TRUE
    OBVIOUS
  <2>4. set' = [set EXCEPT ![k] = one] /\ remain_to_set' \in Nat /\ remain_to_set' <= remain_to_set
        /\ remain_to_set' < remain_to_set
    BY <1>5, <1>6, <1>7, <2>3
  <2>5. Budget'
    BY <1>7, <2>2, <2>3, <2>4, BudgetNext
  <2>6. Advance'
    BY <1>7, <2>2, <2>3, <2>4, AdvanceNext
  <2> QED
    BY <1>7, <2>2, <2>5, <2>6
\* one end is known
<1>8. CASE /\ fr
           /\ \A x \in 0 .. n : offset[x] # 0 => offset'[x] # 0
           /\ size' = [size EXCEPT ![k] = z] /\ set' = [set EXCEPT ![k] = TRUE]
           /\ remain_to_set' = Placed /\ changed' = (c \/ Placed # remain_to_set)
           /\ ii' = k + 1 /\ UNCHANGED <<input, next_flexible, round, result>>
           /\ src_flexible' = Wrap(sf) /\ dst_flexible' = Wrap(df)
  <2>1. changed' = TRUE /\ set' = [set EXCEPT ![k] = fr]
    BY <1>6, <1>8
  <2>2. remain_to_set' \in Nat /\ remain_to_set' <= remain_to_set /\ remain_to_set' < remain_to_set
    BY <1>5, <1>6, <1>8
  <2>3. Budget'
    BY <1>8, <2>1, <2>2, BudgetNext
  <2>4. Advance'
    BY <1>8, <2>1, AdvanceNext
  <2> QED
    BY <1>8, <2>1, <2>3, <2>4
\* not enough is known
<1>9. CASE /\ offset[k] = 0 \/ offset[k + 1] = 0
           /\ fr => offset[k] = 0 /\ offset[k + 1] = 0
           /\ offset' = offset /\ size' = [size EXCEPT ![k] = z] /\ set' = [set EXCEPT ![k] = fr]
           /\ remain_to_set' = remain_to_set /\ changed' = (c \/ remain_to_set # remain_to_set)
           /\ ii' = k + 1 /\ UNCHANGED <<input, next_flexible, round, result>>
           /\ src_flexible' = Wrap(sf) /\ dst_flexible' = Wrap(df)
  <2>1. changed' = c
    BY <1>9
  <2>2. Waiting(k)
    BY <1>9 DEF Waiting
  <2>3. remain_to_set' \in Nat /\ remain_to_set' <= remain_to_set
    BY <1>5, <1>9
  <2>4. Budget'
    BY <1>9, <2>1, <2>3, BudgetNext
  <2>5. ~changed' => ~changed /\ set' = set
    <3> SUFFICES ASSUME ~c
                 PROVE  ~changed /\ [set EXCEPT ![k] = fr] = set
      BY <1>9, <2>1
    <3> QED
      BY <1>1, <1>2, <1>9, UnsetWithout
  <2>6. Advance'
    BY <1>9, <2>2, <2>5, AdvanceNext
  <2> QED
    BY <1>9, <2>1, <2>4, <2>5, <2>6
<1>10. CASE /\ offset[k] # 0 /\ offset[k + 1] = 0 /\ fr
            /\ offset' = [offset EXCEPT ![k + 1] = Wrap(offset[k] + z)]
            /\ size' = [size EXCEPT ![k] = z] /\ set' = [set EXCEPT ![k] = TRUE]
            /\ remain_to_set' = Placed /\ changed' = (c \/ Placed # remain_to_set)
            /\ ii' = k + 1 /\ UNCHANGED <<input, next_flexible, round, result>>
            /\ src_flexible' = Wrap(sf) /\ dst_flexible' = Wrap(df)
  <2>1. \A x \in 0 .. n : offset[x] # 0 => offset'[x] # 0
    BY <1>1, <1>10
  <2> QED
    BY <1>8, <1>10, <2>1
<1>11. CASE /\ offset[k] = 0 /\ offset[k + 1] # 0 /\ fr
            /\ offset' = [offset EXCEPT ![k] = Wrap(offset[k + 1] - z)]
            /\ size' = [size EXCEPT ![k] = z] /\ set' = [set EXCEPT ![k] = TRUE]
            /\ remain_to_set' = Placed /\ changed' = (c \/ Placed # remain_to_set)
            /\ ii' = k + 1 /\ UNCHANGED <<input, next_flexible, round, result>>
            /\ src_flexible' = Wrap(sf) /\ dst_flexible' = Wrap(df)
  <2>1. \A x \in 0 .. n : offset[x] # 0 => offset'[x] # 0
    BY <1>1, <1>11
  <2> QED
    BY <1>8, <1>11, <2>1
<1> HIDE DEF gap
<1>12. gap = Wrap(offset[k + 1] - offset[k])
  BY DEF gap
<1>13. CASE offset[k] # 0 /\ offset[k + 1] # 0
  BY <1>7, <1>12, <1>13 DEF Place
<1>14. CASE offset[k] = 0 \/ offset[k + 1] = 0
  <2>1. CASE offset[k] # 0 /\ fr
    BY <1>10, <1>14, <2>1 DEF Place
  <2>2. CASE offset[k + 1] # 0 /\ fr
    BY <1>11, <1>14, <2>2 DEF Place
  <2>3. CASE ~fr \/ (offset[k] = 0 /\ offset[k + 1] = 0)
    BY <1>9, <1>14, <2>3 DEF Place
  <2> QED
    BY <1>14, <2>1, <2>2, <2>3
<1> QED
  BY <1>13, <1>14

\* What holds of the new values holds in the next state.
LEMMA ProgressNext ==
  ASSUME UNCHANGED input, Advance', Budget',
         remain_to_set' # 0 => Unset(set') # {} /\ Exact(set', src_flexible', dst_flexible'),
         ~changed' => Shares(set', size', src_flexible', dst_flexible', ii')
  PROVE  Progress'
<1>1. n' = n /\ item' = item /\ Items' = Items /\ least' = least /\ sources' = sources
  BY DEF input, Items, least, sources
<1>2. Unset(set)' = Unset(set')
  BY <1>1 DEF Unset
<1>3. Exact(set, src_flexible, dst_flexible)' <=> Exact(set', src_flexible', dst_flexible')
  BY <1>1, <1>2 DEF Exact
<1>4. Shares(set, size, src_flexible, dst_flexible, ii)'
        <=> Shares(set', size', src_flexible', dst_flexible', ii')
  BY <1>1, <1>2 DEF Shares
<1> QED
  BY <1>2, <1>3, <1>4 DEF Progress

LEMMA SkipProgress ==
  ASSUME TypeOK, Progress, ii < n, Skip(ii)
  PROVE  Progress'
<1>1. /\ Given /\ ii \in 0 .. n /\ next_flexible \in 0 .. n
  BY TypeFacts
<1>2. n \in Nat /\ Items = 0 .. n - 1
  BY <1>1, Givens
<1>3. ii \in Items /\ Settled(ii) /\ set[ii]
  BY <1>1, <1>2 DEF Skip, Settled
<1>4. /\ UNCHANGED <<input, set, offset, size, src_flexible, dst_flexible, remain_to_set>>
      /\ UNCHANGED <<changed, round>> /\ ii' = ii + 1
      /\ next_flexible' = IF next_flexible = ii THEN ii + 1 ELSE next_flexible
  BY DEF Skip, layout, totals
<1>5. n' = n /\ Items' = Items
  BY <1>4 DEF input, Items
<1>6. \A j \in 0 .. n : (Settled(j)' <=> Settled(j)) /\ (Waiting(j)' <=> Waiting(j))
  BY <1>4 DEF Settled, Waiting
<1>7. Advance'
  <2>1. \A j \in Items : j < next_flexible' => Settled(j)
    <3>1. \A j \in Items : j < next_flexible => Settled(j)
      BY DEF Progress, Advance
    <3>2. \A j \in Items : j < ii + 1 => j < ii \/ j = ii
      BY <1>2, <1>3
    <3>3. CASE next_flexible = ii
      BY <1>3, <1>4, <3>1, <3>2, <3>3
    <3>4. CASE next_flexible # ii
      BY <1>4, <3>1, <3>4
    <3> QED
      BY <3>3, <3>4
  <2>2. ASSUME ~changed'
        PROVE  /\ next_flexible' < ii' => ~Settled(next_flexible')
               /\ \A j \in Items : j < ii' => Settled(j) \/ Waiting(j)
    <3>1. /\ next_flexible < ii => ~Settled(next_flexible)
          /\ \A j \in Items : j < ii => Settled(j) \/ Waiting(j)
      BY <1>4, <2>2 DEF Progress, Advance
    <3>2. \A j \in 0 .. n : j < ii + 1 => j < ii \/ j = ii
      BY <1>1, <1>2
    <3>3. \A j \in Items : j < ii' => Settled(j) \/ Waiting(j)
      BY <1>2, <1>3, <1>4, <3>1, <3>2
    <3>4. CASE next_flexible = ii
      <4>1. ~(next_flexible' < ii')
        BY <1>1, <1>2, <1>4, <3>4
      <4> QED
        BY <3>3, <4>1
    <3>5. CASE next_flexible # ii
      BY <1>1, <1>4, <3>1, <3>2, <3>3, <3>5
    <3> QED
      BY <3>4, <3>5
  <2>3. next_flexible' \in 0 .. n
    BY <1>1, <1>2, <1>3, <1>4
  <2>4. \A j \in Items' : j < next_flexible' => Settled(j)'
    BY <1>2, <1>5, <1>6, <2>1
  <2>5. ~changed' => /\ next_flexible' < ii' => ~Settled(next_flexible)'
                     /\ \A j \in Items' : j < ii' => Settled(j)' \/ Waiting(j)'
    <3>1. Settled(next_flexible)' <=> Settled(next_flexible')
      BY <1>4 DEF Settled
    <3> QED
      BY <1>2, <1>5, <1>6, <2>2, <3>1
  <2> QED
    BY <2>4, <2>5 DEF Advance
<1>8. Budget'
  <2>1. Unplaced' = Unplaced
    BY <1>4, <1>5 DEF Unplaced, Unset, ones
  <2> QED
    BY <1>4, <1>5, <2>1 DEF Progress, Budget
<1>9. ~changed' => Shares(set', size', src_flexible', dst_flexible', ii')
  <2>1. \A j \in Items : j < ii + 1 /\ j # ii => j < ii
    BY <1>2, <1>3
  <2> QED
    BY <1>3, <1>4, <2>1 DEF Progress, Shares, Unset
<1>10. remain_to_set' # 0 => Unset(set') # {} /\ Exact(set', src_flexible', dst_flexible')
  BY <1>4 DEF Progress
<1> QED
  BY <1>4, <1>7, <1>8, <1>9, <1>10, ProgressNext

LEMMA SizedProgress ==
  ASSUME TypeOK, Running, Progress, NEW k \in Items, k = ii, set[k], ~Settled(k),
         Place(k, size[k], TRUE, src_flexible, dst_flexible, changed), result' = "running"
  PROVE  Progress'
<1>1. /\ Given /\ set \in [0 .. n -> BOOLEAN] /\ size \in [Items -> Nat] /\ changed \in BOOLEAN
      /\ src_flexible \in 0 .. U64 - 1 /\ dst_flexible \in 0 .. U64 - 1
  BY TypeFacts
<1>2. n \in Nat /\ Items = 0 .. n - 1
  BY <1>1, Givens
<1>3. PICK a \in 0 .. n, b \in 0 .. n : a < b /\ Shape(a, b, set, size, offset, remain_to_set)
  BY DEF Running
<1>4. remain_to_set # 0
  BY <1>1, <1>3, NotDone
<1>5. PICK fr \in BOOLEAN, z \in Nat : fr = TRUE /\ z = size[k]
  BY <1>1
<1>6. Place(k, z, fr, src_flexible, dst_flexible, changed)
  BY <1>5
<1>7. Advance /\ Budget /\ (changed <=> changed \/ (fr /\ ~set[k])) /\ (set[k] => fr)
  BY <1>5 DEF Progress
<1>a. TypeOK /\ k \in Items /\ k = ii /\ ~Settled(k) /\ fr \in BOOLEAN /\ result' = "running"
  BY <1>5
<1>8. /\ Advance' /\ Budget' /\ UNCHANGED input /\ ii' = k + 1
      /\ remain_to_set' # 0 \/ ~changed' =>
           /\ set' = [set EXCEPT ![k] = fr] /\ size' = [size EXCEPT ![k] = z]
           /\ src_flexible' = Wrap(src_flexible) /\ dst_flexible' = Wrap(dst_flexible)
      /\ ~changed' => ~changed /\ ~changed
  BY ONLY <1>1, <1>3, <1>6, <1>7, <1>a, PlaceProgress
<1>9. remain_to_set' # 0 \/ ~changed' =>
        /\ set' = set /\ size' = size /\ src_flexible' = src_flexible /\ dst_flexible' = dst_flexible
  <2>1. [set EXCEPT ![k] = fr] = set /\ [size EXCEPT ![k] = z] = size
    BY <1>1, <1>5
  <2> QED
    BY <1>1, <1>8, <2>1, Wraps
<1>10. remain_to_set' # 0 => Unset(set') # {} /\ Exact(set', src_flexible', dst_flexible')
  BY <1>4, <1>9 DEF Progress
<1>11. ~changed' => Shares(set', size', src_flexible', dst_flexible', ii')
  <2>1. \A j \in Items : j < k + 1 /\ j # k => j < k
    BY <1>2
  <2> QED
    BY <1>8, <1>9, <2>1 DEF Progress, Shares, Unset
<1> QED
  BY <1>8, <1>10, <1>11, ProgressNext

LEMMA EstimateProgress ==
  ASSUME TypeOK, Running, Progress, ~build.rounded, NEW k \in Items, k = ii, ~set[k],
         src_flexible # 0, NEW e \in Estimates(k),
         Place(k, e, FALSE, src_flexible, dst_flexible, changed), result' = "running"
  PROVE  Progress'
<1>1. /\ Given /\ SizesTyped /\ set \in [0 .. n -> BOOLEAN] /\ size \in [Items -> Nat]
      /\ changed \in BOOLEAN
      /\ src_flexible \in 0 .. U64 - 1 /\ dst_flexible \in 0 .. U64 - 1
  BY TypeFacts
<1>2. n \in Nat /\ Items = 0 .. n - 1
  BY <1>1, Givens
<1>3. PICK a \in 0 .. n, b \in 0 .. n : a < b /\ Shape(a, b, set, size, offset, remain_to_set)
  BY DEF Running
<1>4. ~Settled(k)
  BY DEF Settled
<1>5. remain_to_set # 0
  BY <1>1, <1>3, <1>4, NotDone
<1>6. PICK fr \in BOOLEAN : fr = FALSE
  OBVIOUS
<1>7. Place(k, e, fr, src_flexible, dst_flexible, changed)
  BY <1>6
<1>8. Advance /\ Budget /\ (changed <=> changed \/ (fr /\ ~set[k])) /\ (set[k] => fr)
  BY <1>6 DEF Progress
<1>9. /\ Advance' /\ Budget' /\ UNCHANGED input /\ ii' = k + 1
      /\ remain_to_set' # 0 \/ ~changed' =>
           /\ set' = [set EXCEPT ![k] = fr] /\ size' = [size EXCEPT ![k] = e]
           /\ src_flexible' = Wrap(src_flexible) /\ dst_flexible' = Wrap(dst_flexible)
      /\ ~changed' => ~changed
  BY <1>1, <1>3, <1>4, <1>7, <1>8, PlaceProgress
<1>10. remain_to_set' # 0 \/ ~changed' =>
         /\ set' = set /\ size' = [size EXCEPT ![k] = e]
         /\ src_flexible' = src_flexible /\ dst_flexible' = dst_flexible
  <2>1. [set EXCEPT ![k] = fr] = set
    BY <1>1, <1>6
  <2> QED
    BY <1>1, <1>9, <2>1, Wraps
<1>11. remain_to_set' # 0 => Unset(set') # {} /\ Exact(set', src_flexible', dst_flexible')
  BY <1>5, <1>10 DEF Progress
<1>12. src_flexible * e <= sources[k] * dst_flexible
  BY <1>1, ExactFits
<1>13. ~changed' => Shares(set', size', src_flexible', dst_flexible', ii')
  <2> SUFFICES ASSUME ~changed', NEW j \in Unset(set), j < k + 1
               PROVE  src_flexible * size'[j] <= sources[j] * dst_flexible
    BY <1>9, <1>10 DEF Shares
  <2>1. j \in Items /\ (j = k \/ j < k)
    BY <1>2 DEF Unset
  <2>2. CASE j = k
    <3>1. size'[j] = e
      BY <1>1, <1>10, <2>2
    <3> QED
      BY <1>12, <2>2, <3>1
  <2>3. CASE j # k
    <3>1. size'[j] = size[j]
      BY <1>1, <1>10, <2>1, <2>3
    <3>2. Shares(set, size, src_flexible, dst_flexible, ii)
      BY <1>9 DEF Progress
    <3> QED
      BY <2>1, <2>3, <3>1, <3>2 DEF Shares
  <2> QED
    BY <2>2, <2>3
<1> QED
  BY <1>9, <1>11, <1>13, ProgressNext

\* An item is only raised while another one has no size, and no sweep has frozen
\* one.
LEMMA RaiseNotLast ==
  ASSUME TypeOK, Running, Progress, ~build.rounded, NEW k \in Items, ~set[k],
         src_flexible # 0, NEW e \in Estimates(k), e < MinSize(item[k])
  PROVE  /\ Unset(set) # {k} /\ src_flexible = Over(Unset(set), sources, n)
<1>1. /\ Given /\ SizesTyped
  BY TypeFacts
<1>2. least[k] = MinSize(item[k]) /\ least[k] \in Nat /\ e \in Nat
  BY <1>1, Givens, ExactFits
<1>3. ~(e >= least[k])
  BY <1>2
<1>4. ~(src_flexible * least[k] <= sources[k] * dst_flexible)
  BY <1>1, <1>3, ExactFits
<1>5. ~Settled(k) /\ k \in Unset(set)
  BY DEF Settled, Unset
<1>6. PICK a \in 0 .. n, b \in 0 .. n : a < b /\ Shape(a, b, set, size, offset, remain_to_set)
  BY DEF Running
<1>7. remain_to_set # 0
  BY <1>1, <1>5, <1>6, NotDone
<1>8. Exact(set, src_flexible, dst_flexible)
  BY <1>7 DEF Progress
<1>9. src_flexible = Over(Unset(set), sources, n)
  BY <1>4, <1>5, <1>8 DEF Exact
<1>10. PICK Z : Balanced(Z, set, size, src_flexible, dst_flexible)
  BY DEF Running
<1>11. Unset(set) # {k}
  BY <1>1, <1>4, <1>8, <1>10, LastShares
<1> QED
  BY <1>9, <1>11

LEMMA RaiseProgress ==
  ASSUME TypeOK, Running, Progress, ~build.rounded, NEW k \in Items, k = ii, ~set[k],
         src_flexible # 0, NEW e \in Estimates(k), e < MinSize(item[k]),
         Place(k, MinSize(item[k]), TRUE, src_flexible - item[k].src,
               dst_flexible - MinSize(item[k]), TRUE), result' = "running"
  PROVE  Progress'
<1>0. PICK fr, z, sf, df : /\ fr = TRUE /\ z = MinSize(item[k])
                           /\ sf = src_flexible - item[k].src /\ df = dst_flexible - z
  OBVIOUS
<1>1. /\ Given /\ set \in [0 .. n -> BOOLEAN] /\ changed \in BOOLEAN
      /\ src_flexible \in 0 .. U64 - 1 /\ dst_flexible \in 0 .. U64 - 1 /\ U64 \in Nat
  BY TypeFacts, SizeAssumption
<1>2. n \in Nat /\ Items = 0 .. n - 1 /\ sources \in [0 .. n - 1 -> Nat] /\ sources[k] = item[k].src
  BY <1>1, Givens
<1>3. PICK a \in 0 .. n, b \in 0 .. n : a < b /\ Shape(a, b, set, size, offset, remain_to_set)
  BY DEF Running
<1>4. ~Settled(k) /\ k \in Unset(set)
  BY DEF Settled, Unset
<1>5. fr \in BOOLEAN /\ fr = TRUE
  BY <1>0
<1>6. Place(k, z, fr, sf, df, fr)
  BY <1>0
<1>7. Advance /\ Budget /\ (fr <=> changed \/ (fr /\ ~set[k])) /\ (set[k] => fr)
  BY <1>5 DEF Progress
<1>8. /\ Advance' /\ Budget' /\ UNCHANGED input
      /\ remain_to_set' # 0 \/ ~changed' =>
           /\ set' = [set EXCEPT ![k] = fr] /\ size' = [size EXCEPT ![k] = z]
           /\ src_flexible' = Wrap(sf) /\ dst_flexible' = Wrap(df)
      /\ ~changed' => ~changed /\ ~fr
  BY <1>1, <1>3, <1>4, <1>5, <1>6, <1>7, PlaceProgress
<1>9. changed'
  BY <1>5, <1>8
<1>10. Unset(set) # {k} /\ src_flexible = Over(Unset(set), sources, n)
  BY RaiseNotLast
<1>11. sf = Over(Unset(set) \ {k}, sources, n) /\ Wrap(sf) = sf
  <2>1. k \in 0 .. n - 1
    BY <1>2
  <2>2. /\ Over(Unset(set), sources, n) = Over(Unset(set) \ {k}, sources, n) + sources[k]
        /\ Over(Unset(set) \ {k}, sources, n) \in Nat /\ sources[k] \in Nat
    BY ONLY <1>2, <1>4, <2>1, OverRemove, OverType
  <2>3. sf = Over(Unset(set) \ {k}, sources, n) /\ sf \in 0 .. U64 - 1
    <3>1. PICK x \in Nat, y \in Nat : x = Over(Unset(set) \ {k}, sources, n) /\ y = item[k].src
      BY <1>2, <2>2
    <3>2. src_flexible = x + y
      BY <1>2, <1>10, <2>2, <3>1
    <3>3. sf = x /\ sf \in 0 .. U64 - 1
      <4>1. \A u \in 0 .. U64 - 1 : u = x + y => u - y = x /\ u - y \in 0 .. U64 - 1
        BY <1>1
      <4> QED
        BY <1>0, <1>1, <3>1, <3>2, <4>1
    <3> QED
      BY <3>1, <3>3
  <2> QED
    BY <2>3, Wraps
<1>12. ASSUME remain_to_set' # 0
       PROVE  Unset(set') # {} /\ Exact(set', src_flexible', dst_flexible')
  <2>1. Unset(set') = Unset(set) \ {k}
    BY <1>1, <1>5, <1>8, <1>12, UnsetWithout
  <2> QED
    BY <1>4, <1>8, <1>10, <1>11, <1>12, <2>1 DEF Exact
<1> QED
  BY <1>8, <1>9, <1>12, ProgressNext

\* The gap between two known ends is the last one, and holds the last item.
LEMMA GapHolds ==
  ASSUME TypeOK, Running, NEW k \in Items, ~set[k], offset[k] # 0, offset[k + 1] # 0
  PROVE  Unset(set) = {k} /\ Wrap(offset[k + 1] - offset[k]) >= least[k]
<1> DEFINE gap == offset[k + 1] - offset[k]
<1>1. /\ Given /\ SizesTyped /\ size \in [Items -> Nat]
      /\ offset \in [0 .. n -> 0 .. U64 - 1] /\ U64 \in Nat
  BY TypeFacts, SizeAssumption
<1>2. /\ n \in Nat /\ Items = 0 .. n - 1 /\ least[k] \in Nat /\ Space \in Nat
      /\ least \in [0 .. n - 1 -> Nat]
  BY <1>1, Givens
<1>3. k \in 0 .. n /\ k + 1 \in 0 .. n /\ k \in Nat /\ k < k + 1
  BY <1>2
<1>4. PICK a \in 0 .. n, b \in 0 .. n : a < b /\ Shape(a, b, set, size, offset, remain_to_set)
  BY DEF Running
<1>5. PICK Z : Balanced(Z, set, size, src_flexible, dst_flexible)
  BY DEF Running
<1>6. k \notin Done(a, b) /\ a <= k /\ k < b
  BY <1>1, <1>4, NotDone DEF Settled
<1>7. k = a /\ k + 1 = b
  <2>1. \A j \in 0 .. n : offset[j] # 0 <=> (j <= a \/ j >= b)
    BY <1>4 DEF Shape
  <2>2. (k <= a \/ k >= b) /\ (k + 1 <= a \/ k + 1 >= b)
    BY <1>3, <2>1
  <2> QED
    BY <1>3, <1>6, <2>2
<1>8. Done(a, b) = Items \ {k}
  BY <1>2, <1>3, <1>7 DEF Done
<1>9. Unset(set) = {k}
  <2>1. \A j \in Items \ {k} : set[j]
    BY <1>4, <1>8 DEF Shape
  <2> QED
    BY <2>1 DEF Unset
<1>10. Wrap(gap) = gap /\ gap \in Nat
  <2>1. offset[k] <= offset[k + 1]
    BY <1>3, <1>4 DEF Shape
  <2>2. offset[k] \in 0 .. U64 - 1 /\ offset[k + 1] \in 0 .. U64 - 1
    BY <1>1, <1>3
  <2>3. gap \in 0 .. U64 - 1 /\ gap \in Nat
    <3>1. \A x, y \in 0 .. U64 - 1 : x <= y => y - x \in 0 .. U64 - 1 /\ y - x \in Nat
      BY <1>1
    <3> QED
      BY <2>1, <2>2, <3>1
  <2> QED
    BY <2>3, Wraps
<1>11. gap = Space - Over(Items \ {k}, size, n)
  BY <1>4, <1>7, <1>8 DEF Shape
<1> HIDE DEF gap
<1> DEFINE A == Items \ (Z \cup {k})
<1>12. /\ Z \subseteq Items /\ k \notin Z
       /\ Space = dst_flexible + Over(A, size, n)
       /\ Over(Z, size, n) + Over({k}, least, n) <= dst_flexible
  BY <1>5, <1>9 DEF Balanced
<1>13. size \in [0 .. n - 1 -> Nat] /\ k \in 0 .. n - 1 /\ dst_flexible \in Nat
  BY <1>1, <1>2 DEF SizesTyped
<1>14. Over(Items \ {k}, size, n) = Over(A, size, n) + Over(Z, size, n)
  <2>1. Z \subseteq Items /\ k \notin Z
    BY <1>12
  <2>2. A \cap Z = {}
    OBVIOUS
  <2>3. A \cup Z = Items \ {k}
    BY ONLY <2>1, Zenon
  <2> HIDE DEF A
  <2>4. Over(A \cup Z, size, n) = Over(A, size, n) + Over(Z, size, n)
    <3>1. n \in Nat /\ size \in [0 .. n - 1 -> Nat]
      BY <1>2, <1>13
    <3> QED
      BY ONLY <2>2, <3>1, OverUnion
  <2> QED
    BY <2>3, <2>4
<1> HIDE DEF A
<1>15. Over(A, size, n) \in Nat /\ Over(Z, size, n) \in Nat /\ Over({k}, least, n) = least[k]
  BY ONLY <1>2, <1>13, OverType, OverOne
<1>16. gap >= least[k]
  <2> DEFINE inA == Over(A, size, n)
             inZ == Over(Z, size, n)
  <2>1. inA \in Nat /\ inZ \in Nat /\ least[k] \in Nat /\ dst_flexible \in Nat
    BY <1>2, <1>13, <1>15
  <2>2. Space = dst_flexible + inA /\ inZ + least[k] <= dst_flexible /\ gap = Space - (inA + inZ)
    BY <1>11, <1>12, <1>14, <1>15
  <2> HIDE DEF inA, inZ
  <2> QED
    BY ONLY <2>1, <2>2
<1> QED
  BY <1>9, <1>10, <1>16 DEF gap

\* There is always something left to share.
LEMMA SomethingLeft ==
  ASSUME TypeOK, Running, NEW k \in Items, ~set[k], item[k].src # 0
  PROVE  src_flexible # 0
<1>1. Given
  BY TypeFacts
<1>2. /\ n \in Nat /\ Items = 0 .. n - 1 /\ sources \in [0 .. n - 1 -> Nat]
      /\ sources[k] = item[k].src
  BY <1>1, Givens
<1>3. PICK Z : Balanced(Z, set, size, src_flexible, dst_flexible)
  BY DEF Running
<1> DEFINE Y == Z \cup Unset(set)
<1>4. src_flexible = Over(Y, sources, n) /\ {k} \subseteq Y /\ k \in 0 .. n - 1
  BY <1>2, <1>3 DEF Balanced, Unset
<1> HIDE DEF Y
<1>5. /\ Over({k}, sources, n) <= Over(Y, sources, n)
      /\ Over({k}, sources, n) = sources[k] /\ Over(Y, sources, n) \in Nat
  BY ONLY <1>2, <1>4, OverWithin, OverOne, OverType
<1> QED
  BY <1>2, <1>4, <1>5

\* A visit does not fail.
LEMMA VisitSucceeds ==
  ASSUME TypeOK, Running, Progress, ~build.rounded, Wanted, Visit
  PROVE  result' = "running"
<1>1. result = "running" /\ ii < n
  BY DEF Visit
<1>2. Given
  BY TypeFacts
<1>3. ii \in Items
  BY <1>1, <1>2, TypeFacts, Givens
<1>4. item[ii].src # 0 /\ MinSize(item[ii]) # 0 /\ MinSize(item[ii]) = least[ii] /\ least[ii] \in Nat
  BY <1>2, <1>3, Givens DEF Wanted
<1>5. CASE Skip(ii)
  BY <1>1, <1>5 DEF Skip
<1>6. CASE ~set[ii] /\ src_flexible = 0
  BY <1>3, <1>4, <1>6, SomethingLeft
<1>7. ASSUME ~set[ii], src_flexible # 0, NEW e \in Estimates(ii), e < MinSize(item[ii]),
             Place(ii, MinSize(item[ii]), TRUE, src_flexible - item[ii].src,
                   dst_flexible - MinSize(item[ii]), TRUE)
      PROVE  result' = "running"
  <2>1. offset[ii] = 0 \/ offset[ii + 1] = 0
    <3>1. Unset(set) # {ii}
      BY <1>3, <1>7, RaiseNotLast
    <3> QED
      BY <1>3, <1>7, <3>1, GapHolds
  <2> QED
    BY <1>1, <1>7, <2>1 DEF Place
<1>8. ASSUME ~set[ii], NEW e, Place(ii, e, FALSE, src_flexible, dst_flexible, changed)
      PROVE  result' = "running"
  <2>1. CASE offset[ii] = 0 \/ offset[ii + 1] = 0
    BY <1>1, <1>8, <2>1 DEF Place
  <2>2. CASE offset[ii] # 0 /\ offset[ii + 1] # 0
    <3>1. Fits(ii, Wrap(offset[ii + 1] - offset[ii]))
      BY <1>3, <1>4, <1>8, <2>2, GapHolds DEF Fits
    <3> QED
      BY <1>1, <1>8, <2>2, <3>1 DEF Place
  <2> QED
    BY <2>1, <2>2
<1>9. CASE set[ii] /\ ~Settled(ii)
  <2>1. size[ii] # 0
    <3>1. size[ii] >= least[ii]
      BY <1>3, <1>9 DEF Running, Valid
    <3> QED
      BY <1>4, <3>1
  <2>2. Place(ii, size[ii], TRUE, src_flexible, dst_flexible, changed)
    BY <1>1, <1>9, <2>1 DEF Visit, Skip, Unsized, Sized
  <2>3. offset[ii] = 0 \/ offset[ii + 1] = 0
    BY <1>9 DEF Settled
  <2> QED
    BY <1>1, <2>2, <2>3 DEF Place
<1> QED
  BY <1>1, <1>5, <1>6, <1>7, <1>8, <1>9 DEF Visit, Unsized, Sized

\* A visit that does not fail makes progress.
LEMMA VisitProgress ==
  ASSUME TypeOK, Running, Progress, ~build.rounded, Visit, result' = "running"
  PROVE  Progress'
<1>1. result = "running" /\ ii < n
  BY DEF Visit
<1>2. Given
  BY TypeFacts
<1>3. ii \in Items /\ ii = ii
  BY <1>1, <1>2, TypeFacts, Givens
<1>4. CASE Skip(ii)
  BY <1>1, <1>4, SkipProgress
<1>5. ASSUME ~set[ii], src_flexible # 0, NEW e \in Estimates(ii), e < MinSize(item[ii]),
             Place(ii, MinSize(item[ii]), TRUE, src_flexible - item[ii].src,
                   dst_flexible - MinSize(item[ii]), TRUE)
      PROVE  Progress'
  BY <1>1, <1>3, <1>5, RaiseProgress
<1>6. ASSUME ~set[ii], src_flexible # 0, NEW e \in Estimates(ii),
             Place(ii, e, FALSE, src_flexible, dst_flexible, changed)
      PROVE  Progress'
  BY <1>1, <1>3, <1>6, EstimateProgress
<1>7. CASE set[ii] /\ ~Settled(ii) /\ Place(ii, size[ii], TRUE, src_flexible, dst_flexible, changed)
  BY <1>1, <1>3, <1>7, SizedProgress
<1> QED
  BY <1>1, <1>4, <1>5, <1>6, <1>7 DEF Visit, Unsized, Sized, Fail

-----------------------------------------------------------------------------
(* The end of a sweep, and the start.                                        *)

\* Between a known end and an unknown one there is the other known one.
LEMMA LastUnknown ==
  ASSUME NEW m \in Nat, NEW off, NEW j \in 0 .. m, off[j] = 0, off[m] # 0
  PROVE  \E k \in j .. m - 1 : off[k] = 0 /\ off[k + 1] # 0
<1> SUFFICES ASSUME \A k \in j .. m - 1 : off[k] = 0 => off[k + 1] = 0
             PROVE  FALSE
  OBVIOUS
<1> DEFINE S == {k \in 0 .. m : k >= j => off[k] = 0}
<1>1. 0 \in S
  OBVIOUS
<1>2. ASSUME NEW k \in 0 .. m - 1, k \in S
      PROVE  k + 1 \in S
  <2>1. k + 1 \in 0 .. m
    OBVIOUS
  <2>2. CASE k + 1 = j
    BY <2>1, <2>2
  <2>3. CASE k + 1 # j
    <3>1. k + 1 >= j => k >= j
      BY <2>3
    <3>2. k >= j => k \in j .. m - 1
      OBVIOUS
    <3> QED
      BY <1>2, <2>1, <3>1, <3>2
  <2> QED
    BY <2>2, <2>3
<1> HIDE DEF S
<1>3. m \in S
  BY <1>1, <1>2, Upward
<1> QED
  BY <1>3 DEF S

\* When a sweep has changed nothing, next_flexible has no size, nor has an item
\* behind it.
LEMMA TwoUnset ==
  ASSUME TypeOK, Running, Progress, ii = n, remain_to_set # 0, ~changed
  PROVE  /\ next_flexible \in Items /\ ~set[next_flexible]
         /\ \E g \in Items : g # next_flexible /\ ~set[g]
<1> DEFINE f == next_flexible
<1>1. Given /\ f \in 0 .. n
  BY TypeFacts
<1>2. n \in Nat /\ n >= 1 /\ Items = 0 .. n - 1 /\ DstOffset > 0 /\ DstOffset <= limit
      /\ DstOffset \in Nat /\ limit \in Nat
  BY <1>1, Givens
<1>3. offset[0] # 0 /\ offset[n] # 0
  <2>1. offset[0] = DstOffset /\ offset[n] = limit
    BY DEF Running, Shape
  <2> QED
    BY <1>2, <2>1
<1>4. /\ \A k \in Items : k < f => Settled(k)
      /\ f < n => ~Settled(f)
      /\ \A k \in Items : k < n => Settled(k) \/ Waiting(k)
  BY DEF Progress, Advance
<1>5. f \in Items
  <2> SUFFICES ASSUME f = n
               PROVE  FALSE
    BY <1>1, <1>2
  <2>1. \A k \in Items : set[k]
    BY <1>2, <1>4 DEF Settled
  <2>2. Unset(set) # {}
    BY DEF Progress
  <2> QED
    BY <2>1, <2>2 DEF Unset
<1>6. f \in Nat /\ f < n /\ f + 1 \in 0 .. n
  BY <1>2, <1>5
<1>7. offset[f] # 0
  <2>1. CASE f = 0
    BY <1>3, <2>1
  <2>2. CASE f # 0
    <3>1. f - 1 \in Items /\ f - 1 < f /\ (f - 1) + 1 = f
      BY <1>2, <1>5, <2>2
    <3>2. Settled(f - 1)
      BY <1>4, <3>1
    <3> QED
      BY <3>1, <3>2 DEF Settled
  <2> QED
    BY <2>1, <2>2
<1>8. Waiting(f)
  BY <1>4, <1>5, <1>6
<1>9. ~set[f] /\ offset[f + 1] = 0
  BY <1>7, <1>8 DEF Waiting
<1>10. PICK g \in f + 1 .. n - 1 : offset[g] = 0 /\ offset[g + 1] # 0
  BY <1>2, <1>3, <1>6, <1>9, LastUnknown
<1>11. g \in Items /\ g < n /\ g # f
  BY <1>2, <1>6
<1>12. ~set[g]
  <2>1. ~Settled(g)
    BY <1>10 DEF Settled
  <2>2. Waiting(g)
    BY <1>4, <1>11, <2>1
  <2> QED
    BY <1>10, <2>2 DEF Waiting
<1> QED
  BY <1>5, <1>9, <1>11, <1>12

\* The rounds left are at least the items left.
LEMMA RoundsLeft ==
  ASSUME TypeOK, Budget
  PROVE  /\ Unplaced \in Nat /\ round <= 2 * n + 1
         /\ remain_to_set # 0 => round + 1 <= 2 * n + 1 /\ ~(round + 1 > 10 * n)
<1>1. Given /\ round \in Nat /\ remain_to_set \in Nat
  BY TypeFacts, SizeAssumption
<1>2. n \in Nat /\ n >= 1 /\ Items = 0 .. n - 1
  BY <1>1, Givens
<1>3. Unplaced \in Nat
  <2>1. ones \in [0 .. n - 1 -> Nat]
    BY <1>2 DEF ones
  <2> QED
    BY ONLY <1>2, <2>1, OverType DEF Unplaced
<1>4. round + remain_to_set + Unplaced <= 2 * n + 1
  <2>1. round + remain_to_set + Unplaced <= 2 * n + (IF changed THEN 0 ELSE 1)
    BY DEF Budget
  <2> QED
    BY <1>1, <1>2, <1>3, <2>1
<1>5. round + remain_to_set <= 2 * n + 1
  BY ONLY <1>1, <1>2, <1>3, <1>4
<1> QED
  BY ONLY <1>1, <1>2, <1>3, <1>5

\* Each sweep that leaves something to place is followed by another.
LEMMA NextSweepProgress ==
  ASSUME TypeOK, Running, Progress, EndSweep, remain_to_set # 0
  PROVE  result' = "running" /\ Progress'
<1> DEFINE f == next_flexible
<1>1. /\ Given /\ set \in [0 .. n -> BOOLEAN] /\ changed \in BOOLEAN /\ round \in Nat
      /\ remain_to_set \in Nat /\ size \in [Items -> Nat] /\ src_flexible \in Nat
  BY TypeFacts, SizeAssumption
<1>2. n \in Nat /\ Items = 0 .. n - 1 /\ Items \subseteq 0 .. n
  BY <1>1, Givens
<1>3. /\ result = "running" /\ ii = n /\ set' = Freeze
      /\ round' = IF build.counted THEN round + 1 ELSE round
      /\ IF round' > 10 * n
           THEN result' = "false" /\ UNCHANGED <<ii, changed>>
           ELSE ii' = 0 /\ changed' = FALSE /\ UNCHANGED result
      /\ UNCHANGED next_flexible
      /\ UNCHANGED <<input, offset, size, src_flexible, dst_flexible, remain_to_set>>
  BY DEF EndSweep, totals
<1>4. /\ Unplaced \in Nat /\ ~(round + 1 > 10 * n) /\ ~(round > 10 * n)
      /\ round' \in Nat /\ round' <= round + 1
  <2>1. Budget
    BY DEF Progress
  <2>2. Unplaced \in Nat /\ ~(round + 1 > 10 * n)
    BY <2>1, RoundsLeft
  <2>3. round' = round \/ round' = round + 1
    BY <1>3
  <2> QED
    BY <1>1, <1>2, <2>2, <2>3
<1>5. result' = "running" /\ ii' = 0 /\ changed' = FALSE
  BY <1>3, <1>4
<1>6. n' = n /\ Items' = Items
  BY <1>3 DEF input, Items
<1>7. ~changed => /\ f \in Items /\ ~set[f] /\ set' = [set EXCEPT ![f] = TRUE]
                  /\ \E g \in Items : g # f /\ ~set[g]
  <2> SUFFICES ASSUME ~changed
               PROVE  /\ f \in Items /\ ~set[f] /\ set' = [set EXCEPT ![f] = TRUE]
                      /\ \E g \in Items : g # f /\ ~set[g]
    OBVIOUS
  <2>1. f \in Items /\ ~set[f] /\ \E g \in Items : g # f /\ ~set[g]
    BY <1>3, TwoUnset
  <2>2. f < n
    BY <1>2, <2>1
  <2> QED
    BY <1>3, <2>1, <2>2 DEF Freeze
<1>8. changed => set' = set
  BY <1>3 DEF Freeze
<1>9. \A j \in Items : set[j] => set'[j]
  BY <1>1, <1>2, <1>7, <1>8
<1>10. Advance'
  <2>1. \A j \in Items : j < next_flexible => Settled(j)
    BY DEF Progress, Advance
  <2>2. \A j \in Items : Settled(j) => Settled(j)'
    BY <1>3, <1>9 DEF Settled
  <2>3. ~(next_flexible' < 0) /\ \A j \in Items' : ~(j < 0)
    <3>1. next_flexible \in 0 .. n
      BY TypeFacts
    <3> QED
      BY <1>2, <1>3, <1>6, <3>1
  <2> QED
    BY <1>3, <1>5, <1>6, <2>1, <2>2, <2>3 DEF Advance
<1>11. Budget'
  <2> DEFINE left == Over(Unset(set'), ones, n)
  <2>1. Unplaced' = left
    BY <1>6 DEF Unplaced, Unset, ones
  <2>2. left \in Nat /\ left + (IF changed THEN 0 ELSE 1) <= Unplaced
    <3>1. CASE changed
      <4>1. left = Unplaced
        BY <1>8, <3>1 DEF Unplaced
      <4> QED
        BY <1>4, <3>1, <4>1
    <3>2. CASE ~changed
      <4>1. PICK fr \in BOOLEAN : fr = TRUE
        OBVIOUS
      <4>2. set' = [set EXCEPT ![f] = fr] /\ f \in Items /\ ~set[f]
        BY <1>7, <3>2, <4>1
      <4>3. left \in Nat /\ left = Unplaced - 1
        <5> HIDE DEF f
        <5>1. Over(Unset([set EXCEPT ![f] = fr]), ones, n) = Unplaced - 1
              /\ Over(Unset([set EXCEPT ![f] = fr]), ones, n) \in Nat
          BY <1>1, <4>1, <4>2, UnsetWithout
        <5> QED
          BY <4>2, <5>1
      <4> HIDE DEF left
      <4>4. left + 1 <= Unplaced
        BY <1>4, <4>3
      <4> QED
        BY <3>2, <4>3, <4>4
    <3> QED
      BY <3>1, <3>2
  <2> HIDE DEF left
  <2>3. PICK d \in Nat, dd \in Nat, r \in Nat, u \in Nat, v \in Nat, c \in {0, 1} :
          /\ d = round /\ dd = round' /\ r = remain_to_set /\ u = Unplaced /\ v = left
          /\ c = IF changed THEN 0 ELSE 1
    BY <1>1, <1>4, <2>2
  <2>4. d + r + u <= 2 * n + c /\ v + c <= u /\ dd <= d + 1
    <3>1. v + c <= u
      BY <2>2, <2>3
    <3>2. d + r + u <= 2 * n + c
      BY <2>3 DEF Progress, Budget
    <3> QED
      BY <1>4, <2>3, <3>1, <3>2
  <2>5. dd + r + v <= 2 * n + 1
    BY <1>2, <2>4
  <2> QED
    BY <1>3, <1>5, <1>6, <2>1, <2>3, <2>5 DEF Budget
<1>12. Unset(set') # {} /\ Exact(set', src_flexible', dst_flexible')
  <2>1. CASE changed
    BY <1>3, <1>8, <2>1 DEF Progress
  <2>2. CASE ~changed
    <3>1. Unset(set') # {}
      <4>1. PICK g \in Items : g # f /\ ~set[g]
        BY <1>7, <2>2
      <4>2. ~set'[g]
        BY <1>1, <1>2, <1>7, <2>2, <4>1
      <4> QED
        BY <4>2 DEF Unset
    <3>2. ASSUME NEW j \in Unset(set')
          PROVE  src_flexible * least[j] <= sources[j] * dst_flexible
      <4>1. j \in Items /\ j \in Unset(set) /\ ~set[j] /\ j < n
        BY <1>2, <1>9 DEF Unset
      <4>2. src_flexible * size[j] <= sources[j] * dst_flexible
        BY <1>3, <2>2, <4>1 DEF Progress, Shares
      <4>3. least[j] <= size[j]
        BY <1>3, <2>2, <4>1 DEF Running, Estimated
      <4>4. least[j] \in Nat /\ sources[j] \in Nat /\ size[j] \in Nat /\ dst_flexible \in Nat
        <5>1. dst_flexible \in Nat
          BY TypeFacts DEF SizesTyped
        <5> QED
          BY <1>1, <4>1, <5>1, Givens
      <4>5. src_flexible * least[j] <= src_flexible * size[j]
        <5>1. least[j] \in Int /\ size[j] \in Int /\ src_flexible \in Nat
          BY <1>1, <4>4
        <5> QED
          BY ONLY <4>3, <5>1, Monotone
      <4>6. /\ src_flexible * least[j] \in Int /\ src_flexible * size[j] \in Int
            /\ sources[j] * dst_flexible \in Int
        <5>1. src_flexible \in Nat
          BY <1>1
        <5> QED
          BY ONLY <4>4, <5>1, Products
      <4> QED
        BY ONLY <4>2, <4>5, <4>6
    <3> QED
      BY <1>3, <3>1, <3>2 DEF Exact
  <2> QED
    BY <2>1, <2>2
<1>13. Shares(set', size', src_flexible', dst_flexible', ii')
  <2>1. \A j \in Unset(set') : ~(j < 0)
    BY <1>2 DEF Unset
  <2> QED
    BY <1>5, <2>1 DEF Shares
<1> QED
  BY <1>3, <1>5, <1>10, <1>11, <1>12, <1>13, ProgressNext

\* The first sweep.
LEMMA BeginProgress ==
  ASSUME TypeOK, Starting, next_flexible = 0, round = 0, Begin
  PROVE  Progress'
<1> DEFINE st == [k \in 0 .. n |-> (k = n /\ Feasible) \/ (k < n /\ item[k].fixed)]
           sz == [k \in Items |-> IF item[k].fixed THEN item[k].src ELSE 0]
<1>1. Given /\ Feasible
  BY TypeFacts DEF Begin
<1>2. /\ n \in Nat /\ n >= 1 /\ Items = 0 .. n - 1 /\ sources \in [0 .. n - 1 -> Nat]
  BY <1>1, Givens
<1>3. /\ set' = st /\ size' = sz
      /\ src_flexible' = SrcFlexible /\ dst_flexible' = FlexibleSpace /\ remain_to_set' = n
      /\ round' \in {0, 1}
      /\ UNCHANGED <<input, next_flexible, ii, changed>>
  BY DEF Begin, Fix
<1>4. ii = 0 /\ ~changed
  BY DEF Starting
<1>5. Balanced({}, st, sz, SrcFlexible, FlexibleSpace)
  BY <1>1, FixBalanced
<1>6. SrcFlexible > 0
  BY <1>1 DEF Feasible
<1> HIDE DEF st, sz
<1>7. n' = n /\ Items' = Items
  BY <1>3 DEF input, Items
<1>8. SrcFlexible = Over(Unset(st), sources, n)
  <2>1. {} \cup Unset(st) = Unset(st)
    OBVIOUS
  <2>2. SrcFlexible = Over({} \cup Unset(st), sources, n)
    BY <1>5 DEF Balanced
  <2> QED
    BY <2>1, <2>2
<1>9. Unset(st) # {}
  <2> SUFFICES ASSUME Unset(st) = {}
               PROVE  FALSE
    OBVIOUS
  <2>1. Over({}, sources, n) = 0
    BY ONLY <1>2, OverEmpty
  <2> QED
    BY <1>6, <1>8, <2>1
<1>10. Advance'
  <2>1. ~(next_flexible' < ii') /\ \A j \in Items' : ~(j < next_flexible') /\ ~(j < ii')
    BY <1>2, <1>3, <1>4, <1>7
  <2> QED
    BY <2>1 DEF Advance
<1>11. Budget'
  <2> DEFINE left == Over(Unset(st), ones, n)
  <2>1. Unplaced' = left
    BY <1>3, <1>7 DEF Unplaced, Unset, ones
  <2>2. left \in Nat /\ left <= n
    <3>1. ones \in [0 .. n - 1 -> Nat] /\ \A k \in 0 .. n - 1 : k \in Unset(st) => ones[k] <= 1
      BY <1>2 DEF ones
    <3> QED
      BY ONLY <1>2, <3>1, OverType, OverOnes
  <2> HIDE DEF left
  <2>3. PICK d \in Nat, v \in Nat, m \in Nat : d = round' /\ d <= 1 /\ v = left /\ v <= m /\ m = n
    BY <1>2, <1>3, <2>2
  <2>4. d + m + v <= 2 * m + 1
    <3>1. d <= 1 /\ v <= m
      BY <2>3
    <3> QED
      BY ONLY <3>1
  <2> QED
    BY <1>3, <1>4, <1>7, <2>1, <2>3, <2>4 DEF Budget
<1>12. Unset(set') # {} /\ Exact(set', src_flexible', dst_flexible')
  BY <1>3, <1>8, <1>9 DEF Exact
<1>13. Shares(set', size', src_flexible', dst_flexible', ii')
  <2>1. \A j \in Unset(set') : ~(j < ii')
    BY <1>2, <1>3, <1>4 DEF Unset
  <2> QED
    BY <2>1 DEF Shares
<1> QED
  BY <1>3, <1>10, <1>11, <1>12, <1>13, ProgressNext

\* The invariant of exact estimates.
RInv ==
  /\ IInv
  /\ result = "start" => next_flexible = 0 /\ round = 0
  /\ ~build.rounded => /\ result = "running" => Progress
                       /\ round <= 2 * n + 1
  /\ RefusesOnlyInfeasible

LEMMA ExactInit == Init => RInv
<1> SUFFICES ASSUME Init
             PROVE  RInv
  OBVIOUS
<1>1. IInv
  BY InitHolds
<1>2. next_flexible = 0 /\ round = 0 /\ result = "start"
  BY DEF Init
<1>3. n \in Nat
  BY SizeAssumption DEF Init
<1>4. round <= 2 * n + 1
  BY <1>2, <1>3
<1> QED
  BY <1>1, <1>2, <1>4 DEF RInv, RefusesOnlyInfeasible

LEMMA ExactNext == RInv /\ [Next]_vars => RInv'
<1> SUFFICES ASSUME RInv, [Next]_vars
             PROVE  RInv'
  OBVIOUS
<1>1. /\ IInv /\ TypeOK /\ IInv'
      /\ result = "start" => Starting /\ next_flexible = 0 /\ round = 0
      /\ result = "running" => Running
  BY NextKeeps DEF RInv, IInv
<1>2. ASSUME UNCHANGED input
      PROVE  /\ n' = n /\ build' = build
             /\ Wanted' <=> Wanted
             /\ Feasible' <=> Feasible
  <2>1. n' = n /\ item' = item /\ limit' = limit /\ build' = build
    BY <1>2 DEF input
  <2> QED
    BY <2>1 DEF Items, Wanted, Feasible, Enough, SrcFlexible, SrcMin, Total, MinSize
<1>3. ASSUME UNCHANGED input, result' # "start",
             ~build.rounded => /\ result' = "running" => Progress'
                               /\ round' <= 2 * n + 1
                               /\ result' \in {"false", "throw"} /\ Wanted => ~Feasible
      PROVE  RInv'
  BY <1>1, <1>2, <1>3 DEF RInv, RefusesOnlyInfeasible
<1>4. CASE Begin
  <2>1. TypeOK /\ Starting /\ next_flexible = 0 /\ round = 0
    BY <1>1, <1>4 DEF Begin
  <2>2. Progress'
    BY <1>4, <2>1, BeginProgress
  <2>3. UNCHANGED input /\ result' = "running"
    BY <1>4 DEF Begin
  <2>4. round' <= 2 * n + 1
    <3>1. TypeOK' /\ Budget'
      BY <1>1, <2>2 DEF IInv, Progress
    <3>2. (round <= 2 * n + 1)'
      BY <3>1, RoundsLeft, PTL
    <3> QED
      BY <1>2, <2>3, <3>2
  <2> QED
    BY <1>3, <2>2, <2>3, <2>4
<1>5. CASE Reject
  <2>1. UNCHANGED input /\ result' = "false" /\ ~Feasible /\ round' = round /\ result = "start"
    BY <1>5 DEF Reject, sweep
  <2>2. ~build.rounded => round' <= 2 * n + 1
    BY <2>1 DEF RInv
  <2> QED
    BY <1>3, <2>1, <2>2
<1>6. CASE Visit
  <2>1. Running /\ result = "running"
    BY <1>1, <1>6 DEF Visit
  <2>2. UNCHANGED input /\ result' \in {"running", "false", "throw"}
    BY <1>1, <1>6, <2>1, VisitKeeps
  <2>3. round' = round
    BY <1>6 DEF Visit, Skip, Unsized, Sized, Place, Fail, sweep
  <2>4. ASSUME ~build.rounded
        PROVE  /\ result' = "running" => Progress'
               /\ round' <= 2 * n + 1
               /\ result' \in {"false", "throw"} /\ Wanted => ~Feasible
    <3>1. Progress /\ round <= 2 * n + 1
      BY <2>1, <2>4 DEF RInv
    <3>2. result' = "running" => Progress'
      BY <1>1, <1>6, <2>1, <2>4, <3>1, VisitProgress
    <3>3. Wanted => result' = "running"
      BY <1>1, <1>6, <2>1, <2>4, <3>1, VisitSucceeds
    <3> QED
      BY <2>3, <3>1, <3>2, <3>3
  <2>5. result' # "start"
    BY <2>2
  <2> QED
    BY <1>3, <2>2, <2>4, <2>5
<1>7. CASE EndSweep
  <2>1. Running /\ result = "running"
    BY <1>1, <1>7 DEF EndSweep
  <2>2. UNCHANGED input /\ result' \in {"running", "true", "false"}
    BY <1>1, <1>7, <2>1, EndSweepKeeps
  <2>3. ASSUME ~build.rounded
        PROVE  /\ result' = "running" => Progress'
               /\ round' <= 2 * n + 1
               /\ result' \in {"false", "throw"} /\ Wanted => ~Feasible
    <3>1. Progress /\ round <= 2 * n + 1
      BY <2>1, <2>3 DEF RInv
    <3>2. CASE remain_to_set = 0
      <4>1. result' = "true" /\ round' = round
        BY <1>7, <3>2 DEF EndSweep, sweep
      <4> QED
        BY <3>1, <4>1
    <3>3. CASE remain_to_set # 0
      <4>1. result' = "running" /\ Progress'
        BY <1>1, <1>7, <2>1, <3>1, <3>3, NextSweepProgress
      <4>2. TypeOK' /\ Budget'
        BY <1>1, <4>1 DEF IInv, Progress
      <4>3. (round <= 2 * n + 1)'
        BY <4>2, RoundsLeft, PTL
      <4> QED
        BY <1>2, <2>2, <4>1, <4>3
    <3> QED
      BY <3>2, <3>3
  <2>4. result' # "start"
    BY <2>2
  <2> QED
    BY <1>3, <2>2, <2>3, <2>4
<1>8. CASE UNCHANGED vars
  <2>1. /\ UNCHANGED input /\ UNCHANGED <<build, n, limit, item, set, offset, size>>
        /\ UNCHANGED <<src_flexible, dst_flexible, remain_to_set>>
        /\ UNCHANGED <<next_flexible, ii, changed, round, result>>
    BY <1>8 DEF vars, input, layout, totals, sweep
  <2>2. Items' = Items /\ least' = least /\ sources' = sources /\ Unset(set)' = Unset(set)
    BY <2>1 DEF Items, least, sources, Unset, MinSize
  <2>3. Progress' <=> Progress
    <3>1. Advance' <=> Advance
      BY <2>1, <2>2 DEF Advance, Settled, Waiting
    <3>2. Budget' <=> Budget
      <4>1. Unplaced' = Unplaced
        BY <2>1, <2>2 DEF Unplaced, ones
      <4> QED
        BY <2>1, <4>1 DEF Budget
    <3>3. Exact(set, src_flexible, dst_flexible)' <=> Exact(set, src_flexible, dst_flexible)
      BY <2>1, <2>2 DEF Exact
    <3>4. Shares(set, size, src_flexible, dst_flexible, ii)'
            <=> Shares(set, size, src_flexible, dst_flexible, ii)
      BY <2>1, <2>2 DEF Shares
    <3> QED
      BY <2>1, <2>2, <3>1, <3>2, <3>3, <3>4 DEF Progress
  <2> QED
    BY <1>1, <1>2, <2>1, <2>3 DEF RInv, RefusesOnlyInfeasible
<1>9. CASE Stop
  BY <1>8, <1>9 DEF Stop
<1> QED
  BY <1>4, <1>5, <1>6, <1>7, <1>8, <1>9 DEF Next

LEMMA ExactHolds == Spec => []RInv
  BY ExactInit, ExactNext, PTL DEF Spec

\* With exact estimates the sweeps are at most twice the partitions and one, so
\* the limit of ten times the partitions, which a build without LOG_DEBUG does
\* not even count, is never what ends them.
THEOREM RoundsBounded == Spec => [](~build.rounded => round <= 2 * n + 1)
  BY ExactHolds, PTL DEF RInv

\* With exact estimates a disk that can hold the minimum sizes is never refused:
\* every sweep leaves an item for the last gap, and the gap holds it.
THEOREM FeasibleNeverRefused == Spec => []RefusesOnlyInfeasible
  BY ExactHolds, PTL DEF RInv

===============================================================================
