---------------------------- MODULE ContractProofs ----------------------------
(***************************************************************************)
(* Theorems about Contract: contracts are decided as they were signed, for *)
(* trees of every depth.                                                   *)
(***************************************************************************)
EXTENDS Contract, WellFoundedInduction, TLAPS

USE ContractAssumption

(* Induction, over a set: the numbers that have the property.              *)
LEMMA InductionOverSet ==
  ASSUME NEW T \in SUBSET Nat, 0 \in T, \A n \in T : n + 1 \in T
  PROVE  T = Nat
<1> SUFFICES ASSUME Nat \ T # {} PROVE FALSE
  OBVIOUS
<1>1. PICK x \in Nat \ T : \A y \in Nat \ T : ~(<<y, x>> \in OpToRel(<, Nat))
  BY NatLessThanWellFounded, WFMin, Zenon
<1>2. x # 0 /\ x - 1 \in Nat /\ x - 1 < x /\ (x - 1) + 1 = x
  OBVIOUS
<1>3. x - 1 \in T
  BY <1>1, <1>2 DEF OpToRel
<1>4. (x - 1) + 1 \in T
  BY <1>3
<1> QED
  BY <1>1, <1>2, <1>4

-------------------------------------------------------------------------------
(* Powers of two, and where they cut the leaves.                           *)

IsPow2(f, m) == f = [k \in 0 .. m |-> IF k = 0 THEN 1 ELSE 2 * f[k - 1]]

(* The recursive function Pow2 exists.                                     *)
LEMMA Pow2Exists ==
  ASSUME NEW m \in Nat PROVE \E f : IsPow2(f, m)
<1> DEFINE T == {n \in Nat : \E f : IsPow2(f, n)}
<1>1. 0 \in T
  <2>1. IsPow2([k \in 0 .. 0 |-> 1], 0)
    BY DEF IsPow2
  <2> QED
    BY <2>1
<1>2. ASSUME NEW n \in T PROVE n + 1 \in T
  <2>1. PICK f : IsPow2(f, n)
    OBVIOUS
  <2> DEFINE g == [k \in 0 .. n + 1 |-> IF k = 0 THEN 1 ELSE 2 * f[k - 1]]
  <2>2. n \in Nat
    OBVIOUS
  <2>3. \A k \in 0 .. n : f[k] = IF k = 0 THEN 1 ELSE 2 * f[k - 1]
    BY <2>1, Zenon DEF IsPow2
  <2>4. \A k \in 0 .. n : g[k] = f[k]
    BY <2>2, <2>3
  <2>5. ASSUME NEW k \in 0 .. n + 1, k # 0 PROVE g[k - 1] = f[k - 1]
    <3> HIDE DEF g
    <3>1. k - 1 \in 0 .. n
      BY <2>2, <2>5
    <3> QED
      BY <2>4, <3>1
  <2>6. g = [k \in 0 .. n + 1 |-> IF k = 0 THEN 1 ELSE 2 * g[k - 1]]
    BY <2>5
  <2> HIDE DEF g
  <2>7. IsPow2(g, n + 1)
    BY <2>6 DEF IsPow2
  <2> QED
    BY <2>2, <2>7
<1> HIDE DEF T
<1>3. T \in SUBSET Nat
  BY DEF T
<1>4. T = Nat
  BY <1>1, <1>2, <1>3, InductionOverSet
<1> QED
  BY <1>4 DEF T

(* What it is: one, then twice as much at every step.                      *)
LEMMA Pow2Is ==
  /\ Pow2[0] = 1
  /\ \A k \in 1 .. Depth : Pow2[k] = 2 * Pow2[k - 1]
  /\ \A k \in 0 .. Depth : Pow2[k] \in Nat \ {0}
  /\ Leaves \in Nat \ {0}
<1>1. IsPow2(Pow2, Depth)
  <2>1. \E f : IsPow2(f, Depth)
    BY Pow2Exists
  <2>2. Pow2 = CHOOSE f : IsPow2(f, Depth)
    BY DEF Pow2, IsPow2
  <2> QED
    BY <2>1, <2>2, Zenon
<1>2. \A k \in 0 .. Depth : Pow2[k] = IF k = 0 THEN 1 ELSE 2 * Pow2[k - 1]
  BY <1>1, Zenon DEF IsPow2
<1>3. Pow2[0] = 1 /\ \A k \in 1 .. Depth : Pow2[k] = 2 * Pow2[k - 1]
  BY <1>2
<1> DEFINE T == {k \in Nat : k <= Depth => Pow2[k] \in Nat \ {0}}
<1>4. 0 \in T
  BY <1>3
<1>5. ASSUME NEW k \in T PROVE k + 1 \in T
  <2> SUFFICES ASSUME k + 1 <= Depth PROVE Pow2[k + 1] \in Nat \ {0}
    OBVIOUS
  <2>1. Pow2[k] \in Nat \ {0} /\ k + 1 \in 1 .. Depth /\ (k + 1) - 1 = k
    OBVIOUS
  <2>2. Pow2[k + 1] = 2 * Pow2[k]
    BY <1>3, <2>1
  <2> QED
    BY <2>1, <2>2
<1>6. T \in SUBSET Nat
  OBVIOUS
<1>7. T = Nat
  <2> HIDE DEF T
  <2> QED
    BY <1>4, <1>5, <1>6, InductionOverSet
<1>8. \A k \in 0 .. Depth : Pow2[k] \in Nat \ {0}
  BY <1>7
<1> QED
  BY <1>3, <1>8 DEF Leaves

(* The leaves divide into whole subtrees of every height.                  *)
LEMMA Pow2Divides ==
  ASSUME NEW k \in 0 .. Depth PROVE \E q \in Nat : Leaves = q * Pow2[k]
<1> DEFINE T == {j \in Nat : j <= Depth => \E q \in Nat : Leaves = q * Pow2[Depth - j]}
<1>1. 0 \in T
  <2>1. Depth - 0 = Depth /\ Leaves = 1 * Pow2[Depth]
    BY Pow2Is DEF Leaves
  <2> QED
    BY <2>1
<1>2. ASSUME NEW j \in T PROVE j + 1 \in T
  <2> SUFFICES ASSUME j + 1 <= Depth
               PROVE  \E q \in Nat : Leaves = q * Pow2[Depth - (j + 1)]
    OBVIOUS
  <2>1. PICK q \in Nat : Leaves = q * Pow2[Depth - j]
    OBVIOUS
  <2> DEFINE i == Depth - j
  <2>2. i \in 1 .. Depth /\ i - 1 = Depth - (j + 1) /\ i - 1 \in 0 .. Depth
    OBVIOUS
  <2>3. Pow2[i] = 2 * Pow2[i - 1] /\ Pow2[i - 1] \in Nat
    BY <2>2, Pow2Is
  <2> HIDE DEF i
  <2>4. Leaves = (2 * q) * Pow2[i - 1]
    BY <2>1, <2>3 DEF i
  <2>5. 2 * q \in Nat
    OBVIOUS
  <2> QED
    BY <2>2, <2>4, <2>5
<1>3. T \in SUBSET Nat
  OBVIOUS
<1>4. T = Nat
  <2> HIDE DEF T
  <2> QED
    BY <1>1, <1>2, <1>3, InductionOverSet
<1>5. Depth - k \in Nat /\ Depth - k <= Depth /\ Depth - (Depth - k) = k
  OBVIOUS
<1>6. \E q \in Nat : Leaves = q * Pow2[Depth - (Depth - k)]
  BY <1>4, <1>5, Zenon
<1> QED
  BY <1>5, <1>6

(* Division with remainder.                                                *)
LEMMA Division ==
  ASSUME NEW n \in Nat, NEW c \in Nat \ {0}
  PROVE  /\ n \div c \in Nat /\ n % c \in 0 .. c - 1
         /\ n = (n \div c) * c + (n % c)
  OBVIOUS

(* The subtree of a leaf ends within the tree.                             *)
LEMMA SubtreeEnds ==
  ASSUME NEW k \in 0 .. Depth, NEW n \in 0 .. Leaves - 1
  PROVE  /\ n \div Pow2[k] \in Nat
         /\ (n \div Pow2[k] + 1) * Pow2[k] <= Leaves
<1> DEFINE c == Pow2[k]
           i == n \div c
<1>1. c \in Nat \ {0} /\ Leaves \in Nat /\ n \in Nat
  BY Pow2Is
<1>2. PICK q \in Nat : Leaves = q * c
  BY Pow2Divides
<1> HIDE DEF c
<1>3. i \in Nat /\ i * c <= n
  BY <1>1, Division
<1> HIDE DEF i
<1>4. i * c < q * c
  BY <1>1, <1>2, <1>3
<1>5. i < q
  BY <1>1, <1>3, <1>4
<1>6. (i + 1) * c <= q * c
  BY <1>1, <1>3, <1>5
<1> QED
  BY <1>2, <1>3, <1>6 DEF i, c

(* A subtree of twice the size, from its left or its right half.           *)
LEMMA Halves ==
  ASSUME NEW n \in Nat, NEW c \in Nat \ {0}
  PROVE  LET a == n \div c
             e == n \div (2 * c)
         IN  /\ a \in Nat /\ e \in Nat
             /\ a % 2 = 0 => a = 2 * e /\ n % (2 * c) = n % c
             /\ a % 2 # 0 => a = 2 * e + 1 /\ n % (2 * c) = (n % c) + c
<1> DEFINE a == n \div c
           e == n \div (2 * c)
<1>1. a \in Nat /\ n % c \in 0 .. c - 1 /\ n = a * c + (n % c)
  BY Division
<1>2. 2 * c \in Nat \ {0}
  OBVIOUS
<1>3. e \in Nat /\ n % (2 * c) \in 0 .. 2 * c - 1 /\ n = e * (2 * c) + (n % (2 * c))
  BY <1>2, Division
<1>4. e = a \div 2
  OBVIOUS
<1> DEFINE r == n % c
           s == n % (2 * c)
<1> HIDE DEF a, e, r, s
<1>5. a = 2 * e \/ a = 2 * e + 1
  BY <1>1, <1>3, <1>4
<1>6. ASSUME a % 2 = 0 PROVE a = 2 * e /\ s = r
  <2>1. a = 2 * e
    BY <1>1, <1>3, <1>5, <1>6
  <2> QED
    BY <1>1, <1>3, <2>1 DEF r, s
<1>7. ASSUME a % 2 # 0 PROVE a = 2 * e + 1 /\ s = r + c
  <2>1. a = 2 * e + 1
    BY <1>1, <1>3, <1>5, <1>7
  <2> QED
    BY <1>1, <1>3, <2>1 DEF r, s
<1> QED
  BY <1>1, <1>3, <1>6, <1>7 DEF a, e, r, s

(* Part of a sequence.                                                     *)
LEMMA SubSeqPart ==
  ASSUME NEW A, NEW s \in Seq(A), NEW x \in Nat, NEW y \in Nat, x <= y, y <= Len(s)
  PROVE  SubSeq(s, x + 1, y) \in Seq(A) /\ Len(SubSeq(s, x + 1, y)) = y - x
  OBVIOUS

(* Parts of a sequence that meet.                                          *)
LEMMA SubSeqJoin ==
  ASSUME NEW A, NEW s \in Seq(A), NEW x \in Nat, NEW y \in Nat, NEW z \in Nat,
         x <= y, y <= z, z <= Len(s)
  PROVE  SubSeq(s, x + 1, y) \o SubSeq(s, y + 1, z) = SubSeq(s, x + 1, z)
<1> DEFINE t == SubSeq(s, x + 1, y)
           u == SubSeq(s, y + 1, z)
           v == SubSeq(s, x + 1, z)
<1>1. Len(s) \in Nat
  OBVIOUS
<1>2. /\ t \in Seq(A) /\ Len(t) = y - x
      /\ \A i \in 1 .. y - x : t[i] = s[x + i]
  BY <1>1
<1>3. /\ u \in Seq(A) /\ Len(u) = z - y
      /\ \A i \in 1 .. z - y : u[i] = s[y + i]
  BY <1>1
<1>4. /\ v \in Seq(A) /\ Len(v) = z - x
      /\ \A i \in 1 .. z - x : v[i] = s[x + i]
  BY <1>1
<1> HIDE DEF t, u, v
<1>5. /\ t \o u \in Seq(A) /\ Len(t \o u) = z - x
      /\ \A i \in 1 .. y - x : (t \o u)[i] = t[i]
      /\ \A i \in (y - x) + 1 .. z - x : (t \o u)[i] = u[i - (y - x)]
  BY <1>2, <1>3
<1> DEFINE w == t \o u
<1> HIDE DEF w
<1>6. ASSUME NEW i \in 1 .. z - x PROVE w[i] = v[i]
  <2>1. CASE i \in 1 .. y - x
    BY <1>2, <1>4, <1>5, <2>1 DEF w
  <2>2. CASE i \in (y - x) + 1 .. z - x
    <3>1. i - (y - x) \in 1 .. z - y /\ y + (i - (y - x)) = x + i
      BY <2>2
    <3>2. w[i] = u[i - (y - x)]
      BY <1>5, <2>2 DEF w
    <3>3. u[i - (y - x)] = s[x + i]
      BY <1>3, <3>1
    <3> QED
      BY <1>4, <3>2, <3>3
  <2> QED
    BY <2>1, <2>2
<1>7. w = v
  <2> DEFINE m == z - x
  <2>1. m \in Nat /\ w \in Seq(A) /\ v \in Seq(A) /\ Len(w) = m /\ Len(v) = m
    BY <1>4, <1>5 DEF w
  <2>2. \A i \in 1 .. m : w[i] = v[i]
    BY <1>6
  <2> HIDE DEF m
  <2>3. w \in [1 .. m -> A]
    BY <2>1
  <2>4. v \in [1 .. m -> A]
    BY <2>1
  <2>5. w = [i \in 1 .. m |-> w[i]] /\ v = [i \in 1 .. m |-> v[i]]
    BY <2>3, <2>4
  <2>6. [i \in 1 .. m |-> w[i]] = [i \in 1 .. m |-> v[i]]
    BY <2>2
  <2> QED
    BY <2>5, <2>6, Zenon
<1> QED
  BY <1>7 DEF t, u, v, w

-------------------------------------------------------------------------------
(* RootOf.                                                                 *)

(* One level up: the subtree below joined with its sibling's.              *)
Up(h, branches, n, k) ==
  IF IsLeft(k - 1, n) THEN h \o branches[k] ELSE branches[k] \o h

IsClimb(f, m, leaf, branches, n) ==
  f = [k \in 0 .. m |-> IF k = 0 THEN leaf ELSE Up(f[k - 1], branches, n, k)]

(* The recursive function of RootOf exists.                                *)
LEMMA ClimbExists ==
  ASSUME NEW leaf, NEW branches, NEW n, NEW m \in Nat
  PROVE  \E f : IsClimb(f, m, leaf, branches, n)
<1> DEFINE T == {j \in Nat : \E f : IsClimb(f, j, leaf, branches, n)}
<1>1. 0 \in T
  <2>1. IsClimb([k \in 0 .. 0 |-> leaf], 0, leaf, branches, n)
    BY DEF IsClimb
  <2> QED
    BY <2>1
<1>2. ASSUME NEW j \in T PROVE j + 1 \in T
  <2>1. PICK f : IsClimb(f, j, leaf, branches, n)
    OBVIOUS
  <2> DEFINE E(h, k) == Up(h, branches, n, k)
             g == [k \in 0 .. j + 1 |-> IF k = 0 THEN leaf ELSE E(f[k - 1], k)]
  <2>2. j \in Nat
    OBVIOUS
  <2>3. f = [k \in 0 .. j |-> IF k = 0 THEN leaf ELSE E(f[k - 1], k)]
    BY <2>1 DEF IsClimb
  <2> HIDE DEF E
  <2>4. \A k \in 0 .. j : f[k] = IF k = 0 THEN leaf ELSE E(f[k - 1], k)
    BY <2>3, Zenon
  <2>5. \A k \in 0 .. j : g[k] = f[k]
    BY <2>2, <2>4
  <2>6. ASSUME NEW k \in 0 .. j + 1, k # 0 PROVE E(g[k - 1], k) = E(f[k - 1], k)
    <3> HIDE DEF g
    <3>1. k - 1 \in 0 .. j
      BY <2>2, <2>6
    <3> QED
      BY <2>5, <3>1
  <2>7. g = [k \in 0 .. j + 1 |-> IF k = 0 THEN leaf ELSE E(g[k - 1], k)]
    BY <2>6
  <2> HIDE DEF g
  <2>8. IsClimb(g, j + 1, leaf, branches, n)
    BY <2>7 DEF IsClimb, E
  <2> QED
    BY <2>2, <2>8
<1> HIDE DEF T
<1>3. T \in SUBSET Nat
  BY DEF T
<1>4. T = Nat
  BY <1>1, <1>2, <1>3, InductionOverSet
<1> QED
  BY <1>4 DEF T

Climbs(f, leaf, branches, n) ==
  f[0] = leaf /\ \A k \in 1 .. Depth : f[k] = Up(f[k - 1], branches, n, k)

(* RootOf is where the climb from the leaf ends.                           *)
LEMMA RootIsClimb ==
  ASSUME NEW leaf, NEW branches, NEW n
  PROVE  \E f : RootOf(leaf, branches, n) = f[Depth] /\ Climbs(f, leaf, branches, n)
<1> DEFINE f == CHOOSE g : IsClimb(g, Depth, leaf, branches, n)
<1>1. IsClimb(f, Depth, leaf, branches, n)
  BY ClimbExists, Zenon
<1>2. RootOf(leaf, branches, n) = f[Depth]
  BY DEF RootOf, IsClimb, Up
<1> HIDE DEF f
<1> DEFINE E(h, k) == Up(h, branches, n, k)
<1> HIDE DEF E
<1>3. f = [k \in 0 .. Depth |-> IF k = 0 THEN leaf ELSE E(f[k - 1], k)]
  BY <1>1 DEF IsClimb, E
<1>4. \A k \in 0 .. Depth : f[k] = IF k = 0 THEN leaf ELSE E(f[k - 1], k)
  BY <1>3, Zenon
<1>5. f[0] = leaf /\ \A k \in 1 .. Depth : f[k] = E(f[k - 1], k)
  BY <1>4
<1> QED
  BY <1>2, <1>5 DEF Climbs, E

(* Branches that are subtrees, whichever tree they are from.               *)
AreBranches(branches, A) ==
  \A k \in 1 .. Depth : branches[k] \in Seq(A) /\ Len(branches[k]) = Pow2[k - 1]

(* One level up, the leaf is at its place in the larger subtree.           *)
LEMMA UpHasLeaf ==
  ASSUME NEW A, NEW branches, AreBranches(branches, A), NEW n \in Nat,
         NEW k \in 1 .. Depth, NEW h \in Seq(A), Len(h) = Pow2[k - 1]
  PROVE  LET u == Up(h, branches, n, k)
         IN  /\ u \in Seq(A) /\ Len(u) = Pow2[k]
             /\ u[(n % Pow2[k]) + 1] = h[(n % Pow2[k - 1]) + 1]
<1> DEFINE c == Pow2[k - 1]
           b == branches[k]
           r == n % c
<1>1. k - 1 \in 0 .. Depth
  OBVIOUS
<1>2. c \in Nat \ {0} /\ Pow2[k] = 2 * c
  BY <1>1, Pow2Is
<1>3. b \in Seq(A) /\ Len(b) = c /\ Len(h) = c
  BY DEF AreBranches
<1> HIDE DEF c, b
<1>4. r \in 0 .. c - 1
  BY <1>2, Division
<1>5. /\ (n \div c) % 2 = 0 => n % (2 * c) = r
      /\ (n \div c) % 2 # 0 => n % (2 * c) = r + c
  BY <1>2, Halves
<1>6. IsLeft(k - 1, n) <=> (n \div c) % 2 = 0
  BY DEF IsLeft, c
<1>7. CASE IsLeft(k - 1, n)
  <2>1. Up(h, branches, n, k) = h \o b
    BY <1>7 DEF Up, b
  <2>2. n % Pow2[k] = r
    BY <1>2, <1>5, <1>6, <1>7
  <2> HIDE DEF r
  <2>3. (h \o b) \in Seq(A) /\ Len(h \o b) = 2 * c /\ (h \o b)[r + 1] = h[r + 1]
    BY <1>2, <1>3, <1>4
  <2> QED
    BY <1>2, <2>1, <2>2, <2>3 DEF r, c
<1>8. CASE ~IsLeft(k - 1, n)
  <2>1. Up(h, branches, n, k) = b \o h
    BY <1>8 DEF Up, b
  <2>2. n % Pow2[k] = r + c
    BY <1>2, <1>5, <1>6, <1>8
  <2> HIDE DEF r
  <2>3. (b \o h) \in Seq(A) /\ Len(b \o h) = 2 * c /\ (b \o h)[(r + c) + 1] = h[r + 1]
    BY <1>2, <1>3, <1>4
  <2> QED
    BY <1>2, <2>1, <2>2, <2>3 DEF r, c
<1> QED
  BY <1>7, <1>8

(* The root of a leaf and branches has the leaf at the destination.        *)
LEMMA RootHasLeaf ==
  ASSUME NEW A, NEW branches, AreBranches(branches, A), NEW n \in 0 .. Leaves - 1,
         NEW leaf \in Seq(A), Len(leaf) = 1
  PROVE  RootOf(leaf, branches, n)[n + 1] = leaf[1]
<1>1. PICK f : RootOf(leaf, branches, n) = f[Depth] /\ Climbs(f, leaf, branches, n)
  BY RootIsClimb
<1> DEFINE P(k) == f[k] \in Seq(A) /\ Len(f[k]) = Pow2[k] /\ f[k][(n % Pow2[k]) + 1] = leaf[1]
           T == {k \in Nat : k <= Depth => P(k)}
<1>2. n \in Nat /\ Leaves \in Nat \ {0} /\ n < Leaves
  BY Pow2Is
<1>3. 0 \in T
  <2>1. Pow2[0] = 1 /\ n % 1 = 0
    BY <1>2, Pow2Is
  <2>2. (n % Pow2[0]) + 1 = 1
    BY <2>1
  <2>3. P(0)
    BY <1>1, <2>1, <2>2 DEF Climbs
  <2> QED
    BY <2>3
<1>4. ASSUME NEW k \in T PROVE k + 1 \in T
  <2> SUFFICES ASSUME k + 1 <= Depth PROVE P(k + 1)
    OBVIOUS
  <2>1. k \in Nat /\ k <= Depth /\ k + 1 \in 1 .. Depth /\ (k + 1) - 1 = k
    OBVIOUS
  <2>2. P(k)
    BY <2>1
  <2>3. f[k + 1] = Up(f[k], branches, n, k + 1)
    BY <1>1, <2>1 DEF Climbs
  <2>4. /\ Up(f[k], branches, n, k + 1) \in Seq(A)
        /\ Len(Up(f[k], branches, n, k + 1)) = Pow2[k + 1]
        /\ Up(f[k], branches, n, k + 1)[(n % Pow2[k + 1]) + 1] = f[k][(n % Pow2[k]) + 1]
    BY <1>2, <2>1, <2>2, UpHasLeaf
  <2> QED
    BY <2>2, <2>3, <2>4
<1> HIDE DEF P
<1>5. T \in SUBSET Nat
  OBVIOUS
<1>6. T = Nat
  <2> HIDE DEF T
  <2> QED
    BY <1>3, <1>4, <1>5, InductionOverSet
<1>7. P(Depth)
  BY <1>6
<1>8. n % Pow2[Depth] = n
  BY <1>2 DEF Leaves
<1> QED
  BY <1>1, <1>7, <1>8 DEF P

-------------------------------------------------------------------------------
(* ComputeProof.                                                           *)

(* The sibling's subtree at every height is within the tree, and the two   *)
(* make up the subtree one level up.                                       *)
LEMMA SiblingJoins ==
  ASSUME NEW A, NEW tree \in Seq(A), Len(tree) = Leaves, NEW n \in 0 .. Leaves - 1,
         NEW k \in 1 .. Depth
  PROVE  LET b == Below(tree, k - 1, Sibling(k - 1, n))
         IN  /\ b \in Seq(A) /\ Len(b) = Pow2[k - 1]
             /\ Below(tree, k, n) = IF IsLeft(k - 1, n) THEN Below(tree, k - 1, n) \o b
                                    ELSE b \o Below(tree, k - 1, n)
<1> DEFINE c == Pow2[k - 1]
           a == n \div c
           e == n \div (2 * c)
<1>1. k - 1 \in 0 .. Depth /\ k \in 0 .. Depth
  OBVIOUS
<1>2. c \in Nat \ {0} /\ Pow2[k] = 2 * c /\ Leaves \in Nat /\ n \in Nat
  BY <1>1, Pow2Is
<1>3. (e + 1) * (2 * c) <= Leaves
  BY <1>1, <1>2, SubtreeEnds
<1>4. /\ a \in Nat /\ e \in Nat
      /\ a % 2 = 0 => a = 2 * e
      /\ a % 2 # 0 => a = 2 * e + 1
  BY <1>2, Halves
<1>5. n % c \in 0 .. c - 1 /\ n = a * c + (n % c)
  BY <1>2, Division
<1>6. Below(tree, k - 1, n) = SubSeq(tree, a * c + 1, (a + 1) * c)
  BY DEF Below
<1>7. Below(tree, k, n) = SubSeq(tree, e * (2 * c) + 1, (e + 1) * (2 * c))
  BY <1>2 DEF Below
<1>8. IsLeft(k - 1, n) <=> a % 2 = 0
  BY DEF IsLeft
<1> DEFINE x == (2 * e) * c
           y == (2 * e + 1) * c
           z == (2 * e + 2) * c
           r == n % c
           b == Below(tree, k - 1, Sibling(k - 1, n))
<1>9. ASSUME NEW s \in Nat
      PROVE  Below(tree, k - 1, s) = SubSeq(tree, (s \div c) * c + 1, (s \div c + 1) * c)
  BY DEF Below
<1>10. Sibling(k - 1, n) = IF IsLeft(k - 1, n) THEN n + c ELSE n - c
  BY DEF Sibling
<1> HIDE DEF c, a, e, r
<1>11. /\ x \in Nat /\ y \in Nat /\ z \in Nat /\ x <= y /\ y <= z
       /\ y - x = c /\ z - y = c
       /\ x = e * (2 * c) /\ z = (e + 1) * (2 * c)
  BY <1>2, <1>4
<1>12. Leaves = Len(tree) /\ Len(tree) \in Nat
  OBVIOUS
<1>13. x \in Nat /\ y \in Nat /\ z \in Nat /\ x <= y /\ y <= z /\ z <= Len(tree) /\ y <= Len(tree)
  <2>1. z <= Len(tree)
    BY <1>3, <1>11, <1>12
  <2> QED
    BY <1>11, <1>12, <2>1
<1>14. r \in 0 .. c - 1 /\ n = a * c + r
  BY <1>5 DEF r
<1>15. CASE IsLeft(k - 1, n)
  <2>1. a = 2 * e
    BY <1>4, <1>8, <1>15
  <2>2. Sibling(k - 1, n) = n + c /\ n + c \in Nat
    BY <1>2, <1>10, <1>15
  <2>3. n + c = (2 * e + 1) * c + r
    BY <1>2, <1>4, <1>14, <2>1
  <2>4. (n + c) \div c = 2 * e + 1
    BY <1>2, <1>4, <1>14, <2>3
  <2>5. b = SubSeq(tree, y + 1, z)
    <3>1. (2 * e + 1) + 1 = 2 * e + 2
      BY <1>4
    <3> QED
      BY <1>9, <2>2, <2>4, <3>1
  <2>6. Below(tree, k - 1, n) = SubSeq(tree, x + 1, y)
    BY <1>6, <2>1
  <2>7. Below(tree, k, n) = SubSeq(tree, x + 1, z)
    BY <1>7, <1>11
  <2> HIDE DEF x, y, z, b
  <2>8. b \in Seq(A) /\ Len(b) = z - y
    BY <1>13, <2>5, SubSeqPart
  <2>9. SubSeq(tree, x + 1, y) \o SubSeq(tree, y + 1, z) = SubSeq(tree, x + 1, z)
    BY <1>13, SubSeqJoin
  <2> QED
    BY <1>11, <1>15, <2>5, <2>6, <2>7, <2>8, <2>9 DEF b, c
<1>16. CASE ~IsLeft(k - 1, n)
  <2>1. a = 2 * e + 1
    BY <1>4, <1>8, <1>16
  <2>2. n - c = (2 * e) * c + r
    BY <1>2, <1>4, <1>14, <2>1
  <2>3. Sibling(k - 1, n) = n - c /\ n - c \in Nat
    <3>1. n - c = x + r /\ r \in Nat /\ x \in Nat
      BY <1>2, <1>11, <1>14, <2>2
    <3> HIDE DEF x
    <3>2. n - c \in Nat
      BY <3>1
    <3> QED
      BY <1>10, <1>16, <3>2
  <2>4. (n - c) \div c = 2 * e
    BY <1>2, <1>4, <1>14, <2>2
  <2>5. b = SubSeq(tree, x + 1, y)
    BY <1>9, <2>3, <2>4
  <2>6. Below(tree, k - 1, n) = SubSeq(tree, y + 1, z)
    <3>1. (2 * e + 1) + 1 = 2 * e + 2
      BY <1>4
    <3> QED
      BY <1>6, <2>1, <3>1
  <2>7. Below(tree, k, n) = SubSeq(tree, x + 1, z)
    BY <1>7, <1>11
  <2> HIDE DEF x, y, z, b
  <2>8. b \in Seq(A) /\ Len(b) = y - x
    BY <1>13, <2>5, SubSeqPart
  <2>9. SubSeq(tree, x + 1, y) \o SubSeq(tree, y + 1, z) = SubSeq(tree, x + 1, z)
    BY <1>13, SubSeqJoin
  <2> QED
    BY <1>11, <1>16, <2>5, <2>6, <2>7, <2>8, <2>9 DEF b, c
<1> QED
  BY <1>15, <1>16

(* The leaf and the branches of a proof, of any tree.                      *)
LEMMA ProofIs ==
  ASSUME NEW A, NEW tree \in Seq(A), Len(tree) = Leaves, NEW n \in 0 .. Leaves - 1
  PROVE  /\ LibProof(tree, n).Leaf = <<tree[n + 1]>>
         /\ AreBranches(LibProof(tree, n).Branches, A)
<1>1. Pow2[0] = 1 /\ n \in Nat /\ Leaves \in Nat
  BY Pow2Is
<1>2. n \div 1 = n /\ n * 1 + 1 = n + 1 /\ (n + 1) * 1 = n + 1
  BY <1>1
<1>3. Below(tree, 0, n) = SubSeq(tree, n + 1, n + 1)
  BY <1>1, <1>2 DEF Below
<1>4. SubSeq(tree, n + 1, n + 1) = <<tree[n + 1]>>
  <2> DEFINE p == SubSeq(tree, n + 1, n + 1)
  <2>1. p \in Seq(A) /\ Len(p) = 1 /\ p[1] = tree[n + 1]
    BY <1>1
  <2> HIDE DEF p
  <2>2. p = <<p[1]>>
    BY <2>1
  <2> QED
    BY <2>1, <2>2 DEF p
<1>5. ASSUME NEW k \in 1 .. Depth
      PROVE  /\ LibProof(tree, n).Branches[k] \in Seq(A)
             /\ Len(LibProof(tree, n).Branches[k]) = Pow2[k - 1]
  <2>1. LibProof(tree, n).Branches[k] = Below(tree, k - 1, Sibling(k - 1, n))
    BY DEF LibProof
  <2> QED
    BY <2>1, SiblingJoins
<1>6. LibProof(tree, n).Leaf = Below(tree, 0, n)
  BY DEF LibProof
<1> QED
  BY <1>3, <1>4, <1>5, <1>6 DEF AreBranches

(* A proof hashes to the root of its tree.                                 *)
LEMMA ProofOpens ==
  ASSUME NEW A, NEW tree \in Seq(A), Len(tree) = Leaves, NEW n \in 0 .. Leaves - 1
  PROVE  RootOf(LibProof(tree, n).Leaf, LibProof(tree, n).Branches, n) = tree
<1> DEFINE leaf == LibProof(tree, n).Leaf
           branches == LibProof(tree, n).Branches
<1>1. PICK f : RootOf(leaf, branches, n) = f[Depth] /\ Climbs(f, leaf, branches, n)
  BY RootIsClimb
<1>2. leaf = Below(tree, 0, n)
  BY DEF LibProof
<1>3. \A k \in 1 .. Depth : branches[k] = Below(tree, k - 1, Sibling(k - 1, n))
  BY DEF LibProof
<1> HIDE DEF leaf, branches
<1> DEFINE T == {k \in Nat : k <= Depth => f[k] = Below(tree, k, n)}
<1>4. 0 \in T
  BY <1>1, <1>2 DEF Climbs
<1>5. ASSUME NEW k \in T PROVE k + 1 \in T
  <2> SUFFICES ASSUME k + 1 <= Depth PROVE f[k + 1] = Below(tree, k + 1, n)
    OBVIOUS
  <2>1. k \in Nat /\ k <= Depth /\ k + 1 \in 1 .. Depth /\ (k + 1) - 1 = k
    OBVIOUS
  <2>2. f[k] = Below(tree, k, n)
    BY <2>1
  <2> DEFINE b == Below(tree, k, Sibling(k, n))
  <2>3. f[k + 1] = IF IsLeft(k, n) THEN f[k] \o branches[k + 1] ELSE branches[k + 1] \o f[k]
    BY <1>1, <2>1 DEF Climbs, Up
  <2>4. branches[k + 1] = b
    BY <1>3, <2>1
  <2> DEFINE j == k + 1
  <2>5. j \in 1 .. Depth /\ j - 1 = k
    BY <2>1
  <2> HIDE DEF j
  <2>6. Below(tree, j, n) = IF IsLeft(j - 1, n)
                            THEN Below(tree, j - 1, n) \o Below(tree, j - 1, Sibling(j - 1, n))
                            ELSE Below(tree, j - 1, Sibling(j - 1, n)) \o Below(tree, j - 1, n)
    BY <2>5, SiblingJoins
  <2>7. Below(tree, j, n) = IF IsLeft(k, n) THEN Below(tree, k, n) \o b
                            ELSE b \o Below(tree, k, n)
    BY <2>5, <2>6, Zenon
  <2> QED
    BY <2>2, <2>3, <2>4, <2>7 DEF j
<1>6. T \in SUBSET Nat
  OBVIOUS
<1>7. T = Nat
  <2> HIDE DEF T
  <2> QED
    BY <1>4, <1>5, <1>6, InductionOverSet
<1>8. f[Depth] = Below(tree, Depth, n)
  BY <1>7
<1>9. Below(tree, Depth, n) = tree
  <2>1. Leaves \in Nat \ {0} /\ n \in Nat /\ n < Leaves /\ Pow2[Depth] = Leaves
    BY Pow2Is DEF Leaves
  <2>2. n \div Leaves = 0
    BY <2>1
  <2>3. Below(tree, Depth, n) = SubSeq(tree, 0 * Leaves + 1, (0 + 1) * Leaves)
    BY <2>1, <2>2 DEF Below
  <2>4. 0 * Leaves + 1 = 1 /\ (0 + 1) * Leaves = Leaves
    BY <2>1
  <2>5. SubSeq(tree, 1, Len(tree)) = tree
    OBVIOUS
  <2> QED
    BY <2>3, <2>4, <2>5
<1> QED
  BY <1>1, <1>8, <1>9 DEF leaf, branches

(* The tree of ComputeRoot and ComputeProof has all its leaves.            *)
LEMMA FilledIs ==
  ASSUME NEW t \in Trees, Len(t) <= Leaves
  PROVE  Filled(t) \in Seq(Address \cup {Zero}) /\ Len(Filled(t)) = Leaves
<1>1. Leaves \in Nat
  BY Pow2Is
<1>2. t \in Seq(Address)
  OBVIOUS
<1>3. \A i \in 1 .. Leaves : (IF i <= Len(t) THEN t[i] ELSE Zero) \in Address \cup {Zero}
  BY <1>1, <1>2
<1>4. Filled(t) \in [1 .. Leaves -> Address \cup {Zero}]
  BY <1>3 DEF Filled
<1> QED
  BY <1>1, <1>4

-------------------------------------------------------------------------------
(* Signatures.                                                             *)

(* A first link that k more hashes separate from a signature's, and a      *)
(* second link l more hashes away from another's: tips that they determine *)
(* a destination for belong to both signatures, and the destination is k   *)
(* below what the one was for, l above what the other was for.             *)
LEMMA LinksDetermine ==
  ASSUME NEW d \in Generated, NEW x \in 0 .. Leaves - 1, NEW k \in 0 .. Leaves - 1,
         NEW c \in Generated, NEW y \in 0 .. Leaves - 1, NEW l \in 0 .. Leaves - 1,
         NEW e \in Generated, NEW n \in 0 .. Leaves - 1
  PROVE  Determines(Tips(e), <<Hashed(LibSign(d, x)[1], k), Hashed(LibSign(c, y)[2], l)>>, n)
           <=> e = d /\ e = c /\ n = x - k /\ n = y + l
<1>1. PICK r \in Seed : d = Decider(r)
  BY DEF Generated
<1>2. PICK s \in Seed : c = Decider(s)
  BY DEF Generated
<1>3. PICK t \in Seed : e = Decider(t)
  BY DEF Generated
<1>4. /\ Leaves \in Nat /\ x \in Nat /\ k \in Nat /\ y \in Nat /\ l \in Nat /\ n \in Nat
  BY Pow2Is
<1>5. /\ d.Private[1] = [seed |-> <<r, 1>>, hashed |-> 0]
      /\ c.Private[2] = [seed |-> <<s, 2>>, hashed |-> 0]
      /\ e.Private[1] = [seed |-> <<t, 1>>, hashed |-> 0]
      /\ e.Private[2] = [seed |-> <<t, 2>>, hashed |-> 0]
  BY <1>1, <1>2, <1>3 DEF Decider
<1>6. /\ LibSign(d, x)[1] = Hashed(d.Private[1], Leaves - 1 - x)
      /\ LibSign(c, y)[2] = Hashed(c.Private[2], y)
      /\ Tips(e)[1] = Hashed(e.Private[1], Leaves - 1)
      /\ Tips(e)[2] = Hashed(e.Private[2], Leaves - 1)
  BY DEF LibSign, Tips
<1>7. \A z, a, b : Hashed([seed |-> z, hashed |-> a], b) = [seed |-> z, hashed |-> a + b]
  BY DEF Hashed
<1>8. Hashed(Hashed(LibSign(d, x)[1], k), n) =
        [seed |-> <<r, 1>>, hashed |-> ((0 + (Leaves - 1 - x)) + k) + n]
  <2>1. LibSign(d, x)[1] = [seed |-> <<r, 1>>, hashed |-> 0 + (Leaves - 1 - x)]
    BY <1>5, <1>6, <1>7
  <2>2. Hashed(LibSign(d, x)[1], k) = [seed |-> <<r, 1>>, hashed |-> (0 + (Leaves - 1 - x)) + k]
    BY <1>7, <2>1, Zenon
  <2>3. Hashed([seed |-> <<r, 1>>, hashed |-> (0 + (Leaves - 1 - x)) + k], n) =
          [seed |-> <<r, 1>>, hashed |-> ((0 + (Leaves - 1 - x)) + k) + n]
    BY <1>7, Zenon
  <2> QED
    BY <2>2, <2>3
<1>9. Hashed(Hashed(LibSign(c, y)[2], l), Leaves - 1 - n) =
        [seed |-> <<s, 2>>, hashed |-> ((0 + y) + l) + (Leaves - 1 - n)]
  <2>1. LibSign(c, y)[2] = [seed |-> <<s, 2>>, hashed |-> 0 + y]
    BY <1>5, <1>6, <1>7
  <2>2. Hashed(LibSign(c, y)[2], l) = [seed |-> <<s, 2>>, hashed |-> (0 + y) + l]
    BY <1>7, <2>1, Zenon
  <2>3. Hashed([seed |-> <<s, 2>>, hashed |-> (0 + y) + l], Leaves - 1 - n) =
          [seed |-> <<s, 2>>, hashed |-> ((0 + y) + l) + (Leaves - 1 - n)]
    BY <1>7, Zenon
  <2> QED
    BY <2>2, <2>3
<1>10. /\ Tips(e)[1] = [seed |-> <<t, 1>>, hashed |-> 0 + (Leaves - 1)]
       /\ Tips(e)[2] = [seed |-> <<t, 2>>, hashed |-> 0 + (Leaves - 1)]
  BY <1>5, <1>6, <1>7
<1> DEFINE first == Hashed(LibSign(d, x)[1], k)
<1> DEFINE second == Hashed(LibSign(c, y)[2], l)
<1>11. Determines(Tips(e), <<first, second>>, n) <=>
         Hashed(first, n) = Tips(e)[1] /\ Hashed(second, Leaves - 1 - n) = Tips(e)[2]
  <2> HIDE DEF first, second
  <2>1. <<first, second>>[1] = first /\ <<first, second>>[2] = second
    OBVIOUS
  <2> QED
    BY <2>1, Zenon DEF Determines
<1>12. ASSUME Determines(Tips(e), <<first, second>>, n)
       PROVE  e = d /\ e = c /\ n = x - k /\ n = y + l
  <2>1. /\ [seed |-> <<r, 1>>, hashed |-> ((0 + (Leaves - 1 - x)) + k) + n] =
             [seed |-> <<t, 1>>, hashed |-> 0 + (Leaves - 1)]
        /\ [seed |-> <<s, 2>>, hashed |-> ((0 + y) + l) + (Leaves - 1 - n)] =
             [seed |-> <<t, 2>>, hashed |-> 0 + (Leaves - 1)]
    BY <1>8, <1>9, <1>10, <1>11, <1>12
  <2>2. <<r, 1>> = <<t, 1>> /\ ((0 + (Leaves - 1 - x)) + k) + n = 0 + (Leaves - 1)
    BY <2>1
  <2>3. <<s, 2>> = <<t, 2>> /\ ((0 + y) + l) + (Leaves - 1 - n) = 0 + (Leaves - 1)
    BY <2>1
  <2>4. r = t /\ s = t
    BY <2>2, <2>3
  <2>5. n = x - k /\ n = y + l
    BY <1>4, <2>2, <2>3
  <2> QED
    BY <1>1, <1>2, <1>3, <2>4, <2>5
<1>13. ASSUME e = d, e = c, n = x - k, n = y + l
       PROVE  Determines(Tips(e), <<first, second>>, n)
  <2>1. <<r, 1>> = <<t, 1>> /\ <<s, 2>> = <<t, 2>>
    BY <1>5, <1>13
  <2>2. /\ ((0 + (Leaves - 1 - x)) + k) + n = 0 + (Leaves - 1)
        /\ ((0 + y) + l) + (Leaves - 1 - n) = 0 + (Leaves - 1)
    BY <1>4, <1>13
  <2> QED
    BY <1>8, <1>9, <1>10, <1>11, <2>1, <2>2
<1> QED
  BY <1>12, <1>13

(* A signature determines its own destination.                             *)
LEMMA SignatureDetermines ==
  ASSUME NEW d \in Generated, NEW n \in 0 .. Leaves - 1
  PROVE  Determines(Tips(d), LibSign(d, n), n)
<1>1. 0 \in 0 .. Leaves - 1 /\ n = n - 0 /\ n = n + 0
  BY Pow2Is
<1>2. /\ Hashed(LibSign(d, n)[1], 0) = LibSign(d, n)[1]
      /\ Hashed(LibSign(d, n)[2], 0) = LibSign(d, n)[2]
  <2>1. PICK s \in Seed : d = Decider(s)
    BY DEF Generated
  <2>2. /\ d.Private[1] = [seed |-> <<s, 1>>, hashed |-> 0]
        /\ d.Private[2] = [seed |-> <<s, 2>>, hashed |-> 0]
    BY <2>1 DEF Decider
  <2>3. /\ LibSign(d, n)[1] = [seed |-> <<s, 1>>, hashed |-> 0 + (Leaves - 1 - n)]
        /\ LibSign(d, n)[2] = [seed |-> <<s, 2>>, hashed |-> 0 + n]
    BY <2>2 DEF LibSign, Hashed
  <2>4. (0 + (Leaves - 1 - n)) + 0 = 0 + (Leaves - 1 - n) /\ (0 + n) + 0 = 0 + n
    BY Pow2Is
  <2> QED
    BY <2>3, <2>4 DEF Hashed
<1>3. LibSign(d, n) = <<LibSign(d, n)[1], LibSign(d, n)[2]>>
  BY DEF LibSign
<1>4. Determines(Tips(d), <<Hashed(LibSign(d, n)[1], 0), Hashed(LibSign(d, n)[2], 0)>>, n)
  BY <1>1, LinksDetermine
<1> QED
  BY <1>2, <1>3, <1>4

(* uint16 of a destination is a leaf, and of a leaf it is the leaf.        *)
LEMMA Uint16Is ==
  /\ \A n \in Int : Uint16(n) \in 0 .. Leaves - 1
  /\ \A n \in 0 .. Leaves - 1 : Uint16(n) = n
<1>1. Leaves \in Nat \ {0}
  BY Pow2Is
<1>2. \A n \in Int : n % Leaves \in 0 .. Leaves - 1
  BY <1>1
<1>3. \A n \in 0 .. Leaves - 1 : n % Leaves = n
  BY <1>1
<1> QED
  BY <1>2, <1>3 DEF Uint16

-------------------------------------------------------------------------------
(* The calls.                                                              *)

(* A leaf and branches made of any words have their shape.                 *)
LEMMA AnyAre ==
  /\ \A branches \in AnyBranches : AreBranches(branches, Address \cup {Zero})
  /\ \A leaf \in Hash(0) : /\ leaf \in Seq(Address \cup {Zero}) /\ Len(leaf) = 1
                            /\ leaf = <<leaf[1]>>
<1> DEFINE A == Address \cup {Zero}
<1>1. \A k \in 0 .. Depth : Pow2[k] \in Nat
  BY Pow2Is
<1>2. ASSUME NEW k \in 0 .. Depth, NEW h \in Hash(k)
      PROVE  h \in Seq(A) /\ Len(h) = Pow2[k]
  <2> DEFINE c == Pow2[k]
  <2>1. c \in Nat
    BY <1>1
  <2>2. h \in [1 .. c -> A]
    BY DEF Hash
  <2> HIDE DEF c, A
  <2>3. h \in Seq(A) /\ Len(h) = c
    BY <2>1, <2>2
  <2> QED
    BY <2>3 DEF c
<1>3. ASSUME NEW branches \in AnyBranches PROVE AreBranches(branches, A)
  <2>1. \A k \in 1 .. Depth : branches[k] \in Hash(k - 1)
    BY DEF AnyBranches
  <2>2. \A k \in 1 .. Depth : k - 1 \in 0 .. Depth
    BY ContractAssumption
  <2> QED
    BY <1>2, <2>1, <2>2 DEF AreBranches
<1>4. ASSUME NEW leaf \in Hash(0)
      PROVE  leaf \in Seq(A) /\ Len(leaf) = 1 /\ leaf = <<leaf[1]>>
  <2>1. 0 \in 0 .. Depth /\ Pow2[0] = 1
    BY Pow2Is, ContractAssumption
  <2>2. leaf \in Seq(A) /\ Len(leaf) = 1
    BY <1>2, <2>1
  <2> HIDE DEF A
  <2> QED
    BY <2>2
<1> QED
  BY <1>3, <1>4

(* A decided segment pays to a leaf that was signed for, or lies between   *)
(* two that were: the destination its links determine is where the         *)
(* branches put the leaf.                                                  *)
LEMMA DecidesAsSigned ==
  ASSUME Inv, NEW u \in unsigned, NEW sig \in Signatures(u.Tips),
         NEW branches \in AnyBranches, NEW leaf \in Hash(0),
         NEW m \in Recovered(u, sig, branches, leaf)
  PROVE  \E n \in 0 .. Leaves - 1, s, t \in signatures :
           /\ s.Tips = m.Tips /\ t.Tips = m.Tips
           /\ Uint16(s.destination) <= n /\ n <= Uint16(t.destination)
           /\ Determines(m.Tips, m.Signature, n)
           /\ m.Leaf = <<m.Root[n + 1]>>
<1>1. PICK n \in 0 .. Leaves - 1 :
        /\ Determines(u.Tips, sig, n)
        /\ m = [Tips |-> u.Tips, Next |-> u.Next, Signature |-> sig,
                Branches |-> branches, Leaf |-> leaf, Root |-> RootOf(leaf, branches, n)]
  BY DEF Recovered
<1>2. PICK e \in Generated : u.Tips = Tips(e)
  BY DEF Inv, UnsignedInv
<1>3. PICK x \in Links(1), y \in Links(2) : sig = <<x, y>>
  BY DEF Signatures
<1>4. PICK t \in signatures, k \in 0 .. Leaves - 1 : x = Hashed(t.Signature[1], k)
  BY DEF Links
<1>5. PICK s \in signatures, l \in 0 .. Leaves - 1 : y = Hashed(s.Signature[2], l)
  BY DEF Links
<1> DEFINE i == Uint16(t.destination)
<1> DEFINE j == Uint16(s.destination)
<1>6. PICK d \in Generated : t.Tips = Tips(d) /\ t.Signature = LibSign(d, i)
  BY DEF Inv, SignatureInv
<1>7. PICK c \in Generated : s.Tips = Tips(c) /\ s.Signature = LibSign(c, j)
  BY DEF Inv, SignatureInv
<1>8. i \in 0 .. Leaves - 1 /\ j \in 0 .. Leaves - 1
  BY Uint16Is DEF Inv, SignatureInv
<1> HIDE DEF i, j
<1>9. e = d /\ e = c /\ n = i - k /\ n = j + l
  <2>1. sig = <<Hashed(LibSign(d, i)[1], k), Hashed(LibSign(c, j)[2], l)>>
    BY <1>3, <1>4, <1>5, <1>6, <1>7
  <2>2. Determines(Tips(e), <<Hashed(LibSign(d, i)[1], k), Hashed(LibSign(c, j)[2], l)>>, n)
    BY <1>1, <1>2, <2>1
  <2> QED
    BY <1>8, <2>2, LinksDetermine
<1>10. j <= n /\ n <= i
  <2>1. n \in Int /\ i \in Int /\ j \in Int /\ k >= 0 /\ l >= 0 /\ k \in Int /\ l \in Int
    BY <1>8, Pow2Is
  <2> QED
    BY <1>9, <2>1
<1>11. /\ AreBranches(branches, Address \cup {Zero})
       /\ leaf \in Seq(Address \cup {Zero}) /\ Len(leaf) = 1 /\ leaf = <<leaf[1]>>
  BY AnyAre
<1>12. RootOf(leaf, branches, n)[n + 1] = leaf[1]
  BY <1>11, RootHasLeaf
<1>13. m.Root = RootOf(leaf, branches, n) /\ m.Leaf = leaf /\ m.Tips = u.Tips
       /\ m.Signature = sig
  BY <1>1
<1>14. m.Leaf = <<m.Root[n + 1]>>
  BY <1>11, <1>12, <1>13
<1>15. s.Tips = m.Tips /\ t.Tips = m.Tips
  BY <1>2, <1>6, <1>7, <1>9, <1>13
<1>16. Determines(m.Tips, m.Signature, n)
  BY <1>1, <1>13
<1> QED
  BY <1>10, <1>14, <1>15, <1>16 DEF i, j

(* Init.                                                                   *)
LEMMA InitInv == Init => Inv
  BY DEF Init, Inv, UnsignedInv, SignatureInv, ProofInv, DecidedAsSigned

(* Every call keeps the invariant.                                         *)
LEMMA NextInv == Inv /\ [Next]_vars => Inv'
<1> SUFFICES ASSUME Inv, [Next]_vars PROVE Inv'
  OBVIOUS
<1> USE DEF loaded, answers
<1>1. CASE GenerateDecider
  <2>1. deciders' \subseteq Generated
    BY <1>1 DEF GenerateDecider, Generated, Inv
  <2> QED
    BY <1>1, <2>1 DEF GenerateDecider, Inv, UnsignedInv, SignatureInv, ProofInv, DecidedAsSigned
<1>2. CASE LoadUnsignedMerkleSegment
  <2>1. PICK d \in deciders, t \in Trees, a \in Address :
          /\ Len(t) <= Leaves
          /\ unsigned' = unsigned \cup {[Tips |-> Tips(d), Next |-> a, Root |-> ComputeRoot(t)]}
    BY <1>2 DEF LoadUnsignedMerkleSegment
  <2>2. /\ deciders' = deciders /\ segments' = segments /\ signatures' = signatures
        /\ proofs' = proofs /\ decided' = decided
    BY <1>2 DEF LoadUnsignedMerkleSegment
  <2>3. ComputeRoot(t) = Filled(t) /\ d \in Generated
    BY DEF ComputeRoot, LibProof, Inv
  <2>4. UnsignedInv'
    BY <2>1, <2>3 DEF Inv, UnsignedInv
  <2>5. DecidedAsSigned'
    BY <2>1, <2>2 DEF Inv, DecidedAsSigned
  <2> QED
    BY <2>2, <2>4, <2>5 DEF Inv, SignatureInv, ProofInv
<1>3. CASE SignDecider
  <2>1. PICK d \in deciders, n \in Destination :
          signatures' = signatures \cup
            {[Signature |-> LibSign(d, Uint16(n)), Tips |-> Tips(d), destination |-> n]}
    BY <1>3 DEF SignDecider
  <2>2. /\ deciders' = deciders /\ segments' = segments /\ unsigned' = unsigned
        /\ proofs' = proofs /\ decided' = decided
    BY <1>3 DEF SignDecider
  <2>3. d \in Generated /\ n \in Int
    BY DEF Inv
  <2>4. SignatureInv'
    BY <2>1, <2>3 DEF Inv, SignatureInv
  <2>5. DecidedAsSigned'
    BY <2>1, <2>2 DEF Inv, DecidedAsSigned
  <2> QED
    BY <2>2, <2>4, <2>5 DEF Inv, UnsignedInv, ProofInv
<1>4. CASE ComputeProof
  <2>1. PICK t \in Trees, n \in Destination :
          /\ Len(t) <= Leaves /\ n \in 0 .. Leaves - 1
          /\ proofs' = proofs \cup
               {[tree |-> t, destination |-> n, proof |-> LibProof(Filled(t), n)]}
    BY <1>4 DEF ComputeProof
  <2>2. /\ deciders' = deciders /\ segments' = segments /\ unsigned' = unsigned
        /\ signatures' = signatures /\ decided' = decided
    BY <1>4 DEF ComputeProof
  <2>3. ProofInv'
    BY <2>1 DEF Inv, ProofInv
  <2> QED
    BY <2>2, <2>3 DEF Inv, UnsignedInv, SignatureInv, DecidedAsSigned
<1>5. CASE DecideMerkleSegment
  <2>1. PICK u \in unsigned :
          \E sig \in Signatures(u.Tips), branches \in AnyBranches, leaf \in Hash(0) :
            \E m \in Recovered(u, sig, branches, leaf) :
              ID(m) = ID(u) /\ decided' = decided \cup {m}
    BY <1>5 DEF DecideMerkleSegment
  <2>2. PICK sig \in Signatures(u.Tips), branches \in AnyBranches, leaf \in Hash(0) :
          \E m \in Recovered(u, sig, branches, leaf) :
            ID(m) = ID(u) /\ decided' = decided \cup {m}
    BY <2>1
  <2>m. PICK m \in Recovered(u, sig, branches, leaf) :
          ID(m) = ID(u) /\ decided' = decided \cup {m}
    BY <2>2
  <2>3. /\ deciders' = deciders /\ segments' = segments /\ unsigned' = unsigned
        /\ signatures' = signatures /\ proofs' = proofs
    BY <1>5 DEF DecideMerkleSegment
  <2>4. \E n \in 0 .. Leaves - 1, s, t \in signatures :
          /\ s.Tips = m.Tips /\ t.Tips = m.Tips
          /\ Uint16(s.destination) <= n /\ n <= Uint16(t.destination)
          /\ Determines(m.Tips, m.Signature, n)
          /\ m.Leaf = <<m.Root[n + 1]>>
    BY DecidesAsSigned
  <2>5. DecidedAsSigned'
    BY <2>m, <2>3, <2>4 DEF Inv, DecidedAsSigned
  <2> QED
    BY <2>3, <2>5 DEF Inv, UnsignedInv, SignatureInv, ProofInv
<1>6. CASE LoadMerkleSegment
  <2>1. PICK m \in decided : segments' = segments \cup {m}
    BY <1>6 DEF LoadMerkleSegment
  <2>2. /\ deciders' = deciders /\ unsigned' = unsigned
        /\ signatures' = signatures /\ proofs' = proofs /\ decided' = decided
    BY <1>6 DEF LoadMerkleSegment
  <2>3. DecidedAsSigned'
    BY <2>1, <2>2 DEF Inv, DecidedAsSigned
  <2> QED
    BY <2>2, <2>3 DEF Inv, UnsignedInv, SignatureInv, ProofInv
<1>7. CASE UNCHANGED vars
  BY <1>7 DEF vars, Inv, UnsignedInv, SignatureInv, ProofInv, DecidedAsSigned
<1> QED
  BY <1>1, <1>2, <1>3, <1>4, <1>5, <1>6, <1>7 DEF Next

(* What was kept of the calls was made as the invariant says.              *)
THEOREM Invariance == Spec => []Inv
<1>1. Init => Inv
  BY InitInv
<1>2. Inv /\ [Next]_vars => Inv'
  BY NextInv
<1> QED
  BY <1>1, <1>2, PTL DEF Spec

(* Contracts pay to the leaf that was signed for, for every depth of the   *)
(* trees and any mixture of answers DecideMerkleSegment is called with.    *)
THEOREM AlwaysAsSigned == Spec => []DecidedAsSigned
<1>1. Inv => DecidedAsSigned
  BY DEF Inv
<1> QED
  BY <1>1, Invariance, PTL

(* An owner's signature and proof for one destination decide the contract. *)
THEOREM AlwaysDecidable == Spec => []SignedCanBeDecided
<1>1. Inv => SignedCanBeDecided
  <2> SUFFICES ASSUME Inv, NEW u \in unsigned, NEW s \in signatures, NEW p \in proofs,
                      s.Tips = u.Tips, ComputeRoot(p.tree) = u.Root,
                      s.destination = p.destination
               PROVE  \E m \in Recovered(u, s.Signature, p.proof.Branches, p.proof.Leaf) :
                        ID(m) = ID(u)
    BY DEF SignedCanBeDecided
  <2> DEFINE n == p.destination
             tree == Filled(p.tree)
  <2>1. /\ p.tree \in Trees /\ Len(p.tree) <= Leaves /\ n \in 0 .. Leaves - 1
        /\ p.proof = LibProof(tree, n)
    BY DEF Inv, ProofInv
  <2>2. PICK d \in Generated : s.Tips = Tips(d) /\ s.Signature = LibSign(d, n)
    BY <2>1, Uint16Is DEF Inv, SignatureInv
  <2>3. Determines(u.Tips, s.Signature, n)
    BY <2>1, <2>2, SignatureDetermines
  <2>4. tree \in Seq(Address \cup {Zero}) /\ Len(tree) = Leaves
    BY <2>1, FilledIs
  <2>5. RootOf(p.proof.Leaf, p.proof.Branches, n) = tree
    BY <2>1, <2>4, ProofOpens
  <2>6. tree = u.Root
    BY DEF ComputeRoot, LibProof
  <2> HIDE DEF n, tree
  <2> DEFINE m == [Tips |-> u.Tips, Next |-> u.Next, Signature |-> s.Signature,
                   Branches |-> p.proof.Branches, Leaf |-> p.proof.Leaf,
                   Root |-> RootOf(p.proof.Leaf, p.proof.Branches, n)]
  <2>7. m \in Recovered(u, s.Signature, p.proof.Branches, p.proof.Leaf)
    BY <2>1, <2>3 DEF Recovered
  <2>8. ID(m) = ID(u)
    BY <2>5, <2>6 DEF ID
  <2> QED
    BY <2>7, <2>8
<1> QED
  BY <1>1, Invariance, PTL

===============================================================================
