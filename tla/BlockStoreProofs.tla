--------------------------- MODULE BlockStoreProofs ---------------------------
(***************************************************************************)
(* Proofs about the commit database key by key.                            *)
(***************************************************************************)
EXTENDS BlockStore, FiniteSetTheorems, SequenceTheorems, WellFoundedInduction, TLAPS

-------------------------------------------------------------------------------
(* Min and Max of sets of natural numbers, which the searches return.      *)

(* A set of natural numbers that is not empty has a least element.         *)
LEMMA LeastExists ==
  ASSUME NEW S \in SUBSET Nat, S # {}
  PROVE  \E x \in S : \A y \in S : x <= y
<1>1. PICK x \in S : \A y \in S : ~(<<y, x>> \in OpToRel(<, Nat))
  BY NatLessThanWellFounded, WFMin, Zenon
<1>2. ASSUME NEW y \in S PROVE x <= y
  <2>1. x \in Nat /\ y \in Nat
    OBVIOUS
  <2>2. ~(y < x)
    BY <1>1, <2>1 DEF OpToRel
  <2> QED
    BY <2>1, <2>2
<1> QED
  BY <1>2

(* Min returns it.                                                         *)
LEMMA MinIsLeast ==
  ASSUME NEW S \in SUBSET Nat, S # {}
  PROVE  Min(S) \in S /\ \A y \in S : Min(S) <= y
  BY LeastExists DEF Min

(* A set of natural numbers that is bounded and not empty has a greatest   *)
(* element, and Max returns it.                                            *)
LEMMA MaxIsGreatest ==
  ASSUME NEW S \in SUBSET Nat, S # {}, NEW n \in Nat, \A y \in S : y <= n
  PROVE  Max(S) \in S /\ \A y \in S : Max(S) >= y
<1> DEFINE D == {n - y : y \in S}
<1>1. D \subseteq Nat /\ D # {}
  <2>1. \A y \in S : n - y \in Nat
    OBVIOUS
  <2>2. PICK y \in S : TRUE
    OBVIOUS
  <2>3. n - y \in D
    OBVIOUS
  <2> QED
    BY <2>1, <2>3
<1>2. PICK d \in D : \A e \in D : d <= e
  BY <1>1, LeastExists
<1>3. PICK x \in S : d = n - x
  OBVIOUS
<1>4. ASSUME NEW y \in S PROVE x >= y
  <2>1. n - y \in D
    OBVIOUS
  <2>2. d <= n - y
    BY <1>2, <2>1
  <2> QED
    BY <1>3, <2>2
<1> HIDE DEF D
<1> QED
  BY <1>4 DEF Max

(* A lower bound that is an element is what Min returns.                   *)
LEMMA MinIs ==
  ASSUME NEW S \in SUBSET Nat, NEW x \in S, \A y \in S : x <= y
  PROVE  Min(S) = x
<1> DEFINE m == Min(S)
<1>1. m \in S /\ \A y \in S : m <= y
  BY MinIsLeast
<1> HIDE DEF m
<1>2. m \in Nat /\ x \in Nat /\ m <= x /\ x <= m
  BY <1>1
<1>3. m = x
  BY <1>2
<1> QED
  BY <1>3 DEF m

(* An upper bound that is an element is what Max returns.                  *)
LEMMA MaxIs ==
  ASSUME NEW S \in SUBSET Nat, NEW x \in S, \A y \in S : y <= x
  PROVE  Max(S) = x
<1> DEFINE m == Max(S)
<1>1. m \in S /\ \A y \in S : m >= y
  BY MaxIsGreatest
<1> HIDE DEF m
<1>2. m \in Nat /\ x \in Nat /\ m <= x /\ x <= m
  BY <1>1
<1>3. m = x
  BY <1>2
<1> QED
  BY <1>3 DEF m

(* Induction, over a set: the numbers that have the property.              *)
LEMMA InductionOverSet ==
  ASSUME NEW T \in SUBSET Nat, 0 \in T, \A n \in T : n + 1 \in T
  PROVE  T = Nat
<1> SUFFICES ASSUME Nat \ T # {} PROVE FALSE
  OBVIOUS
<1>1. PICK x \in Nat \ T : \A y \in Nat \ T : ~(<<y, x>> \in OpToRel(<, Nat))
  BY NatLessThanWellFounded, WFMin, Zenon
<1>2. x # 0 /\ x - 1 \in Nat /\ x - 1 < x /\ (x - 1) + 1 = x
  OBVIOUS
<1>3. x - 1 \in T
  BY <1>1, <1>2 DEF OpToRel
<1>4. (x - 1) + 1 \in T
  BY <1>3
<1> QED
  BY <1>1, <1>2, <1>4

-------------------------------------------------------------------------------
(* LevelDB's order of the keys.                                            *)

(* A row of n keys of one height has n keys.                               *)
LEMMA RowCardinality ==
  ASSUME NEW h \in Nat, NEW n \in Nat
  PROVE  /\ IsFiniteSet({<<h, i>> : i \in 1 .. n})
         /\ Cardinality({<<h, i>> : i \in 1 .. n}) = n
<1> DEFINE K == {<<h, i>> : i \in 1 .. n}
           f == [i \in 1 .. n |-> <<h, i>>]
<1>1. f \in Bijection(1 .. n, K)
  <2>1. f \in [1 .. n -> K]
    OBVIOUS
  <2>2. \A i, j \in 1 .. n : f[i] = f[j] => i = j
    OBVIOUS
  <2>3. \A k \in K : \E i \in 1 .. n : f[i] = k
    OBVIOUS
  <2> HIDE DEF f, K
  <2> QED
    BY <2>1, <2>2, <2>3 DEF Bijection, Injection, Surjection, IsInjective
<1>2. ExistsBijection(1 .. n, K)
  BY <1>1 DEF ExistsBijection
<1>3. IsFiniteSet(1 .. n) /\ Cardinality(1 .. n) = n
  BY FS_Interval
<1>4. IsFiniteSet(K) /\ Cardinality(K) = n
  <2> HIDE DEF K
  <2> QED
    BY <1>2, <1>3, FS_Bijection
<1> QED
  BY <1>4

(* The iterator meets the keys of one height in the order of the commits.  *)
LEMMA RowInOrder ==
  ASSUME NEW h \in Nat, NEW n \in Nat
  PROVE  InOrder({<<h, i>> : i \in 1 .. n}) = [i \in 1 .. n |-> <<h, i>>]
<1> DEFINE K == {<<h, i>> : i \in 1 .. n}
           B(k) == {l \in K : Before(l, k)}
<1>1. Cardinality(K) = n
  BY RowCardinality
<1>2. ASSUME NEW i \in 1 .. n PROVE Cardinality(B(<<h, i>>)) = i - 1
  <2>1. B(<<h, i>>) = {<<h, j>> : j \in 1 .. i - 1}
    <3>1. ASSUME NEW l \in B(<<h, i>>) PROVE l \in {<<h, j>> : j \in 1 .. i - 1}
      <4>1. PICK j \in 1 .. n : l = <<h, j>>
        OBVIOUS
      <4>2. j \in 1 .. i - 1
        BY <4>1 DEF Before
      <4> QED
        BY <4>1, <4>2
    <3>2. ASSUME NEW j \in 1 .. i - 1 PROVE <<h, j>> \in B(<<h, i>>)
      BY DEF Before
    <3> QED
      BY <3>1, <3>2
  <2>2. i - 1 \in Nat
    OBVIOUS
  <2> QED
    BY <2>1, <2>2, RowCardinality
<1>3. ASSUME NEW i \in 1 .. n
      PROVE  (CHOOSE k \in K : Cardinality(B(k)) = i - 1) = <<h, i>>
  <2>1. <<h, i>> \in K
    OBVIOUS
  <2>2. ASSUME NEW k \in K, Cardinality(B(k)) = i - 1 PROVE k = <<h, i>>
    <3>1. PICK j \in 1 .. n : k = <<h, j>>
      OBVIOUS
    <3>2. Cardinality(B(k)) = j - 1
      BY <1>2, <3>1
    <3>3. i = j
      BY <2>2, <3>2
    <3> QED
      BY <3>1, <3>3
  <2> HIDE DEF K, B
  <2> QED
    BY <1>2, <2>1, <2>2
<1>4. InOrder(K) =
        [i \in 1 .. n |-> CHOOSE k \in K : Cardinality(B(k)) = i - 1]
  BY <1>1 DEF InOrder
<1>5. InOrder(K) = [i \in 1 .. n |-> <<h, i>>]
  <2> HIDE DEF K, B
  <2> QED
    BY <1>3, <1>4
<1> QED
  BY <1>5

(* The iterator meets every key of a finite set, and no other.             *)
LEMMA InOrderRange ==
  ASSUME NEW K \in SUBSET (Nat \X Nat), IsFiniteSet(K)
  PROVE  Range(InOrder(K)) = K
<1> DEFINE n == Cardinality(K)
           B(k) == {l \in K : Before(l, k)}
           rank == [k \in K |-> Cardinality(B(k))]
<1>1. n \in Nat
  BY FS_CardinalityType
<1>2. ASSUME NEW k \in K
      PROVE  IsFiniteSet(B(k)) /\ rank[k] \in Nat
  <2>1. IsFiniteSet(B(k))
    BY FS_Subset
  <2> QED
    BY <2>1, FS_CardinalityType
<1>3. ASSUME NEW k \in K PROVE rank[k] \in 0 .. n - 1
  <2>1. IsFiniteSet(K \ {k}) /\ Cardinality(K \ {k}) = n - 1
    BY FS_RemoveElement
  <2>2. B(k) \in SUBSET (K \ {k})
    BY DEF Before
  <2>3. Cardinality(B(k)) <= n - 1
    <3> HIDE DEF B, n
    <3> QED
      BY <2>1, <2>2, FS_Subset
  <2> QED
    BY <1>1, <1>2, <2>3
<1>4. ASSUME NEW k \in K, NEW l \in K, Before(l, k) PROVE rank[l] < rank[k]
  <2>1. B(l) \subseteq B(k)
    <3> SUFFICES ASSUME NEW x \in K, Before(x, l) PROVE Before(x, k)
      OBVIOUS
    <3>1. /\ x[1] \in Nat /\ x[2] \in Nat /\ l[1] \in Nat /\ l[2] \in Nat
          /\ k[1] \in Nat /\ k[2] \in Nat
      OBVIOUS
    <3> QED
      BY <1>4, <3>1 DEF Before
  <2>2. l \in B(k) /\ l \notin B(l)
    BY <1>4 DEF Before
  <2>3. Cardinality(B(l)) <= Cardinality(B(k))
        /\ Cardinality(B(k)) # Cardinality(B(l))
    <3> HIDE DEF B
    <3> QED
      BY <1>2, <2>1, <2>2, FS_Subset
  <2> QED
    BY <1>2, <2>3
<1>5. ASSUME NEW k \in K, NEW l \in K, k # l PROVE Before(k, l) \/ Before(l, k)
  <2>1. /\ l[1] \in Nat /\ l[2] \in Nat /\ k[1] \in Nat /\ k[2] \in Nat
        /\ k = <<k[1], k[2]>> /\ l = <<l[1], l[2]>>
    OBVIOUS
  <2>2. k[1] # l[1] \/ k[2] # l[2]
    BY <1>5, <2>1
  <2> QED
    BY <2>1, <2>2 DEF Before
<1>6. ASSUME NEW k \in K, NEW l \in K, rank[k] = rank[l] PROVE k = l
  <2> HIDE DEF rank, B
  <2>1. rank[k] \in Nat /\ rank[l] \in Nat
    BY <1>2
  <2>2. ~(rank[k] < rank[l]) /\ ~(rank[l] < rank[k])
    BY <1>6, <2>1
  <2>3. ~Before(k, l) /\ ~Before(l, k)
    BY <1>4, <2>2
  <2> QED
    BY <1>5, <2>3
<1>7. rank \in Injection(K, 0 .. n - 1)
  <2> HIDE DEF n, B
  <2>1. rank \in [K -> 0 .. n - 1]
    BY <1>3
  <2> HIDE DEF rank
  <2> QED
    BY <1>6, <2>1 DEF Injection, IsInjective
<1>8. IsFiniteSet(0 .. n - 1) /\ Cardinality(0 .. n - 1) = n
  <2> HIDE DEF n
  <2>1. n - 1 \in Int /\ (IF 0 > n - 1 THEN 0 ELSE (n - 1) - 0 + 1) = n
    BY <1>1
  <2> QED
    BY <2>1, FS_Interval
<1>9. rank \in Surjection(K, 0 .. n - 1)
  <2> HIDE DEF rank
  <2> QED
    BY <1>7, <1>8, FS_Injection
<1>10. ASSUME NEW i \in 1 .. n
       PROVE  /\ InOrder(K)[i] \in K
              /\ rank[InOrder(K)[i]] = i - 1
  <2>1. i - 1 \in 0 .. n - 1
    BY <1>1
  <2>2. PICK k \in K : rank[k] = i - 1
    <3> HIDE DEF rank
    <3> QED
      BY <1>9, <2>1 DEF Surjection
  <2>3. InOrder(K)[i] = CHOOSE x \in K : Cardinality(B(x)) = i - 1
    BY DEF InOrder
  <2>4. Cardinality(B(k)) = i - 1
    BY <2>2
  <2> HIDE DEF B
  <2>5. InOrder(K)[i] \in K /\ Cardinality(B(InOrder(K)[i])) = i - 1
    BY <2>3, <2>4
  <2> QED
    BY <2>5
<1>11. DOMAIN InOrder(K) = 1 .. n
  BY DEF InOrder
<1>12. ASSUME NEW k \in K PROVE k \in Range(InOrder(K))
  <2>1. rank[k] + 1 \in 1 .. n
    BY <1>1, <1>3
  <2>2. rank[InOrder(K)[rank[k] + 1]] = rank[k] /\ InOrder(K)[rank[k] + 1] \in K
    <3> HIDE DEF rank, n, B
    <3>0. rank[k] \in Nat
      BY <1>2
    <3>1. (rank[k] + 1) - 1 = rank[k]
      BY <3>0
    <3> QED
      BY <1>10, <2>1, <3>1
  <2>3. InOrder(K)[rank[k] + 1] = k
    <3> HIDE DEF rank
    <3> QED
      BY <1>6, <2>2
  <2> HIDE DEF rank, n
  <2> QED
    BY <1>11, <2>1, <2>3 DEF Range
<1> HIDE DEF rank, n
<1> QED
  BY <1>10, <1>11, <1>12 DEF Range

-------------------------------------------------------------------------------
(* What the readers make of the keys of a branch.                          *)

(* The commits of a block are a sequence.                                  *)
LEMMA CommitsOf ==
  ASSUME NEW b \in Block
  PROVE  /\ Len(Commits[b]) \in Nat
         /\ DOMAIN Commits[b] = 1 .. Len(Commits[b])
         /\ Commits[b] = [i \in 1 .. Len(Commits[b]) |-> Commits[b][i]]
<1>1. Commits[b] \in Seq(Range(Commits[b]))
  BY BlockStoreAssumption
<1> QED
  BY <1>1

(* The keys of a branch: a metadata key or the key of a commit.            *)
LEMMA HeldKey ==
  ASSUME NEW s, NEW l \in Seq(Block), NEW i \in Nat, NEW j \in 0 .. Len(l),
         DOMAIN s \subseteq Nat \X Nat, Holds(s, l, i, j),
         NEW k \in DOMAIN s
  PROVE  \E n \in i + 1 .. j :
           /\ n \in DOMAIN l /\ l[n] \in Block
           /\ k[1] = CheckpointHeight + n
           /\ k = <<CheckpointHeight + n, k[2]>>
           /\ k[2] \in 0 .. Len(Commits[l[n]])
           /\ ~IsMeta(k) => k[2] \in DOMAIN Commits[l[n]]
<1> DEFINE n == k[1] - CheckpointHeight
<1>1. k[1] \in Nat /\ k[2] \in Nat /\ k = <<k[1], k[2]>> /\ CheckpointHeight \in Nat
  BY BlockStoreAssumption
<1>2. n \in i + 1 .. j /\ k[2] <= Len(Commits[l[n]])
  BY DEF Holds
<1>3. n \in DOMAIN l /\ l[n] \in Block /\ k[1] = CheckpointHeight + n
  BY <1>1, <1>2
<1>4. Len(Commits[l[n]]) \in Nat /\ DOMAIN Commits[l[n]] = 1 .. Len(Commits[l[n]])
  BY <1>3, CommitsOf
<1>5. k[2] \in 0 .. Len(Commits[l[n]])
  BY <1>1, <1>2, <1>4
<1>6. ~IsMeta(k) => k[2] \in DOMAIN Commits[l[n]]
  BY <1>4, <1>5 DEF IsMeta
<1>7. k = <<CheckpointHeight + n, k[2]>>
  BY <1>1, <1>3
<1> HIDE DEF n
<1> QED
  BY <1>2, <1>3, <1>5, <1>6, <1>7

(* The same, of a whole branch.                                            *)
LEMMA HeldKeyOf ==
  ASSUME NEW s, NEW l \in Seq(Block),
         DOMAIN s \subseteq Nat \X Nat, Holds(s, l, 0, Len(l)),
         NEW k \in DOMAIN s
  PROVE  \E n \in DOMAIN l :
           /\ n \in 0 + 1 .. Len(l)
           /\ k[1] = CheckpointHeight + n
           /\ k = <<CheckpointHeight + n, k[2]>>
           /\ ~IsMeta(k) => k[2] \in DOMAIN Commits[l[n]]
<1>1. 0 \in Nat /\ Len(l) \in 0 .. Len(l)
  OBVIOUS
<1>2. PICK n \in 0 + 1 .. Len(l) :
        /\ n \in DOMAIN l
        /\ k[1] = CheckpointHeight + n
        /\ k = <<CheckpointHeight + n, k[2]>>
        /\ ~IsMeta(k) => k[2] \in DOMAIN Commits[l[n]]
  BY <1>1, HeldKey
<1> QED
  BY <1>2

(* The stored heights are those of the branch.                             *)
LEMMA HeldHeights ==
  ASSUME NEW s, NEW l \in Seq(Block), NEW i \in Nat, NEW j \in 0 .. Len(l),
         DOMAIN s \subseteq Nat \X Nat, Holds(s, l, i, j)
  PROVE  Heights(s) = {CheckpointHeight + n : n \in i + 1 .. j}
<1>1. ASSUME NEW h \in Heights(s)
      PROVE  h \in {CheckpointHeight + n : n \in i + 1 .. j}
  <2>1. PICK k \in DOMAIN s : IsMeta(k) /\ h = k[1]
    BY DEF Heights
  <2> QED
    BY <2>1, HeldKey
<1>2. ASSUME NEW n \in i + 1 .. j PROVE CheckpointHeight + n \in Heights(s)
  <2>1. MetaKey(CheckpointHeight + n) \in DOMAIN s
    BY DEF Holds
  <2>2. /\ IsMeta(MetaKey(CheckpointHeight + n))
        /\ MetaKey(CheckpointHeight + n)[1] = CheckpointHeight + n
    BY DEF IsMeta, MetaKey
  <2> QED
    BY <2>1, <2>2 DEF Heights
<1> QED
  BY <1>1, <1>2

(* The same, as an interval.                                               *)
LEMMA HeldInterval ==
  ASSUME NEW s, NEW l \in Seq(Block),
         DOMAIN s \subseteq Nat \X Nat, Holds(s, l, 0, Len(l))
  PROVE  Heights(s) = CheckpointHeight + 1 .. CheckpointHeight + Len(l)
<1> DEFINE H == {CheckpointHeight + n : n \in 0 + 1 .. Len(l)}
<1>0. CheckpointHeight \in Nat /\ Len(l) \in Nat /\ 0 \in Nat
  BY BlockStoreAssumption
<1>1. Heights(s) = H
  BY <1>0, HeldHeights
<1>2. ASSUME NEW h \in H
      PROVE  h \in CheckpointHeight + 1 .. CheckpointHeight + Len(l)
  BY <1>0
<1>3. ASSUME NEW h \in CheckpointHeight + 1 .. CheckpointHeight + Len(l)
      PROVE  h \in H
  <2>1. h - CheckpointHeight \in 0 + 1 .. Len(l)
        /\ h = CheckpointHeight + (h - CheckpointHeight)
    BY <1>0
  <2> QED
    BY <2>1
<1> HIDE DEF H
<1> QED
  BY <1>1, <1>2, <1>3

(* After a block's keys come those of the next height.                     *)
LEMMA HeldNext ==
  ASSUME NEW s, NEW l \in Seq(Block), NEW n \in DOMAIN l,
         DOMAIN s \subseteq Nat \X Nat, Holds(s, l, 0, Len(l))
  PROVE  NextHeight(s, CheckpointHeight + n) = CheckpointHeight + n + 1
<1> DEFINE h == CheckpointHeight + n
           top == CheckpointHeight + Len(l)
           above == {g \in Heights(s) : g > h}
           K == {k[1] : k \in DOMAIN s}
<1>0. /\ CheckpointHeight \in Nat /\ Len(l) \in Nat /\ n \in 1 .. Len(l)
      /\ h \in Nat /\ top \in Nat /\ h <= top
  BY BlockStoreAssumption
<1>1. Heights(s) = CheckpointHeight + 1 .. top
  BY HeldInterval
<1>2. CASE h = top
  <2>1. above = {}
    BY <1>0, <1>1, <1>2
  <2>2. ASSUME NEW g \in K PROVE g \in Nat /\ g <= top
    <3>1. PICK k \in DOMAIN s : g = k[1]
      OBVIOUS
    <3> HIDE DEF h, top, above, K
    <3>2. PICK m \in DOMAIN l : k[1] = CheckpointHeight + m
      BY HeldKeyOf
    <3>3. m \in 1 .. Len(l)
      BY <1>0
    <3> QED
      BY <1>0, <3>1, <3>2, <3>3 DEF top
  <2>3. top \in K
    <3>1. PICK k \in DOMAIN s : IsMeta(k) /\ top = k[1]
      <4>1. top \in Heights(s)
        BY <1>0, <1>1, <1>2
      <4> QED
        BY <4>1 DEF Heights
    <3> QED
      BY <3>1
  <2> HIDE DEF K, top
  <2>4. Max(K) = top
    BY <2>2, <2>3, MaxIs
  <2> HIDE DEF above
  <2>5. NextHeight(s, h) = Max(K) + 1
    BY <2>1 DEF NextHeight, above, K
  <2> QED
    BY <1>2, <2>4, <2>5
<1>3. CASE h # top
  <2>1. h + 1 \in above
    BY <1>0, <1>1, <1>3
  <2>2. \A g \in above : g \in Nat /\ h + 1 <= g
    BY <1>0, <1>1
  <2>3. NextHeight(s, h) = Min(above)
    BY <2>1 DEF NextHeight
  <2> HIDE DEF above, h
  <2>4. Min(above) = h + 1
    BY <2>1, <2>2, MinIs
  <2> QED
    BY <2>3, <2>4 DEF h
<1> QED
  BY <1>2, <1>3

(* Between them are its commits, in their order.                           *)
LEMMA HeldCommits ==
  ASSUME NEW s, NEW l \in Seq(Block), NEW n \in DOMAIN l,
         DOMAIN s \subseteq Nat \X Nat, Holds(s, l, 0, Len(l))
  PROVE  CommitsBetween(s, CheckpointHeight + n, CheckpointHeight + n + 1)
           = Commits[l[n]]
<1> DEFINE h == CheckpointHeight + n
           c == Len(Commits[l[n]])
           K == {k \in DOMAIN s : ~IsMeta(k) /\ h <= k[1] /\ k[1] < h + 1}
           R == {<<h, i>> : i \in 1 .. c}
<1>0. /\ CheckpointHeight \in Nat /\ Len(l) \in Nat /\ n \in 1 .. Len(l)
      /\ h \in Nat /\ l[n] \in Block
  BY BlockStoreAssumption
<1>1. /\ c \in Nat /\ DOMAIN Commits[l[n]] = 1 .. c
      /\ Commits[l[n]] = [i \in 1 .. c |-> Commits[l[n]][i]]
  BY <1>0, CommitsOf
<1>2. ASSUME NEW i \in 1 .. c
      PROVE  <<h, i>> \in DOMAIN s /\ s[<<h, i>>] = Commits[l[n]][i]
  <2>1. n \in 0 + 1 .. Len(l)
    BY <1>0
  <2> QED
    BY <1>1, <2>1 DEF Holds
<1>3. ASSUME NEW k \in K PROVE k \in R
  <2>0. k \in DOMAIN s /\ ~IsMeta(k) /\ h <= k[1] /\ k[1] < h + 1
    OBVIOUS
  <2>1. PICK m \in DOMAIN l :
          /\ m \in 0 + 1 .. Len(l)
          /\ k[1] = CheckpointHeight + m
          /\ k = <<CheckpointHeight + m, k[2]>>
          /\ ~IsMeta(k) => k[2] \in DOMAIN Commits[l[m]]
    <3> HIDE DEF K, R, h, c
    <3> QED
      BY <2>0, HeldKeyOf
  <2>2. m = n
    BY <1>0, <2>0, <2>1
  <2>3. k[2] \in 1 .. c /\ k = <<h, k[2]>>
    BY <1>1, <2>0, <2>1, <2>2
  <2> QED
    BY <2>3
<1>4. ASSUME NEW k \in R PROVE k \in K
  <2>1. PICK i \in 1 .. c : k = <<h, i>>
    OBVIOUS
  <2>2. k \in DOMAIN s
    BY <1>2, <2>1
  <2>3. ~IsMeta(k) /\ h <= k[1] /\ k[1] < h + 1
    BY <1>0, <1>1, <2>1 DEF IsMeta
  <2> QED
    BY <2>2, <2>3
<1>5. K = R
  <2> HIDE DEF K, R
  <2> QED
    BY <1>3, <1>4
<1>6. InOrder(K) = [i \in 1 .. c |-> <<h, i>>]
  <2> HIDE DEF h, c, K
  <2> QED
    BY <1>0, <1>1, <1>5, RowInOrder
<1>7. CommitsBetween(s, h, h + 1)
        = [i \in DOMAIN InOrder(K) |-> s[InOrder(K)[i]]]
  BY DEF CommitsBetween
<1> HIDE DEF K, c, h
<1>8. CommitsBetween(s, h, h + 1) = [i \in 1 .. c |-> s[<<h, i>>]]
  BY <1>6, <1>7
<1>9. CommitsBetween(s, h, h + 1) = Commits[l[n]]
  BY <1>1, <1>2, <1>8
<1> QED
  BY <1>9 DEF h

(* Before the first block there is no commit.                              *)
LEMMA HeldNoneBelow ==
  ASSUME NEW s, NEW l \in Seq(Block),
         DOMAIN s \subseteq Nat \X Nat, Holds(s, l, 0, Len(l))
  PROVE  CommitsBetween(s, 0, CheckpointHeight + 1) = <<>>
<1> DEFINE K == {k \in DOMAIN s :
                   ~IsMeta(k) /\ 0 <= k[1] /\ k[1] < CheckpointHeight + 1}
<1>0. CheckpointHeight \in Nat /\ Len(l) \in Nat
  BY BlockStoreAssumption
<1>1. K = {}
  <2> SUFFICES ASSUME NEW k \in K PROVE FALSE
    OBVIOUS
  <2>1. k \in DOMAIN s /\ k[1] < CheckpointHeight + 1
    OBVIOUS
  <2> HIDE DEF K
  <2>2. PICK m \in DOMAIN l : m \in 0 + 1 .. Len(l) /\ k[1] = CheckpointHeight + m
    BY <2>1, HeldKeyOf
  <2> QED
    BY <1>0, <2>1, <2>2
<1>2. CommitsBetween(s, 0, CheckpointHeight + 1)
        = [i \in DOMAIN InOrder(K) |-> s[InOrder(K)[i]]]
  BY DEF CommitsBetween
<1> HIDE DEF K
<1>3. DOMAIN InOrder(K) = {}
  <2>1. Cardinality(K) = 0
    BY <1>1, FS_EmptySet
  <2> QED
    BY <2>1 DEF InOrder
<1> QED
  BY <1>2, <1>3

(* A reader of a stored height gets that block of the branch, entire.      *)
LEMMA HeldBlock ==
  ASSUME NEW s, NEW l \in Seq(Block), NEW n \in DOMAIN l,
         DOMAIN s \subseteq Nat \X Nat, Holds(s, l, 0, Len(l))
  PROVE  /\ s[MetaKey(CheckpointHeight + n)] = Metadata(l[n])
         /\ db_get_full_block_by_height(s, CheckpointHeight + n)
              = [hash |-> l[n], previous |-> Prev[l[n]],
                 commits |-> Commits[l[n]]]
<1> DEFINE h == CheckpointHeight + n
           above == {g \in Heights(s) : g >= h}
<1>0. /\ CheckpointHeight \in Nat /\ Len(l) \in Nat /\ n \in 1 .. Len(l)
      /\ h \in Nat
  BY BlockStoreAssumption
<1>1. Heights(s) = CheckpointHeight + 1 .. CheckpointHeight + Len(l)
  BY HeldInterval
<1>2. h \in above /\ \A g \in above : g \in Nat /\ h <= g
  BY <1>0, <1>1
<1>3. Min(above) = h
  <2> HIDE DEF above, h
  <2> QED
    BY <1>2, MinIs
<1>4. s[MetaKey(h)] = Metadata(l[n])
  <2>1. n \in 0 + 1 .. Len(l)
    BY <1>0
  <2> QED
    BY <2>1 DEF Holds
<1>5. CommitsBetween(s, h, NextHeight(s, h)) = Commits[l[n]]
  BY HeldNext, HeldCommits
<1>6. Metadata(l[n]).hash = l[n] /\ Metadata(l[n]).previous = Prev[l[n]]
  BY DEF Metadata
<1>7. above # {}
  BY <1>2
<1>8. db_get_full_block_by_height(s, h)
        = [hash     |-> s[MetaKey(h)].hash,
           previous |-> s[MetaKey(h)].previous,
           commits  |-> CommitsBetween(s, h, NextHeight(s, h))]
  <2> HIDE DEF h
  <2> QED
    BY <1>3, <1>7 DEF db_get_full_block_by_height
<1> QED
  BY <1>4, <1>5, <1>6, <1>8

(* A search for a commit finds the heights of the blocks that have it.     *)
LEMMA HeldSearch ==
  ASSUME NEW s, NEW l \in Seq(Block), NEW c,
         DOMAIN s \subseteq Nat \X Nat, IsFiniteSet(DOMAIN s),
         Holds(s, l, 0, Len(l))
  PROVE  Range(db_find_commits(s, c)) =
           {h \in Heights(s) : c \in Range(Commits[s[MetaKey(h)].hash])}
<1> DEFINE K == {k \in DOMAIN s : ~IsMeta(k) /\ s[k] = c}
           ks == InOrder(K)
           below(k) == {0} \cup {h \in Heights(s) : h <= k[1]}
           F == db_find_commits(s, c)
           G == {h \in Heights(s) : c \in Range(Commits[s[MetaKey(h)].hash])}
<1>0. CheckpointHeight \in Nat /\ Len(l) \in Nat /\ Len(l) \in 0 .. Len(l) /\ 0 \in Nat
  BY BlockStoreAssumption
<1>1. Heights(s) = CheckpointHeight + 1 .. CheckpointHeight + Len(l)
  BY HeldInterval
<1>2. Range(ks) = K
  <2>1. K \in SUBSET DOMAIN s /\ K \in SUBSET (Nat \X Nat)
    OBVIOUS
  <2> HIDE DEF K
  <2>2. IsFiniteSet(K)
    BY <2>1, FS_Subset
  <2> QED
    BY <2>1, <2>2, InOrderRange
<1>3. F = [i \in DOMAIN ks |-> Max(below(ks[i]))]
  BY DEF db_find_commits
<1>4. ASSUME NEW k \in K
      PROVE  \E n \in DOMAIN l :
               /\ n \in 1 .. Len(l)
               /\ k[1] = CheckpointHeight + n
               /\ k = <<CheckpointHeight + n, k[2]>>
               /\ k[2] \in DOMAIN Commits[l[n]]
  <2>1. k \in DOMAIN s /\ ~IsMeta(k)
    OBVIOUS
  <2>2. PICK n \in DOMAIN l :
          /\ n \in 0 + 1 .. Len(l)
          /\ k[1] = CheckpointHeight + n
          /\ k = <<CheckpointHeight + n, k[2]>>
          /\ ~IsMeta(k) => k[2] \in DOMAIN Commits[l[n]]
    <3> HIDE DEF K, ks, below, F, G
    <3> QED
      BY <2>1, HeldKeyOf
  <2> QED
    BY <2>1, <2>2
<1>5. ASSUME NEW k \in K PROVE Max(below(k)) = k[1]
  <2>1. k[1] \in Heights(s) /\ k[1] \in Nat
    BY <1>0, <1>1, <1>4
  <2>2. below(k) \in SUBSET Nat /\ k[1] \in below(k) /\ \A y \in below(k) : y <= k[1]
    BY <1>0, <1>1, <2>1
  <2> HIDE DEF below, K
  <2> QED
    BY <2>2, MaxIs
<1>6. ASSUME NEW n \in DOMAIN l
      PROVE  /\ s[MetaKey(CheckpointHeight + n)].hash = l[n]
             /\ l[n] \in Block
             /\ CheckpointHeight + n \in Heights(s)
  <2>1. s[MetaKey(CheckpointHeight + n)] = Metadata(l[n])
    BY HeldBlock
  <2>2. n \in 1 .. Len(l)
    OBVIOUS
  <2> QED
    BY <1>0, <1>1, <2>1, <2>2 DEF Metadata
<1>7. ASSUME NEW h \in Range(F) PROVE h \in G
  <2>1. PICK i \in DOMAIN ks : h = Max(below(ks[i]))
    <3> HIDE DEF below, ks, F
    <3> QED
      BY <1>3 DEF Range
  <2>2. ks[i] \in K
    <3> HIDE DEF K
    <3> QED
      BY <1>2 DEF Range
  <2>3. h = ks[i][1]
    <3> HIDE DEF below, K
    <3> QED
      BY <1>5, <2>1, <2>2
  <2>4. PICK n \in DOMAIN l :
          /\ ks[i][1] = CheckpointHeight + n
          /\ ks[i] = <<CheckpointHeight + n, ks[i][2]>>
          /\ ks[i][2] \in DOMAIN Commits[l[n]]
    <3> HIDE DEF K, ks
    <3> QED
      BY <1>4, <2>2
  <2>5. n \in 0 + 1 .. Len(l)
    BY <1>0
  <2>6. s[<<CheckpointHeight + n, ks[i][2]>>] = Commits[l[n]][ks[i][2]]
    <3> HIDE DEF ks
    <3> QED
      BY <2>4, <2>5 DEF Holds
  <2>7. s[ks[i]] = c
    BY <2>2
  <2>8. c \in Range(Commits[l[n]])
    <3> HIDE DEF ks
    <3> QED
      BY <2>4, <2>6, <2>7 DEF Range
  <2> HIDE DEF ks
  <2> QED
    BY <1>6, <2>3, <2>4, <2>8
<1>8. ASSUME NEW h \in G PROVE h \in Range(F)
  <2>0. h \in CheckpointHeight + 1 .. CheckpointHeight + Len(l)
    BY <1>1
  <2> HIDE DEF G
  <2>1. h - CheckpointHeight \in DOMAIN l
        /\ h = CheckpointHeight + (h - CheckpointHeight)
        /\ h - CheckpointHeight \in 0 + 1 .. Len(l)
    BY <1>0, <2>0
  <2>2. PICK n \in DOMAIN l : h = CheckpointHeight + n /\ n \in 0 + 1 .. Len(l)
    BY <2>1
  <2>3. c \in Range(Commits[l[n]])
    BY <1>6, <2>2 DEF G
  <2>4. PICK j \in DOMAIN Commits[l[n]] : c = Commits[l[n]][j]
    BY <2>3 DEF Range
  <2>5. <<h, j>> \in DOMAIN s /\ s[<<h, j>>] = c
    BY <2>2, <2>4 DEF Holds
  <2>6. ~IsMeta(<<h, j>>)
    <3>1. j \in 1 .. Len(Commits[l[n]]) /\ Len(Commits[l[n]]) \in Nat
      BY <1>6, CommitsOf
    <3> QED
      BY <3>1 DEF IsMeta
  <2>7. <<h, j>> \in K
    BY <2>5, <2>6
  <2>8. PICK i \in DOMAIN ks : ks[i] = <<h, j>>
    <3> HIDE DEF K, ks
    <3> QED
      BY <1>2, <2>7 DEF Range
  <2>9. F[i] = h
    <3>1. F[i] = Max(below(ks[i]))
      <4> HIDE DEF ks, below, F
      <4> QED
        BY <1>3
    <3> HIDE DEF ks, below, F, K
    <3>2. Max(below(ks[i])) = ks[i][1]
      BY <1>5, <2>7, <2>8
    <3> QED
      BY <2>8, <3>1, <3>2
  <2>10. i \in DOMAIN F
    <3> HIDE DEF ks, below, F
    <3> QED
      BY <1>3
  <2> HIDE DEF F
  <2> QED
    BY <2>9, <2>10 DEF Range
<1> HIDE DEF F, G
<1>9. Range(F) = G
  BY <1>7, <1>8
<1> QED
  BY <1>9 DEF F, G

(* A height that is not stored is answered without a hash.                 *)
LEMMA NotStored ==
  ASSUME NEW s, NEW h \in Nat, DOMAIN s \subseteq Nat \X Nat, h \notin Heights(s)
  PROVE  db_get_full_block_by_height(s, h).hash = Empty
<1> DEFINE above == {g \in Heights(s) : g >= h}
<1>1. CASE above = {}
  BY <1>1 DEF db_get_full_block_by_height
<1>2. CASE above # {}
  <2>1. Heights(s) \in SUBSET Nat
    BY DEF Heights
  <2>2. Min(above) \in above
    <3>1. above \in SUBSET Nat
      BY <2>1
    <3> HIDE DEF above
    <3> QED
      BY <1>2, <3>1, MinIsLeast
  <2>3. Min(above) # h
    BY <2>2
  <2> QED
    BY <1>2, <2>3 DEF db_get_full_block_by_height
<1> QED
  BY <1>1, <1>2

(* What the readers of the keys of a branch get.                           *)
LEMMA ReadersOfBranch ==
  ASSUME NEW l \in Seq(Block), Height \in Nat,
         DOMAIN store \subseteq Nat \X Nat, IsFiniteSet(DOMAIN store),
         Holds(store, l, 0, Len(l))
  PROVE  ReadersSeeWholeBlocks
<1>0. CheckpointHeight \in Nat /\ Len(l) \in Nat
  BY BlockStoreAssumption
<1>1. ASSUME NEW h \in Heights(store)
      PROVE  /\ db_get_full_block_by_height(store, h).hash \in Block
             /\ db_get_full_block_by_height(store, h).previous
                  = Prev[db_get_full_block_by_height(store, h).hash]
             /\ db_get_full_block_by_height(store, h).commits
                  = Commits[db_get_full_block_by_height(store, h).hash]
  <2>1. PICK n \in DOMAIN l : h = CheckpointHeight + n
    <3>1. h \in CheckpointHeight + 1 .. CheckpointHeight + Len(l)
      BY HeldInterval
    <3>2. h - CheckpointHeight \in DOMAIN l
          /\ h = CheckpointHeight + (h - CheckpointHeight)
      BY <1>0, <3>1
    <3> QED
      BY <3>2
  <2>2. db_get_full_block_by_height(store, h)
          = [hash |-> l[n], previous |-> Prev[l[n]], commits |-> Commits[l[n]]]
    BY <2>1, HeldBlock
  <2> QED
    BY <2>2
<1>2. ASSUME NEW c
      PROVE  Range(db_find_commits(store, c)) =
               {h \in Heights(store) : c \in Range(Commits[store[MetaKey(h)].hash])}
  BY HeldSearch
<1>3. ASSUME NEW h \in (0 .. Height + 1) \ Heights(store)
      PROVE  db_get_full_block_by_height(store, h).hash = Empty
  BY NotStored
<1> QED
  BY <1>1, <1>2, <1>3 DEF ReadersSeeWholeBlocks

(* If the keys of s are those of the branch in memory, of which libcomb    *)
(* has the commits, readers of s get what libcomb has.                     *)
LEMMA BranchMirrors ==
  ASSUME NEW s, line \in Seq(Block), Len(lib) = Len(line), DOMAIN lib = DOMAIN line,
         \A i \in DOMAIN line : lib[i] = Commits[line[i]],
         DOMAIN s \subseteq Nat \X Nat, Holds(s, line, 0, Len(line))
  PROVE  Mirrors(s)
<1>1. Heights(s) = CheckpointHeight + 1 .. Height
  BY HeldInterval DEF Height
<1>2. ASSUME NEW i \in DOMAIN lib
      PROVE  /\ db_get_full_block_by_height(s, CheckpointHeight + i).hash = line[i]
             /\ db_get_full_block_by_height(s, CheckpointHeight + i).commits = lib[i]
  <2>1. db_get_full_block_by_height(s, CheckpointHeight + i)
          = [hash |-> line[i], previous |-> Prev[line[i]],
             commits |-> Commits[line[i]]]
    BY HeldBlock
  <2> QED
    BY <2>1
<1> QED
  BY <1>1, <1>2 DEF Mirrors

-------------------------------------------------------------------------------
(* What the writers make of the keys of a branch.                          *)

(* The keys of a branch are also those of one that agrees with it there.   *)
LEMMA HoldsSame ==
  ASSUME NEW s, NEW l, NEW m, NEW i \in Nat, NEW j \in Nat,
         \A n \in i + 1 .. j : m[n] = l[n], Holds(s, l, i, j)
  PROVE  Holds(s, m, i, j)
<1>1. ASSUME NEW k \in DOMAIN s
      PROVE  /\ k[1] - CheckpointHeight \in i + 1 .. j
             /\ k[2] <= Len(Commits[m[k[1] - CheckpointHeight]])
  BY DEF Holds
<1>2. ASSUME NEW n \in i + 1 .. j
      PROVE  /\ MetaKey(CheckpointHeight + n) \in DOMAIN s
             /\ s[MetaKey(CheckpointHeight + n)] = Metadata(m[n])
             /\ \A c \in DOMAIN Commits[m[n]] :
                  /\ <<CheckpointHeight + n, c>> \in DOMAIN s
                  /\ s[<<CheckpointHeight + n, c>>] = Commits[m[n]][c]
  BY DEF Holds
<1> QED
  BY <1>1, <1>2 DEF Holds

(* Metadata is not the mark of a deleted key.                              *)
LEMMA NotDeleted ==
  ASSUME NEW b
  PROVE  Metadata(b) # Deleted
<1>1. "hash" \in DOMAIN Metadata(b) /\ "hash" \notin DOMAIN Deleted
  BY DEF Metadata, Deleted
<1> QED
  BY <1>1

(* The keys of a branch are all put, none deleted.                         *)
LEMMA HeldPut ==
  ASSUME NEW s, NEW l \in Seq(Block), NEW i \in Nat, NEW j \in 0 .. Len(l),
         DOMAIN s \subseteq Nat \X Nat, Holds(s, l, i, j), NEW k \in DOMAIN s
  PROVE  s[k] # Deleted
<1>1. PICK n \in i + 1 .. j :
        /\ l[n] \in Block
        /\ k = <<CheckpointHeight + n, k[2]>>
        /\ ~IsMeta(k) => k[2] \in DOMAIN Commits[l[n]]
  BY HeldKey
<1>2. CASE IsMeta(k)
  <2>1. s[MetaKey(CheckpointHeight + n)] = Metadata(l[n])
    BY DEF Holds
  <2>2. k = MetaKey(CheckpointHeight + n)
    BY <1>1, <1>2 DEF IsMeta, MetaKey
  <2> QED
    BY <2>1, <2>2, NotDeleted
<1>3. CASE ~IsMeta(k)
  <2>1. s[k] = Commits[l[n]][k[2]]
    BY <1>1, <1>3 DEF Holds
  <2>2. Commits[l[n]][k[2]] \in Range(Commits[l[n]])
    BY <1>1, <1>3 DEF Range
  <2> QED
    BY <1>1, <2>1, <2>2, CommitAssumption
<1> QED
  BY <1>2, <1>3

(* A write adds the batch's part of the branch to the database's.          *)
LEMMA HoldsWrite ==
  ASSUME NEW s, NEW bt, NEW l \in Seq(Block), NEW m \in 0 .. Len(l),
         DOMAIN s \subseteq Nat \X Nat, DOMAIN bt \subseteq Nat \X Nat,
         Holds(s, l, 0, m), Holds(bt, l, m, Len(l))
  PROVE  /\ Holds(Write(bt, s), l, 0, Len(l))
         /\ DOMAIN Write(bt, s) = DOMAIN bt \cup DOMAIN s
<1> DEFINE w == Write(bt, s)
<1>0. Len(l) \in Nat /\ m \in Nat /\ m <= Len(l) /\ Len(l) \in 0 .. Len(l)
      /\ CheckpointHeight \in Nat
  BY BlockStoreAssumption
<1>1. \A k \in DOMAIN bt : bt[k] # Deleted
  BY <1>0, HeldPut
<1>2. /\ DOMAIN w = DOMAIN bt \cup DOMAIN s
      /\ \A k \in DOMAIN bt : w[k] = bt[k]
      /\ \A k \in DOMAIN s : k \notin DOMAIN bt => w[k] = s[k]
  BY <1>1 DEF Write
<1> HIDE DEF w
<1>3. ASSUME NEW k \in DOMAIN w
      PROVE  /\ k[1] - CheckpointHeight \in 0 + 1 .. Len(l)
             /\ k[2] <= Len(Commits[l[k[1] - CheckpointHeight]])
  <2>1. CASE k \in DOMAIN bt
    <3>1. /\ k[1] - CheckpointHeight \in m + 1 .. Len(l)
          /\ k[2] <= Len(Commits[l[k[1] - CheckpointHeight]])
      BY <2>1 DEF Holds
    <3> QED
      BY <1>0, <3>1
  <2>2. CASE k \in DOMAIN s
    <3>1. /\ k[1] - CheckpointHeight \in 0 + 1 .. m
          /\ k[2] <= Len(Commits[l[k[1] - CheckpointHeight]])
      BY <2>2 DEF Holds
    <3> QED
      BY <1>0, <3>1
  <2> QED
    BY <1>2, <2>1, <2>2
<1>4. ASSUME NEW n \in 0 + 1 .. Len(l)
      PROVE  /\ MetaKey(CheckpointHeight + n) \in DOMAIN w
             /\ w[MetaKey(CheckpointHeight + n)] = Metadata(l[n])
             /\ \A c \in DOMAIN Commits[l[n]] :
                  /\ <<CheckpointHeight + n, c>> \in DOMAIN w
                  /\ w[<<CheckpointHeight + n, c>>] = Commits[l[n]][c]
  <2>1. CASE n \in m + 1 .. Len(l)
    <3>1. /\ MetaKey(CheckpointHeight + n) \in DOMAIN bt
          /\ bt[MetaKey(CheckpointHeight + n)] = Metadata(l[n])
          /\ \A c \in DOMAIN Commits[l[n]] :
               /\ <<CheckpointHeight + n, c>> \in DOMAIN bt
               /\ bt[<<CheckpointHeight + n, c>>] = Commits[l[n]][c]
      BY <2>1 DEF Holds
    <3> QED
      BY <1>2, <3>1
  <2>2. CASE n \in 0 + 1 .. m
    <3>1. /\ MetaKey(CheckpointHeight + n) \in DOMAIN s
          /\ s[MetaKey(CheckpointHeight + n)] = Metadata(l[n])
          /\ \A c \in DOMAIN Commits[l[n]] :
               /\ <<CheckpointHeight + n, c>> \in DOMAIN s
               /\ s[<<CheckpointHeight + n, c>>] = Commits[l[n]][c]
      BY <2>2 DEF Holds
    <3>2. ASSUME NEW k \in DOMAIN bt PROVE k[1] # CheckpointHeight + n
      <4>1. k[1] - CheckpointHeight \in m + 1 .. Len(l)
        BY DEF Holds
      <4> QED
        BY <1>0, <2>2, <4>1
    <3>3. MetaKey(CheckpointHeight + n) \notin DOMAIN bt
      BY <3>2 DEF MetaKey
    <3>4. \A c : <<CheckpointHeight + n, c>> \notin DOMAIN bt
      BY <3>2
    <3> QED
      BY <1>2, <3>1, <3>3, <3>4
  <2> QED
    BY <1>0, <2>1, <2>2
<1>5. Holds(w, l, 0, Len(l))
  BY <1>3, <1>4 DEF Holds
<1> QED
  BY <1>2, <1>5 DEF w

(* The keys db_store_block puts.                                           *)
LEMMA StoreBlockKeys ==
  ASSUME NEW b \in Block, NEW h \in Nat
  PROVE  /\ \A k \in DOMAIN db_store_block(b, h) :
              /\ k \in Nat \X Nat
              /\ k[1] = h
              /\ k[2] <= Len(Commits[b])
         /\ MetaKey(h) \in DOMAIN db_store_block(b, h)
         /\ db_store_block(b, h)[MetaKey(h)] = Metadata(b)
         /\ \A k \in DOMAIN db_store_block(b, h) :
              IsMeta(k) => db_store_block(b, h)[k] = Metadata(b)
         /\ \A c \in DOMAIN Commits[b] :
              /\ <<h, c>> \in DOMAIN db_store_block(b, h)
              /\ db_store_block(b, h)[<<h, c>>] = Commits[b][c]
         /\ IsFiniteSet(DOMAIN db_store_block(b, h))
<1> DEFINE n == Len(Commits[b])
           R == {<<h, i>> : i \in 1 .. n}
           D == {MetaKey(h)} \cup R
           w == db_store_block(b, h)
<1>1. n \in Nat /\ DOMAIN Commits[b] = 1 .. n
  BY CommitsOf
<1>2. DOMAIN w = D
  BY <1>1 DEF db_store_block
<1>3. \A k \in D : w[k] = IF IsMeta(k) THEN Metadata(b) ELSE Commits[b][k[2]]
  BY <1>1 DEF db_store_block
<1>4. IsFiniteSet(D)
  <2>1. IsFiniteSet(R)
    BY <1>1, RowCardinality
  <2>2. IsFiniteSet(R \cup {MetaKey(h)})
    <3> HIDE DEF R
    <3> QED
      BY <2>1, FS_AddElement
  <2>3. R \cup {MetaKey(h)} = D
    OBVIOUS
  <2> QED
    BY <2>2, <2>3
<1>5. ASSUME NEW k \in D PROVE k \in Nat \X Nat /\ k[1] = h /\ k[2] <= n
  BY <1>1 DEF MetaKey
<1>6. MetaKey(h) \in D /\ IsMeta(MetaKey(h))
  BY DEF MetaKey, IsMeta
<1>7. \A c \in 1 .. n : <<h, c>> \in D /\ ~IsMeta(<<h, c>>) /\ <<h, c>>[2] = c
  BY <1>1 DEF IsMeta
<1> HIDE DEF D, w, n
<1>8. \A c \in 1 .. n : <<h, c>> \in DOMAIN w /\ w[<<h, c>>] = Commits[b][c]
  BY <1>2, <1>3, <1>7
<1>9. w[MetaKey(h)] = Metadata(b) /\ \A k \in DOMAIN w : IsMeta(k) => w[k] = Metadata(b)
  BY <1>2, <1>3, <1>6
<1>10. /\ \A k \in DOMAIN w : k \in Nat \X Nat /\ k[1] = h /\ k[2] <= n
       /\ MetaKey(h) \in DOMAIN w
       /\ IsFiniteSet(DOMAIN w)
  BY <1>2, <1>4, <1>5, <1>6
<1>11. \A c \in DOMAIN Commits[b] :
         <<h, c>> \in DOMAIN w /\ w[<<h, c>>] = Commits[b][c]
  BY <1>1, <1>8
<1> QED
  BY <1>9, <1>10, <1>11 DEF w, n

(* A block that is processed on the tip adds its part to the batch's.      *)
LEMMA HoldsProcess ==
  ASSUME NEW s, NEW bt, NEW l \in Seq(Block), NEW m \in 0 .. Len(l), NEW b \in Block,
         DOMAIN s \subseteq Nat \X Nat, DOMAIN bt \subseteq Nat \X Nat,
         Holds(s, l, 0, m), Holds(bt, l, m, Len(l))
  PROVE  Holds(db_process_block(s, bt, b, CheckpointHeight + Len(l) + 1),
               Append(l, b), m, Len(l) + 1)
<1> DEFINE h == CheckpointHeight + Len(l) + 1
           new == db_store_block(b, h)
           w == db_process_block(s, bt, b, h)
           a == Append(l, b)
<1>0. /\ Len(l) \in Nat /\ m \in Nat /\ m <= Len(l) /\ Len(l) \in 0 .. Len(l)
      /\ CheckpointHeight \in Nat /\ h \in Nat /\ 0 \in Nat
      /\ h - CheckpointHeight = Len(l) + 1
  BY BlockStoreAssumption
<1>1. DOMAIN db_remove_block(s, h) = {}
  <2>1. ASSUME NEW k \in DOMAIN s PROVE k[1] # h
    <3>1. k[1] - CheckpointHeight \in 0 + 1 .. m
      BY DEF Holds
    <3> QED
      BY <1>0, <3>1
  <2> QED
    BY <2>1 DEF db_remove_block
<1>2. /\ DOMAIN w = DOMAIN bt \cup DOMAIN new
      /\ \A k \in DOMAIN new : w[k] = new[k]
      /\ \A k \in DOMAIN bt : k \notin DOMAIN new => w[k] = bt[k]
  <2> HIDE DEF h
  <2> QED
    BY <1>1 DEF db_process_block
<1>3. a[Len(l) + 1] = b /\ \A n \in 1 .. Len(l) : a[n] = l[n]
  OBVIOUS
<1>4. /\ \A k \in DOMAIN new : k \in Nat \X Nat /\ k[1] = h /\ k[2] <= Len(Commits[b])
      /\ MetaKey(h) \in DOMAIN new
      /\ new[MetaKey(h)] = Metadata(b)
      /\ \A c \in DOMAIN Commits[b] :
           <<h, c>> \in DOMAIN new /\ new[<<h, c>>] = Commits[b][c]
  BY <1>0, StoreBlockKeys
<1> HIDE DEF w, new, a
<1>5. ASSUME NEW k \in DOMAIN w
      PROVE  /\ k[1] - CheckpointHeight \in m + 1 .. Len(l) + 1
             /\ k[2] <= Len(Commits[a[k[1] - CheckpointHeight]])
  <2>1. CASE k \in DOMAIN bt
    <3>1. /\ k[1] - CheckpointHeight \in m + 1 .. Len(l)
          /\ k[2] <= Len(Commits[l[k[1] - CheckpointHeight]])
      BY <2>1 DEF Holds
    <3> QED
      BY <1>0, <1>3, <3>1
  <2>2. CASE k \in DOMAIN new
    BY <1>0, <1>3, <1>4, <2>2
  <2> QED
    BY <1>2, <2>1, <2>2
<1>6. ASSUME NEW n \in m + 1 .. Len(l) + 1
      PROVE  /\ MetaKey(CheckpointHeight + n) \in DOMAIN w
             /\ w[MetaKey(CheckpointHeight + n)] = Metadata(a[n])
             /\ \A c \in DOMAIN Commits[a[n]] :
                  /\ <<CheckpointHeight + n, c>> \in DOMAIN w
                  /\ w[<<CheckpointHeight + n, c>>] = Commits[a[n]][c]
  <2>1. CASE n \in m + 1 .. Len(l)
    <3>1. /\ MetaKey(CheckpointHeight + n) \in DOMAIN bt
          /\ bt[MetaKey(CheckpointHeight + n)] = Metadata(l[n])
          /\ \A c \in DOMAIN Commits[l[n]] :
               /\ <<CheckpointHeight + n, c>> \in DOMAIN bt
               /\ bt[<<CheckpointHeight + n, c>>] = Commits[l[n]][c]
      BY <2>1 DEF Holds
    <3>2. CheckpointHeight + n # h /\ a[n] = l[n]
      BY <1>0, <1>3, <2>1
    <3>3. MetaKey(CheckpointHeight + n) \notin DOMAIN new
      BY <1>4, <3>2 DEF MetaKey
    <3>4. \A c : <<CheckpointHeight + n, c>> \notin DOMAIN new
      BY <1>4, <3>2
    <3> QED
      BY <1>2, <3>1, <3>2, <3>3, <3>4
  <2>2. CASE n = Len(l) + 1
    <3>1. CheckpointHeight + n = h /\ a[n] = b
      BY <1>0, <1>3, <2>2
    <3> HIDE DEF h
    <3> QED
      BY <1>2, <1>4, <3>1
  <2>3. n \in m + 1 .. Len(l) \/ n = Len(l) + 1
    BY <1>0
  <2> QED
    BY <2>1, <2>2, <2>3
<1>7. Holds(w, a, m, Len(l) + 1)
  BY <1>5, <1>6 DEF Holds
<1> QED
  BY <1>7 DEF w, a

(* A removal of the heights above one of the branch cuts the branch there. *)
LEMMA HoldsCut ==
  ASSUME NEW s, NEW l \in Seq(Block), NEW i \in 0 .. Len(l),
         DOMAIN s \subseteq Nat \X Nat, Holds(s, l, 0, Len(l))
  PROVE  Holds(Only(s, DOMAIN s \ KeysAfter(s, CheckpointHeight + i + 1)), l, 0, i)
<1> DEFINE K == DOMAIN s \ KeysAfter(s, CheckpointHeight + i + 1)
           w == Only(s, K)
<1>0. Len(l) \in Nat /\ i \in Nat /\ i <= Len(l) /\ CheckpointHeight \in Nat
  BY BlockStoreAssumption
<1>1. \A k \in DOMAIN s : k \in K <=> k[1] <= CheckpointHeight + i
  <2>1. \A k \in DOMAIN s : k[1] \in Nat
    OBVIOUS
  <2> QED
    BY <1>0, <2>1 DEF KeysAfter
<1>2. DOMAIN w = K /\ \A k \in K : w[k] = s[k]
  BY DEF Only
<1>3. K \subseteq DOMAIN s
  OBVIOUS
<1> HIDE DEF w, K
<1>4. ASSUME NEW k \in DOMAIN w
      PROVE  /\ k[1] - CheckpointHeight \in 0 + 1 .. i
             /\ k[2] <= Len(Commits[l[k[1] - CheckpointHeight]])
  <2>1. k \in DOMAIN s /\ k[1] <= CheckpointHeight + i /\ k[1] \in Nat
    BY <1>1, <1>2, <1>3
  <2>2. /\ k[1] - CheckpointHeight \in 0 + 1 .. Len(l)
        /\ k[2] <= Len(Commits[l[k[1] - CheckpointHeight]])
    BY <2>1 DEF Holds
  <2> QED
    BY <1>0, <2>1, <2>2
<1>5. ASSUME NEW n \in 0 + 1 .. i
      PROVE  /\ MetaKey(CheckpointHeight + n) \in DOMAIN w
             /\ w[MetaKey(CheckpointHeight + n)] = Metadata(l[n])
             /\ \A c \in DOMAIN Commits[l[n]] :
                  /\ <<CheckpointHeight + n, c>> \in DOMAIN w
                  /\ w[<<CheckpointHeight + n, c>>] = Commits[l[n]][c]
  <2>1. n \in 0 + 1 .. Len(l) /\ CheckpointHeight + n <= CheckpointHeight + i
    BY <1>0
  <2>2. /\ MetaKey(CheckpointHeight + n) \in DOMAIN s
        /\ s[MetaKey(CheckpointHeight + n)] = Metadata(l[n])
        /\ \A c \in DOMAIN Commits[l[n]] :
             /\ <<CheckpointHeight + n, c>> \in DOMAIN s
             /\ s[<<CheckpointHeight + n, c>>] = Commits[l[n]][c]
    BY <2>1 DEF Holds
  <2>3. MetaKey(CheckpointHeight + n)[1] = CheckpointHeight + n
    BY DEF MetaKey
  <2>4. MetaKey(CheckpointHeight + n) \in K
    BY <1>1, <2>1, <2>2, <2>3
  <2>5. \A c \in DOMAIN Commits[l[n]] : <<CheckpointHeight + n, c>> \in K
    <3>1. \A c : <<CheckpointHeight + n, c>>[1] = CheckpointHeight + n
      OBVIOUS
    <3> QED
      BY <1>1, <2>1, <2>2, <3>1
  <2> QED
    BY <1>2, <2>2, <2>4, <2>5
<1>6. Holds(w, l, 0, i)
  BY <1>4, <1>5 DEF Holds
<1> QED
  BY <1>6 DEF w, K

-------------------------------------------------------------------------------
(* Branches.                                                               *)

(* A block that follows the end of a branch extends it.                    *)
LEMMA BranchAppend ==
  ASSUME NEW l \in Branches, NEW b \in Block,
         Prev[b] = IF l = <<>> THEN Checkpoint ELSE l[Len(l)]
  PROVE  Append(l, b) \in Branches
<1> DEFINE a == Append(l, b)
<1>1. l \in Seq(Block) /\ Links(l)
  BY DEF Branches
<1>2. /\ a \in Seq(Block) /\ Len(a) = Len(l) + 1 /\ Len(l) \in Nat
      /\ a[Len(l) + 1] = b /\ \A i \in 1 .. Len(l) : a[i] = l[i]
      /\ DOMAIN a = 1 .. Len(l) + 1 /\ DOMAIN l = 1 .. Len(l)
      /\ l = <<>> <=> Len(l) = 0
  BY <1>1
<1> HIDE DEF a
<1>3. ASSUME NEW i \in DOMAIN a
      PROVE  Prev[a[i]] = IF i = 1 THEN Checkpoint ELSE a[i - 1]
  <2>1. CASE i \in 1 .. Len(l)
    <3>1. Prev[l[i]] = IF i = 1 THEN Checkpoint ELSE l[i - 1]
      BY <1>1, <1>2, <2>1 DEF Links
    <3>2. i # 1 => i - 1 \in 1 .. Len(l)
      BY <1>2, <2>1
    <3> QED
      BY <1>2, <2>1, <3>1, <3>2
  <2>2. CASE i = Len(l) + 1
    <3>1. i # 1 => i - 1 \in 1 .. Len(l) /\ i - 1 = Len(l) /\ l # <<>>
      BY <1>2, <2>2
    <3>2. i = 1 => l = <<>>
      BY <1>2, <2>2
    <3> QED
      BY <1>2, <2>2, <3>1, <3>2
  <2>3. i \in 1 .. Len(l) \/ i = Len(l) + 1
    BY <1>2
  <2> QED
    BY <2>1, <2>2, <2>3
<1> QED
  BY <1>2, <1>3 DEF Branches, Links, a

(* The beginning of a branch is one.                                       *)
LEMMA BranchPrefix ==
  ASSUME NEW l \in Branches, NEW m \in 0 .. Len(l)
  PROVE  /\ SubSeq(l, 1, m) \in Branches
         /\ Len(SubSeq(l, 1, m)) = m
         /\ \A i \in 1 .. m : SubSeq(l, 1, m)[i] = l[i]
<1> DEFINE p == SubSeq(l, 1, m)
<1>1. l \in Seq(Block) /\ Links(l)
  BY DEF Branches
<1>2. /\ p \in Seq(Block) /\ Len(p) = m /\ m \in Nat /\ DOMAIN p = 1 .. m
      /\ \A i \in 1 .. m : p[i] = l[i] /\ i \in DOMAIN l
  BY <1>1
<1> HIDE DEF p
<1>3. ASSUME NEW i \in DOMAIN p
      PROVE  Prev[p[i]] = IF i = 1 THEN Checkpoint ELSE p[i - 1]
  <2>1. Prev[l[i]] = IF i = 1 THEN Checkpoint ELSE l[i - 1]
    BY <1>1, <1>2 DEF Links
  <2>2. i # 1 => i - 1 \in 1 .. m
    BY <1>2
  <2> QED
    BY <1>2, <2>1, <2>2
<1> QED
  BY <1>2, <1>3 DEF Branches, Links, p

(* The empty branch.                                                       *)
LEMMA BranchEmpty == <<>> \in Branches
<1>1. <<>> \in Seq(Block) /\ DOMAIN <<>> = {}
  OBVIOUS
<1> QED
  BY <1>1 DEF Branches, Links

(* No block is twice on a branch: the checkpoint is none of them.          *)
LEMMA BranchDistinct ==
  ASSUME NEW l \in Branches, NEW i \in DOMAIN l, NEW j \in DOMAIN l, l[i] = l[j]
  PROVE  i = j
<1> DEFINE T == {x \in 1 .. Len(l) : \E y \in 1 .. Len(l) : x < y /\ l[x] = l[y]}
<1>1. l \in Seq(Block) /\ Links(l) /\ DOMAIN l = 1 .. Len(l) /\ Len(l) \in Nat
  BY DEF Branches
<1>2. T = {}
  <2> SUFFICES ASSUME T # {} PROVE FALSE
    OBVIOUS
  <2>1. T \in SUBSET Nat
    BY <1>1
  <2>2. PICK x \in T : \A y \in T : x <= y
    <3> HIDE DEF T
    <3> QED
      BY <2>1, LeastExists
  <2>3. x \in 1 .. Len(l)
    OBVIOUS
  <2>4. PICK y \in 1 .. Len(l) : x < y /\ l[x] = l[y]
    OBVIOUS
  <2>5. y # 1 /\ y - 1 \in 1 .. Len(l)
    BY <1>1, <2>3, <2>4
  <2>6. Prev[l[x]] = IF x = 1 THEN Checkpoint ELSE l[x - 1]
    BY <1>1, <2>3 DEF Links
  <2>7. Prev[l[y]] = l[y - 1]
    BY <1>1, <2>4, <2>5 DEF Links
  <2>8. CASE x = 1
    <3>1. l[y - 1] \in Block /\ l[y - 1] = Checkpoint
      BY <1>1, <2>4, <2>5, <2>6, <2>7, <2>8
    <3> QED
      BY <3>1, BlockStoreAssumption
  <2>9. CASE x # 1
    <3>1. x - 1 \in 1 .. Len(l) /\ x - 1 < y - 1 /\ ~(x <= x - 1)
      BY <1>1, <2>3, <2>4, <2>9
    <3>2. l[x - 1] = l[y - 1]
      BY <2>4, <2>6, <2>7, <2>9
    <3>3. x - 1 \in T
      BY <2>5, <3>1, <3>2
    <3> QED
      BY <2>2, <3>1, <3>3
  <2> QED
    BY <2>8, <2>9
<1>3. i \in 1 .. Len(l) /\ j \in 1 .. Len(l)
  BY <1>1
<1>4. ~(i < j) /\ ~(j < i)
  BY <1>2, <1>3
<1> QED
  BY <1>1, <1>3, <1>4

(* The search by hash finds the height of a block of the branch.           *)
LEMMA HeldByHash ==
  ASSUME NEW s, NEW l \in Branches, NEW n \in DOMAIN l,
         DOMAIN s \subseteq Nat \X Nat, Holds(s, l, 0, Len(l))
  PROVE  db_get_block_by_hash(s, l[n]) = CheckpointHeight + n
<1> DEFINE found == {h \in Heights(s) : s[MetaKey(h)].hash = l[n]}
           top == CheckpointHeight + n
<1>0. /\ l \in Seq(Block) /\ Len(l) \in Nat /\ DOMAIN l = 1 .. Len(l)
      /\ CheckpointHeight \in Nat /\ top \in Nat
  BY BlockStoreAssumption DEF Branches
<1>1. Heights(s) = CheckpointHeight + 1 .. CheckpointHeight + Len(l)
  BY <1>0, HeldInterval
<1>2. ASSUME NEW m \in DOMAIN l
      PROVE  s[MetaKey(CheckpointHeight + m)].hash = l[m]
  <2>1. s[MetaKey(CheckpointHeight + m)] = Metadata(l[m])
    BY <1>0, HeldBlock
  <2> QED
    BY <2>1 DEF Metadata
<1>3. top \in found
  BY <1>0, <1>1, <1>2
<1>4. ASSUME NEW h \in found PROVE h = top
  <2>1. h \in CheckpointHeight + 1 .. CheckpointHeight + Len(l)
    BY <1>1
  <2>2. PICK m \in DOMAIN l : h = CheckpointHeight + m
    <3>1. h - CheckpointHeight \in DOMAIN l
          /\ h = CheckpointHeight + (h - CheckpointHeight)
      <4> HIDE DEF found, top
      <4> QED
        BY <1>0, <2>1
    <3> QED
      BY <3>1
  <2>3. l[m] = l[n]
    BY <1>2, <2>2
  <2>4. m = n
    BY <2>3, BranchDistinct
  <2> QED
    BY <2>2, <2>4
<1>5. found # {}
  BY <1>3
<1>6. db_get_block_by_hash(s, l[n]) = Max(found)
  BY <1>5 DEF db_get_block_by_hash
<1>7. Max(found) = top
  <2> HIDE DEF found, top
  <2>1. found \in SUBSET Nat /\ \A y \in found : y <= top
    BY <1>0, <1>4
  <2> QED
    BY <1>3, <2>1, MaxIs
<1> QED
  BY <1>6, <1>7

(* A load of an undamaged database is sent the branch, after a zero block  *)
(* that has no commits.                                                    *)
LEMMA HeldScan ==
  ASSUME NEW s, NEW l \in Branches,
         DOMAIN s \subseteq Nat \X Nat, Holds(s, l, 0, Len(l))
  PROVE  /\ \A r \in db_load_blocks(s) :
              \/ r.hash = Empty /\ r.height = 0 /\ ~Mismatch(r)
              \/ \E n \in 1 .. Len(l) : r = Sent(l, n)
         /\ \A n \in 1 .. Len(l) : Sent(l, n) \in db_load_blocks(s)
<1> DEFINE zero == [height |-> 0, hash |-> Empty, previous |-> Empty,
                    fingerprint |-> db_compute_block_fingerprint(<<>>),
                    commits |-> CommitsBetween(s, 0, Min(Heights(s)))]
           rec(h) == [height |-> h, hash |-> s[MetaKey(h)].hash,
                      previous |-> s[MetaKey(h)].previous,
                      fingerprint |-> s[MetaKey(h)].fingerprint,
                      commits |-> CommitsBetween(s, h, NextHeight(s, h))]
<1>0. /\ l \in Seq(Block) /\ Len(l) \in Nat /\ DOMAIN l = 1 .. Len(l)
      /\ CheckpointHeight \in Nat
  BY BlockStoreAssumption DEF Branches
<1>1. Heights(s) = CheckpointHeight + 1 .. CheckpointHeight + Len(l)
  BY <1>0, HeldInterval
<1>2. ASSUME NEW n \in 1 .. Len(l)
      PROVE  rec(CheckpointHeight + n) = Sent(l, n)
  <2>1. s[MetaKey(CheckpointHeight + n)] = Metadata(l[n])
    BY <1>0, HeldBlock
  <2>2. CommitsBetween(s, CheckpointHeight + n,
                       NextHeight(s, CheckpointHeight + n)) = Commits[l[n]]
    BY <1>0, HeldNext, HeldCommits
  <2>3. /\ Metadata(l[n]).hash = l[n] /\ Metadata(l[n]).previous = Prev[l[n]]
        /\ Metadata(l[n]).fingerprint = db_compute_block_fingerprint(Commits[l[n]])
    BY DEF Metadata
  <2> QED
    BY <2>1, <2>2, <2>3 DEF Sent
<1>3. CASE Len(l) = 0
  <2>1. Heights(s) = {}
    BY <1>0, <1>1, <1>3
  <2>2. db_load_blocks(s) = {}
    BY <2>1 DEF db_load_blocks
  <2>3. 1 .. Len(l) = {}
    BY <1>3
  <2> QED
    BY <2>2, <2>3
<1>4. CASE Len(l) # 0
  <2>1. CheckpointHeight + 1 \in Heights(s)
    BY <1>0, <1>1, <1>4
  <2>2. Min(Heights(s)) = CheckpointHeight + 1
    <3>1. /\ Heights(s) \in SUBSET Nat
          /\ \A y \in Heights(s) : CheckpointHeight + 1 <= y
      BY <1>0, <1>1
    <3> QED
      BY <2>1, <3>1, MinIs
  <2>3. zero.hash = Empty /\ zero.height = 0 /\ ~Mismatch(zero)
    <3>1. CommitsBetween(s, 0, CheckpointHeight + 1) = <<>>
      BY <1>0, HeldNoneBelow
    <3>2. zero.commits = <<>>
      BY <2>2, <3>1
    <3>3. /\ zero.hash = Empty /\ zero.height = 0
          /\ zero.fingerprint = db_compute_block_fingerprint(<<>>)
      OBVIOUS
    <3> HIDE DEF zero
    <3> QED
      BY <3>2, <3>3 DEF Mismatch
  <2>4. db_load_blocks(s) = {zero} \cup {rec(h) : h \in Heights(s)}
    <3>1. Heights(s) # {}
      BY <2>1
    <3> QED
      BY <3>1 DEF db_load_blocks
  <2> HIDE DEF zero, rec
  <2>5. ASSUME NEW r \in db_load_blocks(s), r # zero
        PROVE  \E n \in 1 .. Len(l) : r = Sent(l, n)
    <3>1. PICK h \in Heights(s) : r = rec(h)
      BY <2>4, <2>5
    <3>2. h - CheckpointHeight \in 1 .. Len(l)
          /\ h = CheckpointHeight + (h - CheckpointHeight)
      BY <1>0, <1>1
    <3> QED
      BY <1>2, <3>1, <3>2
  <2>6. ASSUME NEW n \in 1 .. Len(l) PROVE Sent(l, n) \in db_load_blocks(s)
    <3>1. CheckpointHeight + n \in Heights(s)
      BY <1>0, <1>1
    <3>2. rec(CheckpointHeight + n) \in db_load_blocks(s)
      BY <2>4, <3>1
    <3> QED
      BY <1>2, <3>2
  <2> QED
    BY <2>3, <2>5, <2>6
<1> QED
  BY <1>3, <1>4

-------------------------------------------------------------------------------
(* What every step keeps of the metadata, damage or not.                   *)

(* The metadata a block is stored with.                                    *)
LEMMA MetadataFits ==
  ASSUME NEW b
  PROVE  Metadata(b) \in MetadataOf(b)
  BY DEF Metadata, MetadataOf

(* No keys at all.                                                         *)
LEMMA NoKeysInv == MetadataInv(NoKeys) /\ DOMAIN NoKeys = {}
<1>1. DOMAIN NoKeys = {}
  BY DEF NoKeys
<1>2. 0 \in Nat /\ \A k \in DOMAIN NoKeys : k[1] <= 0
  BY <1>1
<1> QED
  BY <1>1, <1>2, FS_EmptySet DEF MetadataInv

(* Some of the keys.                                                       *)
LEMMA OnlyInv ==
  ASSUME NEW s, MetadataInv(s), NEW K \in SUBSET DOMAIN s
  PROVE  MetadataInv(Only(s, K)) /\ DOMAIN Only(s, K) = K
<1> DEFINE w == Only(s, K)
<1>1. DOMAIN w = K /\ \A k \in K : w[k] = s[k]
  BY DEF Only
<1> HIDE DEF w
<1>2. IsFiniteSet(K)
  BY FS_Subset DEF MetadataInv
<1>3. PICK n \in Nat : \A k \in DOMAIN s : k[1] <= n
  BY DEF MetadataInv
<1>4. \A k \in DOMAIN w : k[1] <= n
  BY <1>1, <1>3
<1>5. DOMAIN w \subseteq Nat \X Nat
  BY <1>1 DEF MetadataInv
<1>6. \A k \in DOMAIN w :
        IsMeta(k) => w[k] = Deleted \/ \E b \in Block : w[k] \in MetadataOf(b)
  BY <1>1 DEF MetadataInv
<1>7. MetadataInv(w)
  BY <1>1, <1>2, <1>4, <1>5, <1>6 DEF MetadataInv
<1> QED
  BY <1>1, <1>7 DEF w

(* A write of the batch.                                                   *)
LEMMA WriteInv ==
  ASSUME NEW s, NEW bt, MetadataInv(s), MetadataInv(bt),
         \A k \in DOMAIN s : IsMeta(k) => s[k] # Deleted
  PROVE  /\ MetadataInv(Write(bt, s))
         /\ \A k \in DOMAIN Write(bt, s) : IsMeta(k) => Write(bt, s)[k] # Deleted
<1> DEFINE w == Write(bt, s)
           D == DOMAIN bt \cup DOMAIN s
<1>1. /\ DOMAIN w \subseteq D
      /\ \A k \in DOMAIN w : /\ k \in DOMAIN bt => w[k] = bt[k] /\ w[k] # Deleted
                             /\ k \notin DOMAIN bt => k \in DOMAIN s /\ w[k] = s[k]
  BY DEF Write
<1> HIDE DEF w
<1>2. IsFiniteSet(DOMAIN w)
  <2>1. IsFiniteSet(DOMAIN bt) /\ IsFiniteSet(DOMAIN s)
    BY DEF MetadataInv
  <2>2. IsFiniteSet(D)
    BY <2>1, FS_Union
  <2> QED
    BY <1>1, <2>2, FS_Subset
<1>3. \E n \in Nat : \A k \in DOMAIN w : k[1] <= n
  <2>1. PICK n \in Nat : \A k \in DOMAIN s : k[1] <= n
    BY DEF MetadataInv
  <2>2. PICK m \in Nat : \A k \in DOMAIN bt : k[1] <= m
    BY DEF MetadataInv
  <2>3. ASSUME NEW k \in DOMAIN w PROVE k[1] <= n + m
    <3>1. k \in Nat \X Nat
      BY <1>1 DEF MetadataInv
    <3>2. k[1] \in Nat /\ (k[1] <= n \/ k[1] <= m)
      BY <1>1, <2>1, <2>2, <3>1
    <3> QED
      BY <3>2
  <2>4. n + m \in Nat
    OBVIOUS
  <2> QED
    BY <2>3, <2>4
<1>4. DOMAIN w \subseteq Nat \X Nat
  BY <1>1 DEF MetadataInv
<1>5. ASSUME NEW k \in DOMAIN w, IsMeta(k)
      PROVE  w[k] # Deleted /\ \E b \in Block : w[k] \in MetadataOf(b)
  <2>1. w[k] # Deleted
    BY <1>1, <1>5
  <2>2. CASE k \in DOMAIN bt
    BY <1>1, <1>5, <2>1, <2>2 DEF MetadataInv
  <2>3. CASE k \notin DOMAIN bt
    BY <1>1, <1>5, <2>1, <2>3 DEF MetadataInv
  <2> QED
    BY <2>1, <2>2, <2>3
<1>6. MetadataInv(w)
  BY <1>2, <1>3, <1>4, <1>5 DEF MetadataInv
<1> QED
  BY <1>5, <1>6 DEF w

(* A block added to the batch.                                             *)
LEMMA ProcessInv ==
  ASSUME NEW s, NEW bt, NEW b \in Block, NEW h \in Nat, MetadataInv(s), MetadataInv(bt)
  PROVE  MetadataInv(db_process_block(s, bt, b, h))
<1> DEFINE w == db_process_block(s, bt, b, h)
           new == db_store_block(b, h)
           del == db_remove_block(s, h)
<1>1. /\ DOMAIN w = DOMAIN bt \cup DOMAIN del \cup DOMAIN new
      /\ \A k \in DOMAIN w :
           w[k] = IF k \in DOMAIN new THEN new[k]
                  ELSE IF k \in DOMAIN del THEN del[k] ELSE bt[k]
  BY DEF db_process_block
<1>2. DOMAIN del \subseteq DOMAIN s /\ \A k \in DOMAIN del : del[k] = Deleted
  BY DEF db_remove_block
<1>3. /\ \A k \in DOMAIN new : k \in Nat \X Nat /\ k[1] = h
      /\ \A k \in DOMAIN new : IsMeta(k) => new[k] = Metadata(b)
      /\ IsFiniteSet(DOMAIN new)
  BY StoreBlockKeys
<1> HIDE DEF w, new, del
<1>4. IsFiniteSet(DOMAIN w)
  <2>1. IsFiniteSet(DOMAIN bt) /\ IsFiniteSet(DOMAIN del)
    BY <1>2, FS_Subset DEF MetadataInv
  <2>2. IsFiniteSet(DOMAIN bt \cup DOMAIN del)
    BY <2>1, FS_Union
  <2>3. IsFiniteSet((DOMAIN bt \cup DOMAIN del) \cup DOMAIN new)
    BY <1>3, <2>2, FS_Union
  <2> QED
    BY <1>1, <2>3
<1>5. DOMAIN w \subseteq Nat \X Nat
  BY <1>1, <1>2, <1>3 DEF MetadataInv
<1>6. \E n \in Nat : \A k \in DOMAIN w : k[1] <= n
  <2>1. PICK n \in Nat : \A k \in DOMAIN s : k[1] <= n
    BY DEF MetadataInv
  <2>2. PICK m \in Nat : \A k \in DOMAIN bt : k[1] <= m
    BY DEF MetadataInv
  <2>3. ASSUME NEW k \in DOMAIN w PROVE k[1] <= n + m + h
    <3>1. k[1] \in Nat
      BY <1>5
    <3>2. k[1] <= n \/ k[1] <= m \/ k[1] = h
      BY <1>1, <1>2, <1>3, <2>1, <2>2
    <3> QED
      BY <3>1, <3>2
  <2>4. n + m + h \in Nat
    OBVIOUS
  <2> QED
    BY <2>3, <2>4
<1>7. ASSUME NEW k \in DOMAIN w, IsMeta(k)
      PROVE  w[k] = Deleted \/ \E x \in Block : w[k] \in MetadataOf(x)
  <2>1. CASE k \in DOMAIN new
    <3>1. w[k] = Metadata(b)
      BY <1>1, <1>3, <1>7, <2>1
    <3> QED
      BY <3>1, MetadataFits
  <2>2. CASE k \notin DOMAIN new /\ k \in DOMAIN del
    BY <1>1, <1>2, <2>2
  <2>3. CASE k \notin DOMAIN new /\ k \notin DOMAIN del
    <3>1. k \in DOMAIN bt /\ w[k] = bt[k]
      BY <1>1, <2>3
    <3> QED
      BY <1>7, <3>1 DEF MetadataInv
  <2> QED
    BY <2>1, <2>2, <2>3
<1>8. MetadataInv(w)
  BY <1>4, <1>5, <1>6, <1>7 DEF MetadataInv
<1> QED
  BY <1>8 DEF w

(* A value that is replaced by one that fits.                              *)
LEMMA ReplaceInv ==
  ASSUME NEW s, MetadataInv(s), NEW k \in DOMAIN s, NEW v,
         \A x \in DOMAIN s : IsMeta(x) => s[x] # Deleted,
         IsMeta(k) => v # Deleted /\ \E b \in Block : v \in MetadataOf(b)
  PROVE  LET w == [s EXCEPT ![k] = v]
         IN  MetadataInv(w) /\ \A x \in DOMAIN w : IsMeta(x) => w[x] # Deleted
<1> DEFINE w == [s EXCEPT ![k] = v]
<1>1. /\ DOMAIN w = DOMAIN s /\ w[k] = v
      /\ \A x \in DOMAIN s : x # k => w[x] = s[x]
  OBVIOUS
<1> HIDE DEF w
<1>2. /\ DOMAIN w \subseteq Nat \X Nat
      /\ IsFiniteSet(DOMAIN w)
      /\ \E n \in Nat : \A x \in DOMAIN w : x[1] <= n
  BY <1>1 DEF MetadataInv
<1>3. ASSUME NEW x \in DOMAIN w, IsMeta(x)
      PROVE  w[x] # Deleted /\ \E b \in Block : w[x] \in MetadataOf(b)
  <2>1. CASE x = k
    BY <1>1, <1>3, <2>1
  <2>2. CASE x # k
    <3>1. w[x] = s[x] /\ x \in DOMAIN s
      BY <1>1, <2>2
    <3> QED
      BY <1>3, <3>1 DEF MetadataInv
  <2> QED
    BY <2>1, <2>2
<1>4. MetadataInv(w)
  BY <1>2, <1>3 DEF MetadataInv
<1> QED
  BY <1>3, <1>4 DEF w

(* What is left of metadata when its hash or its fingerprint is altered.   *)
LEMMA AlteredFits ==
  ASSUME NEW b, NEW v \in MetadataOf(b)
  PROVE  /\ [v EXCEPT !.hash = Garbage] \in MetadataOf(b)
         /\ [v EXCEPT !.previous = Altered] \in MetadataOf(b)
         /\ [v EXCEPT !.fingerprint = Altered] \in MetadataOf(b)
         /\ v # Deleted
<1>1. /\ [v EXCEPT !.hash = Garbage] \in MetadataOf(b)
      /\ [v EXCEPT !.previous = Altered] \in MetadataOf(b)
      /\ [v EXCEPT !.fingerprint = Altered] \in MetadataOf(b)
  BY DEF MetadataOf
<1>2. "hash" \in DOMAIN v /\ "hash" \notin DOMAIN Deleted
  BY DEF MetadataOf, Deleted
<1> QED
  BY <1>1, <1>2

(* The search by hash returns a height.                                    *)
LEMMA ByHashType ==
  ASSUME NEW s, NEW x, MetadataInv(s)
  PROVE  db_get_block_by_hash(s, x) \in Nat
<1> DEFINE found == {h \in Heights(s) : s[MetaKey(h)].hash = x}
<1>1. Heights(s) \in SUBSET Nat
  BY DEF Heights, MetadataInv
<1>2. PICK n \in Nat : \A k \in DOMAIN s : k[1] <= n
  BY DEF MetadataInv
<1>3. \A h \in Heights(s) : h <= n
  BY <1>2 DEF Heights
<1>4. CASE found # {}
  <2>1. db_get_block_by_hash(s, x) = Max(found)
    BY <1>4 DEF db_get_block_by_hash
  <2>2. found \in SUBSET Nat /\ \A y \in found : y <= n
    BY <1>1, <1>3
  <2>3. Max(found) \in found
    <3> HIDE DEF found
    <3> QED
      BY <1>4, <2>2, MaxIsGreatest
  <2> QED
    BY <2>1, <2>2, <2>3
<1>5. CASE found = {} /\ Heights(s) # {}
  <2>1. db_get_block_by_hash(s, x) = Min(Heights(s))
    BY <1>5 DEF db_get_block_by_hash
  <2>2. Min(Heights(s)) \in Heights(s)
    BY <1>1, <1>5, MinIsLeast
  <2> QED
    BY <1>1, <2>1, <2>2
<1>6. CASE found = {} /\ Heights(s) = {}
  BY <1>6 DEF db_get_block_by_hash
<1> QED
  BY <1>4, <1>5, <1>6

(* A load is sent the zero block and, of any set of keys, blocks whose     *)
(* metadata is that of some block but for what was altered.                *)
LEMMA ScanSends ==
  ASSUME NEW s, MetadataInv(s), \A k \in DOMAIN s : IsMeta(k) => s[k] # Deleted,
         NEW r \in db_load_blocks(s)
  PROVE  Sendable(r)
<1> DEFINE zero == [height |-> 0, hash |-> Empty, previous |-> Empty,
                    fingerprint |-> db_compute_block_fingerprint(<<>>),
                    commits |-> CommitsBetween(s, 0, Min(Heights(s)))]
           rec(h) == [height |-> h, hash |-> s[MetaKey(h)].hash,
                      previous |-> s[MetaKey(h)].previous,
                      fingerprint |-> s[MetaKey(h)].fingerprint,
                      commits |-> CommitsBetween(s, h, NextHeight(s, h))]
<1>1. Heights(s) # {}
  BY DEF db_load_blocks
<1>2. r \in {zero} \cup {rec(h) : h \in Heights(s)}
  BY <1>1 DEF db_load_blocks
<1>3. CASE r = zero
  <2>1. r.height = 0 /\ r.hash = Empty
    BY <1>3
  <2> QED
    BY <2>1 DEF Sendable
<1>4. CASE r # zero
  <2>1. PICK h \in Heights(s) : r = rec(h)
    <3> HIDE DEF zero, rec
    <3> QED
      BY <1>2, <1>4
  <2>2. /\ r.height = h /\ r.hash = s[MetaKey(h)].hash
        /\ r.previous = s[MetaKey(h)].previous
        /\ r.fingerprint = s[MetaKey(h)].fingerprint
    BY <2>1
  <2>3. h \in Nat /\ MetaKey(h) \in DOMAIN s /\ IsMeta(MetaKey(h))
    <3>1. PICK k \in DOMAIN s : IsMeta(k) /\ h = k[1]
      BY DEF Heights
    <3>2. k \in Nat \X Nat
      BY DEF MetadataInv
    <3>3. k = <<k[1], k[2]>> /\ k[1] \in Nat
      BY <3>2
    <3>4. k = MetaKey(h)
      BY <3>1, <3>3 DEF IsMeta, MetaKey
    <3> QED
      BY <3>1, <3>3, <3>4
  <2>4. PICK b \in Block : s[MetaKey(h)] \in MetadataOf(b)
    BY <2>3 DEF MetadataInv
  <2>5. /\ s[MetaKey(h)].hash \in {b, Garbage}
        /\ s[MetaKey(h)].previous \in {Prev[b], Altered}
        /\ s[MetaKey(h)].fingerprint \in
             {db_compute_block_fingerprint(Commits[b]), Altered}
    BY <2>4 DEF MetadataOf
  <2> HIDE DEF zero, rec
  <2> QED
    BY <2>2, <2>3, <2>5 DEF Sendable
<1> QED
  BY <1>3, <1>4

(* The next block to be sent is one of those still to be sent, and none is *)
(* lower.                                                                  *)
LEMMA FirstIsLeast ==
  ASSUME NEW R, R # {}, \A r \in R : r.height \in Nat
  PROVE  First(R) \in R /\ \A r \in R : First(R).height <= r.height
<1> DEFINE H == {r.height : r \in R}
<1>1. H \in SUBSET Nat /\ H # {}
  OBVIOUS
<1>2. PICK h \in H : \A y \in H : h <= y
  <2> HIDE DEF H
  <2> QED
    BY <1>1, LeastExists
<1>3. PICK b \in R : b.height = h
  OBVIOUS
<1>4. \A c \in R : b.height <= c.height
  BY <1>2, <1>3
<1> QED
  BY <1>4 DEF First

-------------------------------------------------------------------------------
(* The invariant is inductive: first its part for an undamaged database,   *)
(* action by action.                                                       *)

(* The types of the variables that MetadataInv does not give.              *)
Types ==
  /\ line \in Seq(Block \cup {Garbage})
  /\ lib \in Seq({Commits[b] : b \in Block})
  /\ main \in {"down", "load", "run"}
  /\ loader \in {"none", "receive", "drain", "panic", "list", "delete"}
  /\ corruption \in Nat
  /\ doomed \subseteq Nat \X Nat
  /\ pc \in {"ready", "trace", "unload", "store"}
  /\ block \in Block \cup {Empty}
  /\ meta \in Nat
  /\ damage \in Nat

(* The parts of the invariant give the whole.                              *)
LEMMA Assemble ==
  /\ Types /\ DiskInv /\ ScanInv /\ ControlInv /\ LoadInv /\ HealthInv
  => Inv
<1> SUFFICES ASSUME Types, DiskInv, ScanInv, ControlInv, LoadInv, HealthInv
             PROVE  Inv
  OBVIOUS
<1>1. damage = 0 /\ pc # "unload" => DOMAIN lib = DOMAIN line
  <2> SUFFICES ASSUME damage = 0, pc # "unload" PROVE DOMAIN lib = DOMAIN line
    OBVIOUS
  <2>1. Len(lib) = Len(line)
    BY DEF HealthInv, LibInv
  <2>2. DOMAIN lib = 1 .. Len(lib) /\ DOMAIN line = 1 .. Len(line)
    BY DEF Types
  <2> QED
    BY <2>1, <2>2
<1>2. DOMAIN store \cup DOMAIN batch \subseteq Nat \X Nat
  BY DEF DiskInv, MetadataInv
<1>3. TypeOK /\ damage \in Nat
  BY <1>1, <1>2 DEF TypeOK, Types
<1> QED
  BY <1>3 DEF Inv

(* The whole gives its parts.                                              *)
LEMMA Parts ==
  ASSUME Inv
  PROVE  /\ Types /\ DiskInv /\ ScanInv /\ ControlInv /\ LoadInv
         /\ HealthInv
         /\ DOMAIN store \subseteq Nat \X Nat /\ DOMAIN batch \subseteq Nat \X Nat
         /\ CheckpointHeight \in Nat /\ Height \in Nat
         /\ Len(lib) \in Nat /\ Len(line) \in Nat
         /\ DOMAIN lib = 1 .. Len(lib) /\ DOMAIN line = 1 .. Len(line)
<1>1. Types
  BY DEF Inv, TypeOK, Types
<1>2. DiskInv /\ ScanInv /\ ControlInv /\ LoadInv /\ HealthInv
  BY DEF Inv
<1>3. DOMAIN store \subseteq Nat \X Nat /\ DOMAIN batch \subseteq Nat \X Nat
  BY <1>2 DEF DiskInv, MetadataInv
<1>4. /\ Len(lib) \in Nat /\ Len(line) \in Nat
      /\ DOMAIN lib = 1 .. Len(lib) /\ DOMAIN line = 1 .. Len(line)
  BY <1>1 DEF Types
<1>5. CheckpointHeight \in Nat /\ Height \in Nat
  BY <1>4, BlockStoreAssumption DEF Height
<1> QED
  BY <1>1, <1>2, <1>3, <1>4, <1>5

(* A batch without keys holds no block.                                    *)
LEMMA HoldsNothing ==
  ASSUME NEW s, DOMAIN s = {}, NEW l, NEW n \in Nat
  PROVE  Holds(s, l, n, n)
<1>1. n + 1 .. n = {}
  OBVIOUS
<1> QED
  BY <1>1 DEF Holds

(* And the other way round.                                                *)
LEMMA HoldsNoKey ==
  ASSUME NEW s, NEW l, NEW n \in Nat, Holds(s, l, n, n)
  PROVE  DOMAIN s = {}
<1>1. n + 1 .. n = {}
  OBVIOUS
<1> QED
  BY <1>1 DEF Holds

(* A block stored on the tip.                                              *)
LEMMA StoreBlockHealth ==
  ASSUME Inv, LibInv, RunInv, NEW b \in Block, Prev[b] = Tip, Len(lib) = Len(line),
         StoreBlock(b), store' = store, pc' = "ready"
  PROVE  LibInv' /\ RunInv'
<1>0. /\ DOMAIN store \subseteq Nat \X Nat /\ DOMAIN batch \subseteq Nat \X Nat
      /\ CheckpointHeight \in Nat
  BY Parts
<1>1. /\ line \in Branches /\ line \in Seq(Block) /\ Len(line) \in Nat
      /\ \A i \in DOMAIN line : lib[i] = Commits[line[i]]
      /\ DOMAIN line = 1 .. Len(line)
  BY DEF LibInv, Branches
<1>2. /\ batch' = db_process_block(store, batch, b, CheckpointHeight + Len(line) + 1)
      /\ line' = Append(line, b)
      /\ lib' = Append(lib, Commits[b])
  BY DEF StoreBlock, Height
<1>3. Prev[b] = IF line = <<>> THEN Checkpoint ELSE line[Len(line)]
  BY DEF Tip, Last
<1>4. line' \in Branches
  BY <1>1, <1>2, <1>3, BranchAppend
<1>5. /\ Len(line') = Len(line) + 1 /\ DOMAIN line' = 1 .. Len(line) + 1
      /\ line'[Len(line) + 1] = b
      /\ \A i \in 1 .. Len(line) : line'[i] = line[i]
  BY <1>1, <1>2
<1>6. /\ Len(lib') = Len(line) + 1
      /\ lib'[Len(line) + 1] = Commits[b]
      /\ \A i \in 1 .. Len(line) : lib'[i] = lib[i]
  <2>1. lib \in Seq({Commits[x] : x \in Block}) /\ Commits[b] \in {Commits[x] : x \in Block}
    BY Parts DEF Types
  <2> QED
    BY <1>2, <2>1
<1>7. LibInv'
  <2>1. ASSUME NEW i \in DOMAIN line' PROVE lib'[i] = Commits[line'[i]]
    <3>1. CASE i \in 1 .. Len(line)
      BY <1>1, <1>5, <1>6, <3>1
    <3>2. CASE i = Len(line) + 1
      BY <1>5, <1>6, <3>2
    <3>3. i \in 1 .. Len(line) \/ i = Len(line) + 1
      BY <1>1, <1>5
    <3> QED
      BY <3>1, <3>2, <3>3
  <2>2. Len(line') <= Len(lib') /\ Len(line') = Len(lib')
    BY <1>1, <1>5, <1>6
  <2> QED
    BY <1>4, <2>1, <2>2 DEF LibInv
<1>8. RunInv'
  <2>1. PICK m \in 0 .. Len(line) :
          Holds(store, line, 0, m) /\ Holds(batch, line, m, Len(line))
    BY DEF RunInv
  <2>2. Holds(store, line', 0, m)
    <3>1. \A n \in 0 + 1 .. m : line'[n] = line[n]
      BY <1>1, <1>5
    <3>2. 0 \in Nat /\ m \in Nat
      BY <1>1
    <3> QED
      BY <2>1, <3>1, <3>2, HoldsSame
  <2>3. Holds(batch', line', m, Len(line) + 1)
    BY <1>0, <1>1, <1>2, <2>1, HoldsProcess
  <2>4. m \in 0 .. Len(line')
    BY <1>1, <1>5
  <2>5. Holds(store', line', 0, m) /\ Holds(batch', line', m, Len(line'))
    BY <1>5, <2>2, <2>3
  <2> QED
    BY <2>4, <2>5 DEF RunInv
<1> QED
  BY <1>7, <1>8

(* A write of the batch: the whole branch is in the database.              *)
LEMMA WriteHealth ==
  ASSUME Inv, LibInv, RunInv, neominer_write
  PROVE  Holds(store', line, 0, Len(line)) /\ DOMAIN batch' = {}
         /\ DOMAIN store' \subseteq Nat \X Nat
<1>1. line \in Seq(Block)
  BY DEF LibInv, Branches
<1>2. PICK m \in 0 .. Len(line) :
        Holds(store, line, 0, m) /\ Holds(batch, line, m, Len(line))
  BY DEF RunInv
<1>3. DOMAIN store \subseteq Nat \X Nat /\ DOMAIN batch \subseteq Nat \X Nat
  BY Parts
<1>4. /\ Holds(Write(batch, store), line, 0, Len(line))
      /\ DOMAIN Write(batch, store) = DOMAIN batch \cup DOMAIN store
  BY <1>1, <1>2, <1>3, HoldsWrite
<1> QED
  BY <1>3, <1>4, NoKeysInv DEF neominer_write

(* Process keeps it.                                                       *)
LEMMA ProcessHealth ==
  ASSUME Inv, Process
  PROVE  HealthInv'
<1>1. /\ store' = store /\ main' = main /\ loader' = loader /\ pc' = pc
      /\ damage' = damage /\ main = "run" /\ pc = "ready"
  BY DEF Process, load, call, faults
<1>2. PICK b \in Block : Prev[b] = Tip /\ StoreBlock(b)
  BY DEF Process
<1>3. SUFFICES ASSUME damage = 0
               PROVE  loader' \in {"none", "receive"} /\ LibInv' /\ RunInv'
  BY <1>1 DEF HealthInv
<1>4. loader \in {"none", "receive"} /\ LibInv /\ RunInv
  BY <1>1, <1>3, Parts DEF HealthInv
<1>5. Len(lib) = Len(line)
  BY <1>1, <1>4 DEF LibInv
<1> QED
  BY <1>1, <1>2, <1>4, <1>5, StoreBlockHealth

(* Flush keeps it.                                                         *)
LEMMA FlushHealth ==
  ASSUME Inv, Flush
  PROVE  HealthInv'
<1>1. /\ line' = line /\ lib' = lib /\ main' = main /\ loader' = loader /\ pc' = pc
      /\ block' = block /\ meta' = meta
      /\ damage' = damage /\ main = "run" /\ pc = "ready" /\ neominer_write
  BY DEF Flush, load, call, faults
<1>2. SUFFICES ASSUME damage = 0
               PROVE  loader' \in {"none", "receive"} /\ LibInv' /\ RunInv'
  BY <1>1 DEF HealthInv
<1>3. loader \in {"none", "receive"} /\ LibInv /\ RunInv
  BY <1>1, <1>2, Parts DEF HealthInv
<1>4. LibInv'
  BY <1>1, <1>3 DEF LibInv, Tip
<1>5. Holds(store', line, 0, Len(line)) /\ DOMAIN batch' = {}
  BY <1>1, <1>3, WriteHealth
<1>6. Len(line) \in Nat /\ Len(line) \in 0 .. Len(line)
  BY Parts
<1>7. Holds(batch', line, Len(line), Len(line))
  BY <1>5, <1>6, HoldsNothing
<1>8. RunInv'
  BY <1>1, <1>5, <1>6, <1>7 DEF RunInv
<1> QED
  BY <1>1, <1>3, <1>4, <1>8

(* ReorgFlush keeps it: the search finds the height of the target.         *)
LEMMA ReorgFlushHealth ==
  ASSUME Inv, ReorgFlush
  PROVE  HealthInv'
<1>1. /\ line' = line /\ lib' = lib /\ main' = main /\ loader' = loader
      /\ main = "run" /\ pc = "ready" /\ neominer_write
      /\ pc' = "trace" /\ meta' = db_get_block_by_hash(store', Prev[block'])
      /\ Target(Prev[block'])
  BY DEF ReorgFlush, load
<1>2. SUFFICES ASSUME damage' = 0
               PROVE  loader' \in {"none", "receive"} /\ LibInv' /\ RunInv'
  BY <1>1 DEF HealthInv
<1>3. Prev[block'] \in Range(line) /\ damage = 0
  BY <1>1, <1>2, Parts DEF Target, Types
<1>4. loader \in {"none", "receive"} /\ LibInv /\ RunInv
  BY <1>1, <1>3, Parts DEF HealthInv
<1>5. /\ Holds(store', line, 0, Len(line)) /\ DOMAIN batch' = {}
      /\ DOMAIN store' \subseteq Nat \X Nat
  BY <1>1, <1>4, WriteHealth
<1>6. Len(line) \in Nat /\ Len(line) \in 0 .. Len(line)
  BY Parts
<1>7. Holds(batch', line, Len(line), Len(line))
  BY <1>5, <1>6, HoldsNothing
<1>8. RunInv'
  BY <1>1, <1>5, <1>6, <1>7 DEF RunInv
<1>9. PICK i \in DOMAIN line : line[i] = Prev[block']
  BY <1>3 DEF Range
<1>10. meta' = CheckpointHeight + i
  <2>1. line \in Branches
    BY <1>4 DEF LibInv
  <2>2. db_get_block_by_hash(store', line[i]) = CheckpointHeight + i
    BY <1>5, <2>1, HeldByHash
  <2> QED
    BY <1>1, <1>9, <2>2
<1>11. LibInv'
  BY <1>1, <1>4, <1>9, <1>10 DEF LibInv
<1> QED
  BY <1>1, <1>4, <1>8, <1>11

(* ReorgRemove keeps it: the database and the branch in memory are cut at  *)
(* the same block.  A removal that fails is a fault.                       *)
LEMMA ReorgRemoveHealth ==
  ASSUME Inv, ReorgRemove
  PROVE  HealthInv'
<1> DEFINE i == CHOOSE j \in DOMAIN line : line[j] = Prev[block]
<1>1. /\ batch' = batch /\ lib' = lib /\ main' = main /\ loader' = loader
      /\ block' = block /\ meta' = meta /\ pc = "trace" /\ pc' = "unload"
      /\ line' = IF Prev[block] = Checkpoint THEN <<>> ELSE SubSeq(line, 1, i)
  BY DEF ReorgRemove, load
<1>2. \/ /\ store' = Only(store, DOMAIN store \ KeysAfter(store, meta + 1))
         /\ damage' = damage
      \/ damage' = damage + 1
  BY DEF ReorgRemove
<1>3. damage \in Nat
  BY Parts DEF Types
<1> HIDE DEF i
<1>4. main = "run"
  BY <1>1, Parts DEF ControlInv
<1>5. SUFFICES ASSUME damage = 0,
                      store' = Only(store, DOMAIN store \ KeysAfter(store, meta + 1))
               PROVE  loader' \in {"none", "receive"} /\ LibInv' /\ RunInv'
  BY <1>1, <1>2, <1>3, <1>4 DEF HealthInv
<1>6. loader \in {"none", "receive"} /\ LibInv /\ RunInv
  BY <1>4, <1>5, Parts DEF HealthInv
<1>7. /\ DOMAIN store \subseteq Nat \X Nat /\ CheckpointHeight \in Nat
      /\ Len(line) \in Nat /\ DOMAIN line = 1 .. Len(line)
      /\ Len(lib) = Len(line) /\ line \in Branches /\ line \in Seq(Block)
      /\ \A x \in DOMAIN line : lib[x] = Commits[line[x]]
  BY <1>1, <1>6, Parts DEF LibInv, Branches
<1>8. i \in DOMAIN line /\ line[i] = Prev[block] /\ meta = CheckpointHeight + i
  <2>1. PICK j \in DOMAIN line : line[j] = Prev[block] /\ meta = CheckpointHeight + j
    BY <1>1, <1>6 DEF LibInv
  <2>2. i \in DOMAIN line /\ line[i] = Prev[block]
    BY <2>1 DEF i
  <2>3. i = j
    BY <1>7, <2>1, <2>2, BranchDistinct
  <2> QED
    BY <2>1, <2>2, <2>3
<1>9. i \in 1 .. Len(line) /\ i \in 0 .. Len(line) /\ i \in Nat
  BY <1>7, <1>8
<1>10. Holds(store, line, 0, Len(line)) /\ Holds(batch, line, Len(line), Len(line))
  BY <1>1, <1>6 DEF RunInv
<1>11. /\ line' \in Branches /\ Len(line') = i
       /\ \A x \in 1 .. i : line'[x] = line[x]
  <2>1. line[i] \in Block
    BY <1>7, <1>8
  <2>2. Prev[block] # Checkpoint
    BY <1>8, <2>1, BlockStoreAssumption
  <2> QED
    BY <1>1, <1>7, <1>9, <2>2, BranchPrefix
<1>12. Holds(store', line, 0, i)
  BY <1>5, <1>7, <1>8, <1>9, <1>10, HoldsCut
<1>13. Holds(store', line', 0, i)
  <2>1. \A n \in 0 + 1 .. i : line'[n] = line[n]
    BY <1>11
  <2> QED
    BY <1>9, <1>12, <2>1, HoldsSame
<1>14. Holds(batch', line', i, i)
  <2>1. DOMAIN batch' = {}
    BY <1>1, <1>7, <1>10, HoldsNoKey
  <2> QED
    BY <1>9, <2>1, HoldsNothing
<1>15. RunInv'
  BY <1>9, <1>11, <1>13, <1>14 DEF RunInv
<1>16. LibInv'
  <2>1. DOMAIN line' = 1 .. i
    BY <1>11 DEF Branches
  <2>2. ASSUME NEW x \in DOMAIN line' PROVE lib'[x] = Commits[line'[x]]
    BY <1>1, <1>7, <1>9, <1>11, <2>1
  <2>3. Tip' = line'[i]
    <3>1. line' # <<>> /\ Last(line') = line'[i]
      BY <1>9, <1>11 DEF Last
    <3> QED
      BY <3>1 DEF Tip
  <2>4. Prev[block'] = Tip' /\ meta' = CheckpointHeight + Len(line')
    BY <1>1, <1>8, <1>9, <1>11, <2>3
  <2>5. Len(line') <= Len(lib')
    BY <1>1, <1>7, <1>9, <1>11
  <2> QED
    BY <1>1, <1>11, <2>2, <2>4, <2>5 DEF LibInv
<1> QED
  BY <1>1, <1>6, <1>15, <1>16

(* ReorgUnload keeps it: libcomb goes back to the same block.              *)
LEMMA ReorgUnloadHealth ==
  ASSUME Inv, ReorgUnload
  PROVE  HealthInv'
<1>1. /\ store' = store /\ batch' = batch /\ line' = line /\ main' = main
      /\ loader' = loader /\ block' = block /\ meta' = meta /\ damage' = damage
      /\ pc = "unload" /\ pc' = "store"
      /\ lib' = SubSeq(lib, 1, meta - CheckpointHeight)
  BY DEF ReorgUnload, load, faults
<1>2. main = "run"
  BY <1>1, Parts DEF ControlInv
<1>3. SUFFICES ASSUME damage = 0
               PROVE  loader' \in {"none", "receive"} /\ LibInv' /\ RunInv'
  BY <1>1, <1>2 DEF HealthInv
<1>4. loader \in {"none", "receive"} /\ LibInv /\ RunInv
  BY <1>2, <1>3, Parts DEF HealthInv
<1>5. RunInv'
  BY <1>1, <1>4 DEF RunInv
<1>6. /\ Len(line) \in Nat /\ Len(lib) \in Nat /\ CheckpointHeight \in Nat
      /\ DOMAIN line = 1 .. Len(line)
      /\ lib \in Seq({Commits[b] : b \in Block})
  BY Parts DEF Types
<1>7. /\ Len(line) <= Len(lib) /\ meta = CheckpointHeight + Len(line)
      /\ Prev[block] = Tip /\ line \in Branches
      /\ \A x \in DOMAIN line : lib[x] = Commits[line[x]]
  BY <1>1, <1>4 DEF LibInv
<1>8. lib' = SubSeq(lib, 1, Len(line))
  BY <1>1, <1>6, <1>7
<1>9. Len(lib') = Len(line) /\ \A x \in 1 .. Len(line) : lib'[x] = lib[x]
  BY <1>6, <1>7, <1>8
<1>10. Tip' = Tip
  BY <1>1 DEF Tip
<1>11. LibInv'
  BY <1>1, <1>6, <1>7, <1>9, <1>10 DEF LibInv
<1> QED
  BY <1>1, <1>4, <1>5, <1>11

(* ReorgStore keeps it.                                                    *)
LEMMA ReorgStoreHealth ==
  ASSUME Inv, ReorgStore
  PROVE  HealthInv'
<1>1. /\ store' = store /\ main' = main /\ loader' = loader /\ damage' = damage
      /\ pc = "store" /\ pc' = "ready" /\ StoreBlock(block)
  BY DEF ReorgStore, load, faults
<1>2. main = "run" /\ block \in Block
  BY <1>1, Parts DEF ControlInv
<1>3. SUFFICES ASSUME damage = 0
               PROVE  loader' \in {"none", "receive"} /\ LibInv' /\ RunInv'
  BY <1>1, <1>2 DEF HealthInv
<1>4. loader \in {"none", "receive"} /\ LibInv /\ RunInv
  BY <1>2, <1>3, Parts DEF HealthInv
<1>5. Prev[block] = Tip /\ Len(lib) = Len(line)
  BY <1>1, <1>4 DEF LibInv
<1> QED
  BY <1>1, <1>2, <1>4, <1>5, StoreBlockHealth

(* Start keeps it: main sends the branch.                                  *)
LEMMA StartHealth ==
  ASSUME Inv, Start
  PROVE  HealthInv'
<1>1. /\ store' = store /\ line' = line /\ lib' = lib /\ pc' = pc /\ block' = block
      /\ meta' = meta /\ damage' = damage /\ main = "down" /\ main' = "load"
      /\ loader' = "receive" /\ scan' = db_load_blocks(store)
  BY DEF Start, memory, call, faults
<1>2. SUFFICES ASSUME damage = 0
               PROVE  LibInv' /\ RestInv'
  BY <1>1 DEF HealthInv
<1>3. LibInv /\ RestInv
  BY <1>1, <1>2, Parts DEF HealthInv
<1>4. LibInv'
  BY <1>1, <1>3 DEF LibInv, Tip
<1>5. PICK l \in Branches :
        /\ Holds(store, l, 0, Len(l))
        /\ Len(line) <= Len(l)
        /\ \A i \in DOMAIN line : line[i] = l[i]
  BY <1>3 DEF RestInv
<1>6. Len(line) = 0 /\ DOMAIN store \subseteq Nat \X Nat
  BY <1>1, Parts DEF ControlInv
<1>7. /\ \A r \in scan' :
           \/ r.hash = Empty /\ r.height = 0 /\ ~Mismatch(r)
           \/ \E n \in 1 .. Len(l) : r = Sent(l, n)
      /\ \A n \in 1 .. Len(l) : Sent(l, n) \in scan'
  BY <1>1, <1>5, <1>6, HeldScan
<1>8. Len(line) + 1 = 1
  BY <1>6
<1>9. RestInv'
  BY <1>1, <1>5, <1>7, <1>8 DEF RestInv
<1> QED
  BY <1>4, <1>9

(* LoadBlock keeps it: the next block sent is the next of the branch, and  *)
(* fits.                                                                   *)
LEMMA LoadBlockHealth ==
  ASSUME Inv, LoadBlock
  PROVE  HealthInv'
<1> DEFINE new == First(scan)
           n == Len(line) + 1
<1>1. /\ store' = store /\ batch' = batch /\ main' = main /\ pc' = pc
      /\ block' = block /\ meta' = meta /\ damage' = damage
      /\ loader = "receive" /\ scan # {} /\ scan' = scan \ {new}
  BY DEF LoadBlock, call, faults
<1>2. /\ loader' = IF Mismatch(new) \/ (new.hash # Empty
                         /\ ~(new.previous = Tip /\ new.height = Height + 1))
                   THEN "drain" ELSE "receive"
      /\ ~Mismatch(new) /\ new.hash # Empty
            /\ new.previous = Tip /\ new.height = Height + 1
         => line' = Append(line, new.hash) /\ lib' = Append(lib, new.commits)
      /\ Mismatch(new) \/ new.hash = Empty => line' = line /\ lib' = lib
  BY DEF LoadBlock
<1>3. new \in scan /\ \A r \in scan : new.height <= r.height
  <2>1. \A r \in scan : r.height \in Nat
    BY Parts DEF ScanInv, Sendable
  <2> QED
    BY <1>1, <2>1, FirstIsLeast
<1> HIDE DEF new
<1>4. main = "load" /\ pc = "ready"
  BY <1>1, Parts DEF ControlInv
<1>5. SUFFICES ASSUME damage = 0
               PROVE  loader' = "receive" /\ LibInv' /\ RestInv'
  BY <1>1, <1>4 DEF HealthInv
<1>6. LibInv /\ RestInv
  BY <1>4, <1>5, Parts DEF HealthInv
<1>7. PICK l \in Branches :
        /\ Holds(store, l, 0, Len(l))
        /\ Len(line) <= Len(l)
        /\ \A i \in DOMAIN line : line[i] = l[i]
        /\ \A r \in scan :
             \/ r.hash = Empty /\ r.height = 0 /\ ~Mismatch(r)
             \/ \E x \in n .. Len(l) : r = Sent(l, x)
        /\ \A x \in n .. Len(l) : Sent(l, x) \in scan
  BY <1>4, <1>6 DEF RestInv
<1>8. /\ l \in Seq(Block) /\ Len(l) \in Nat /\ DOMAIN l = 1 .. Len(l) /\ Links(l)
      /\ Len(line) \in Nat /\ CheckpointHeight \in Nat /\ DOMAIN line = 1 .. Len(line)
      /\ Len(lib) = Len(line) /\ n \in Nat /\ n >= 1
      /\ line \in Seq(Block) /\ lib \in Seq({Commits[b] : b \in Block})
      /\ \A i \in DOMAIN line : lib[i] = Commits[line[i]]
  BY <1>4, <1>6, Parts DEF Branches, LibInv, Types
<1>9. ASSUME NEW x \in n .. Len(l)
      PROVE  Sent(l, x).hash # Empty /\ Sent(l, x).height = CheckpointHeight + x
  <2>1. Sent(l, x).hash = l[x] /\ Sent(l, x).height = CheckpointHeight + x
    BY DEF Sent
  <2>2. l[x] \in Block
    BY <1>8
  <2> QED
    BY <2>1, <2>2, BlockStoreAssumption
<1>10. CASE new.hash = Empty
  <2>1. ~Mismatch(new)
    BY <1>3, <1>7, <1>9, <1>10
  <2>2. loader' = "receive" /\ line' = line /\ lib' = lib
    BY <1>2, <1>10, <2>1
  <2>3. LibInv'
    BY <1>1, <1>6, <2>2 DEF LibInv, Tip
  <2>4. \A r \in scan' :
          \/ r.hash = Empty /\ r.height = 0 /\ ~Mismatch(r)
          \/ \E x \in n .. Len(l) : r = Sent(l, x)
    BY <1>1, <1>7
  <2>5. \A x \in n .. Len(l) : Sent(l, x) \in scan'
    BY <1>1, <1>7, <1>9, <1>10
  <2>6. RestInv'
    BY <1>1, <1>7, <2>2, <2>4, <2>5 DEF RestInv
  <2> QED
    BY <2>2, <2>3, <2>6
<1>11. CASE new.hash # Empty
  <2>1. PICK x \in n .. Len(l) : new = Sent(l, x)
    BY <1>3, <1>7, <1>11
  <2>2. x = n
    <3>1. n \in n .. Len(l) /\ x \in Nat
      BY <1>8, <2>1
    <3>2. Sent(l, n) \in scan
      BY <1>7, <3>1
    <3>3. CheckpointHeight + x <= CheckpointHeight + n
      BY <1>3, <1>9, <2>1, <3>1, <3>2
    <3> QED
      BY <1>8, <2>1, <3>1, <3>3
  <2>3. n \in 1 .. Len(l) /\ n \in n .. Len(l) /\ l[n] \in Block
    BY <1>8, <2>1, <2>2
  <2>4. /\ new.height = CheckpointHeight + n /\ new.hash = l[n]
        /\ new.previous = Prev[l[n]] /\ new.commits = Commits[l[n]]
        /\ new.fingerprint = db_compute_block_fingerprint(Commits[l[n]])
    BY <2>1, <2>2 DEF Sent
  <2>5. ~Mismatch(new)
    BY <2>4 DEF Mismatch
  <2>6. Prev[l[n]] = IF line = <<>> THEN Checkpoint ELSE line[Len(line)]
    <3>1. Prev[l[n]] = IF n = 1 THEN Checkpoint ELSE l[n - 1]
      BY <1>8, <2>3 DEF Links
    <3>2. CASE n = 1
      <4>1. line = <<>>
        BY <1>8, <3>2
      <4> QED
        BY <3>1, <3>2, <4>1
    <3>3. CASE n # 1
      <4>1. line # <<>> /\ n - 1 = Len(line) /\ Len(line) \in DOMAIN line
        BY <1>8, <3>3
      <4> QED
        BY <1>7, <3>1, <3>3, <4>1
    <3> QED
      BY <3>2, <3>3
  <2>7. new.previous = Tip /\ new.height = Height + 1
    <3>1. new.previous = Tip
      BY <2>4, <2>6 DEF Tip, Last
    <3>2. CheckpointHeight + n = Height + 1
      BY <1>8 DEF Height
    <3> QED
      BY <2>4, <3>1, <3>2
  <2>8. /\ loader' = "receive" /\ line' = Append(line, l[n])
        /\ lib' = Append(lib, Commits[l[n]])
    BY <1>2, <1>11, <2>4, <2>5, <2>7
  <2>9. line' \in Branches
    <3>1. line \in Branches
      BY <1>6 DEF LibInv
    <3> QED
      BY <2>3, <2>6, <2>8, <3>1, BranchAppend
  <2>10. /\ Len(line') = n /\ DOMAIN line' = 1 .. n
         /\ line'[n] = l[n]
         /\ \A i \in 1 .. Len(line) : line'[i] = line[i]
    BY <1>8, <2>3, <2>8
  <2>11. /\ Len(lib') = n
         /\ lib'[n] = Commits[l[n]]
         /\ \A i \in 1 .. Len(line) : lib'[i] = lib[i]
    <3>1. Commits[l[n]] \in {Commits[b] : b \in Block}
      BY <2>3
    <3> QED
      BY <1>8, <2>8, <3>1
  <2>12. \A i \in DOMAIN line' : i \in DOMAIN line \/ i = n
    BY <1>8, <2>10
  <2>13. LibInv'
    <3>1. ASSUME NEW i \in DOMAIN line' PROVE lib'[i] = Commits[line'[i]]
      BY <1>8, <2>10, <2>11, <2>12
    <3>2. Len(line') <= Len(lib') /\ Len(lib') = Len(line')
      BY <1>8, <2>10, <2>11
    <3> QED
      BY <1>1, <1>4, <2>9, <3>1, <3>2 DEF LibInv
  <2>14. \A i \in DOMAIN line' : line'[i] = l[i]
    BY <1>7, <1>8, <2>10, <2>12
  <2>15. ASSUME NEW r \in scan'
         PROVE  \/ r.hash = Empty /\ r.height = 0 /\ ~Mismatch(r)
                \/ \E y \in n + 1 .. Len(l) : r = Sent(l, y)
    <3>1. r \in scan /\ r # Sent(l, n)
      BY <1>1, <2>1, <2>2
    <3>2. \A y \in n .. Len(l) : y # n => y \in n + 1 .. Len(l)
      BY <1>8
    <3> QED
      BY <1>7, <3>1, <3>2
  <2>16. ASSUME NEW y \in n + 1 .. Len(l) PROVE Sent(l, y) \in scan'
    <3>1. y \in n .. Len(l) /\ y # n
      BY <1>8
    <3>2. CheckpointHeight + y # CheckpointHeight + n
      BY <1>8, <3>1
    <3>3. Sent(l, y) # new
      BY <1>9, <2>4, <3>1, <3>2
    <3> QED
      BY <1>1, <1>7, <3>1, <3>3
  <2>17. RestInv'
    <3>1. Len(line') <= Len(l) /\ Holds(store', l, 0, Len(l))
      BY <1>1, <1>7, <1>8, <2>3, <2>10
    <3>2. /\ \A r \in scan' :
               \/ r.hash = Empty /\ r.height = 0 /\ ~Mismatch(r)
               \/ \E y \in Len(line') + 1 .. Len(l) : r = Sent(l, y)
          /\ \A y \in Len(line') + 1 .. Len(l) : Sent(l, y) \in scan'
      BY <2>10, <2>15, <2>16
    <3> HIDE DEF n
    <3> QED
      BY <2>14, <3>1, <3>2 DEF RestInv
  <2> QED
    BY <2>8, <2>13, <2>17
<1> QED
  BY <1>10, <1>11

(* LoadEnd keeps it: the load has passed the whole branch.                 *)
LEMMA LoadEndHealth ==
  ASSUME Inv, LoadEnd
  PROVE  HealthInv'
<1>1. /\ store' = store /\ batch' = batch /\ line' = line /\ lib' = lib /\ pc' = pc
      /\ block' = block /\ meta' = meta /\ damage' = damage /\ main' = "run"
      /\ loader' = "none" /\ loader = "receive" /\ scan = {}
  BY DEF LoadEnd, memory, call, faults
<1>2. main = "load" /\ pc = "ready" /\ DOMAIN batch = {}
  BY <1>1, Parts DEF ControlInv
<1>3. SUFFICES ASSUME damage = 0
               PROVE  LibInv' /\ RunInv'
  BY <1>1 DEF HealthInv
<1>4. LibInv /\ RestInv
  BY <1>2, <1>3, Parts DEF HealthInv
<1>5. LibInv'
  BY <1>1, <1>4 DEF LibInv, Tip
<1>6. PICK l \in Branches :
        /\ Holds(store, l, 0, Len(l))
        /\ Len(line) <= Len(l)
        /\ \A i \in DOMAIN line : line[i] = l[i]
        /\ \A n \in Len(line) + 1 .. Len(l) : Sent(l, n) \in scan
  BY <1>2, <1>4 DEF RestInv
<1>7. Len(line) \in Nat /\ Len(l) \in Nat /\ DOMAIN line = 1 .. Len(line)
  BY Parts DEF Branches
<1>8. Len(line) = Len(l)
  <2>1. Len(line) + 1 .. Len(l) = {}
    BY <1>1, <1>6
  <2> QED
    BY <1>6, <1>7, <2>1
<1>9. Holds(store, line, 0, Len(line))
  <2>1. \A n \in 0 + 1 .. Len(line) : line[n] = l[n]
    BY <1>6, <1>7
  <2> QED
    BY <1>6, <1>7, <1>8, <2>1, HoldsSame
<1>10. Holds(batch, line, Len(line), Len(line))
  BY <1>2, <1>7, HoldsNothing
<1>11. Len(line) \in 0 .. Len(line)
  BY <1>7
<1>12. RunInv'
  BY <1>1, <1>9, <1>10, <1>11 DEF RunInv
<1> QED
  BY <1>5, <1>12

(* In an undamaged database there is a branch, whatever main does.         *)
LEMMA StoredBranch ==
  ASSUME Inv, damage = 0
  PROVE  \E l \in Branches : Holds(store, l, 0, Len(l))
<1>1. CASE main # "run"
  BY <1>1, Parts DEF HealthInv, RestInv
<1>2. CASE main = "run"
  <2>1. line \in Branches
    BY Parts DEF HealthInv, LibInv
  <2>2. PICK m \in 0 .. Len(line) : Holds(store, line, 0, m)
    BY <1>2, Parts DEF HealthInv, RunInv
  <2> DEFINE l == SubSeq(line, 1, m)
  <2>3. l \in Branches /\ Len(l) = m /\ \A i \in 1 .. m : l[i] = line[i]
    BY <2>1, BranchPrefix
  <2> HIDE DEF l
  <2>4. m \in Nat /\ 0 \in Nat /\ \A i \in 0 + 1 .. m : l[i] = line[i]
    BY <2>3, Parts
  <2>5. Holds(store, l, 0, m)
    BY <2>2, <2>4, HoldsSame
  <2> QED
    BY <2>3, <2>5
<1> QED
  BY <1>1, <1>2

(* The end of the process keeps it.                                        *)
LEMMA HaltHealth ==
  ASSUME Inv, Halt
  PROVE  HealthInv'
<1>1. /\ store' = store /\ line' = <<>> /\ lib' = <<>> /\ main' = "down"
      /\ loader' = "none" /\ scan' = {} /\ pc' = "ready" /\ damage' = damage
  BY DEF Halt
<1>2. SUFFICES ASSUME damage = 0
               PROVE  LibInv' /\ RestInv'
  BY <1>1 DEF HealthInv
<1>3. PICK l \in Branches : Holds(store, l, 0, Len(l))
  BY <1>2, StoredBranch
<1>4. Len(l) \in Nat
  BY DEF Branches
<1>5. Len(line') = 0 /\ DOMAIN line' = {} /\ Len(lib') = 0
  BY <1>1
<1>6. LibInv'
  BY <1>1, <1>5, BranchEmpty DEF LibInv
<1>7. RestInv'
  BY <1>1, <1>3, <1>4, <1>5 DEF RestInv
<1> QED
  BY <1>6, <1>7

(* An undamaged database is never in recovery.                             *)
LEMMA OnlyAfterDamage ==
  ASSUME Inv, loader \notin {"none", "receive"}
  PROVE  damage # 0
  BY Parts DEF HealthInv

-------------------------------------------------------------------------------
(* Then the whole invariant, damage or not.                                *)

(* A block stored on the tip, in any state of the database.                *)
LEMMA StoreBlockKeeps ==
  ASSUME Inv, NEW b \in Block, StoreBlock(b)
  PROVE  /\ MetadataInv(batch')
         /\ line' \in Seq(Block \cup {Garbage})
         /\ lib' \in Seq({Commits[x] : x \in Block})
<1>1. /\ batch' = db_process_block(store, batch, b, Height + 1)
      /\ line' = Append(line, b) /\ lib' = Append(lib, Commits[b])
  BY DEF StoreBlock
<1>2. Height + 1 \in Nat /\ MetadataInv(store) /\ MetadataInv(batch)
  BY Parts DEF DiskInv
<1>3. /\ line \in Seq(Block \cup {Garbage})
      /\ lib \in Seq({Commits[x] : x \in Block})
      /\ Commits[b] \in {Commits[x] : x \in Block}
  BY Parts DEF Types
<1>4. MetadataInv(batch')
  BY <1>1, <1>2, ProcessInv
<1> QED
  BY <1>1, <1>3, <1>4

(* Process.                                                                *)
LEMMA ProcessStep ==
  ASSUME Inv, Process
  PROVE  Inv'
<1>1. /\ store' = store /\ main' = main /\ loader' = loader /\ scan' = scan
      /\ corruption' = corruption /\ doomed' = doomed /\ pc' = pc
      /\ block' = block /\ meta' = meta /\ damage' = damage
      /\ main = "run" /\ pc = "ready"
  BY DEF Process, load, call, faults
<1>2. PICK b \in Block : StoreBlock(b)
  BY DEF Process
<1>3. /\ MetadataInv(batch') /\ line' \in Seq(Block \cup {Garbage})
      /\ lib' \in Seq({Commits[x] : x \in Block})
  BY <1>2, StoreBlockKeeps
<1>4. Types'
  BY <1>1, <1>3, Parts DEF Types
<1>5. DiskInv'
  BY <1>1, <1>3, Parts DEF DiskInv
<1>6. ScanInv'
  BY <1>1, Parts DEF ScanInv
<1>7. ControlInv'
  BY <1>1, Parts DEF ControlInv
<1>8. LoadInv'
  BY <1>1 DEF LoadInv
<1> QED
  BY <1>4, <1>5, <1>6, <1>7, <1>8, ProcessHealth, Assemble, PTL

(* neominer_write, in any state of the database.                           *)
LEMMA WriteKeeps ==
  ASSUME Inv, neominer_write
  PROVE  DiskInv'
<1>1. store' = Write(batch, store) /\ batch' = NoKeys
  BY DEF neominer_write
<1>2. /\ MetadataInv(store) /\ MetadataInv(batch)
      /\ \A k \in DOMAIN store : IsMeta(k) => store[k] # Deleted
  BY Parts DEF DiskInv
<1>3. /\ MetadataInv(Write(batch, store))
      /\ \A k \in DOMAIN Write(batch, store) :
           IsMeta(k) => Write(batch, store)[k] # Deleted
  BY <1>2, WriteInv
<1> QED
  BY <1>1, <1>3, NoKeysInv DEF DiskInv

(* Flush.                                                                  *)
LEMMA FlushStep ==
  ASSUME Inv, Flush
  PROVE  Inv'
<1>1. /\ line' = line /\ lib' = lib /\ main' = main /\ loader' = loader
      /\ scan' = scan /\ corruption' = corruption /\ doomed' = doomed /\ pc' = pc
      /\ block' = block /\ meta' = meta /\ damage' = damage
      /\ main = "run" /\ pc = "ready" /\ neominer_write
  BY DEF Flush, load, call, faults
<1>2. Types'
  BY <1>1, Parts DEF Types
<1>3. DiskInv'
  BY <1>1, WriteKeeps
<1>4. ScanInv'
  BY <1>1, Parts DEF ScanInv
<1>5. ControlInv'
  BY <1>1, Parts DEF ControlInv
<1>6. LoadInv'
  BY <1>1 DEF LoadInv
<1> QED
  BY <1>2, <1>3, <1>4, <1>5, <1>6, FlushHealth, Assemble, PTL

(* ReorgFlush.                                                             *)
LEMMA ReorgFlushStep ==
  ASSUME Inv, ReorgFlush
  PROVE  Inv'
<1>1. /\ line' = line /\ lib' = lib /\ main' = main /\ loader' = loader
      /\ scan' = scan /\ corruption' = corruption /\ doomed' = doomed
      /\ main = "run" /\ pc' = "trace" /\ neominer_write
      /\ meta' = db_get_block_by_hash(store', Prev[block'])
      /\ block' \in Block /\ Target(Prev[block'])
  BY DEF ReorgFlush, load
<1>2. /\ Prev[block'] \in Range(line) \cup {Checkpoint}
      /\ damage' = damage \/ damage' = damage + 1
  BY <1>1 DEF Target
<1>3. DiskInv'
  BY <1>1, WriteKeeps
<1>4. meta' \in Nat
  <2>1. MetadataInv(store')
    BY <1>3 DEF DiskInv
  <2> QED
    BY <1>1, <2>1, ByHashType
<1>5. Types'
  BY <1>1, <1>2, <1>4, Parts DEF Types
<1>6. ScanInv'
  BY <1>1, Parts DEF ScanInv
<1>7. ControlInv'
  BY <1>1, <1>2, Parts DEF ControlInv
<1>8. LoadInv'
  BY <1>1 DEF LoadInv
<1> QED
  BY <1>3, <1>5, <1>6, <1>7, <1>8, ReorgFlushHealth, Assemble, PTL

(* Deleting some keys of the database.                                     *)
LEMMA OnlyKeeps ==
  ASSUME Inv, NEW K \in SUBSET DOMAIN store, store' = Only(store, K),
         batch' = batch
  PROVE  DiskInv'
<1>1. /\ MetadataInv(store) /\ MetadataInv(batch)
      /\ \A k \in DOMAIN store : IsMeta(k) => store[k] # Deleted
  BY Parts DEF DiskInv
<1>2. MetadataInv(Only(store, K)) /\ DOMAIN Only(store, K) = K
  BY <1>1, OnlyInv
<1>3. \A k \in K : Only(store, K)[k] = store[k]
  BY DEF Only
<1> QED
  BY <1>1, <1>2, <1>3 DEF DiskInv

(* ReorgRemove.                                                            *)
LEMMA ReorgRemoveStep ==
  ASSUME Inv, ReorgRemove
  PROVE  Inv'
<1> DEFINE i == CHOOSE j \in DOMAIN line : line[j] = Prev[block]
           K == DOMAIN store \ KeysAfter(store, meta + 1)
<1>1. /\ batch' = batch /\ lib' = lib /\ main' = main /\ loader' = loader
      /\ scan' = scan /\ corruption' = corruption /\ doomed' = doomed
      /\ block' = block /\ meta' = meta /\ pc = "trace" /\ pc' = "unload"
      /\ line' = IF Prev[block] = Checkpoint THEN <<>> ELSE SubSeq(line, 1, i)
  BY DEF ReorgRemove, load
<1>2. \/ store' = Only(store, K) /\ damage' = damage
      \/ store' = store /\ damage' = damage + 1
  BY DEF ReorgRemove
<1>3. /\ main = "run" /\ block \in Block
      /\ Prev[block] \in Range(line) \cup {Checkpoint}
  BY <1>1, Parts DEF ControlInv
<1>4. Prev[block] # Checkpoint => i \in DOMAIN line
  BY <1>3 DEF Range
<1> HIDE DEF i
<1>5. line' \in Seq(Block \cup {Garbage})
  <2>1. line \in Seq(Block \cup {Garbage})
    BY Parts DEF Types
  <2>2. CASE Prev[block] = Checkpoint
    BY <1>1, <2>2
  <2>3. CASE Prev[block] # Checkpoint
    BY <1>1, <1>4, <2>1, <2>3
  <2> QED
    BY <2>2, <2>3
<1>6. damage' \in Nat
  BY <1>2, Parts DEF Types
<1>7. Types'
  BY <1>1, <1>5, <1>6, Parts DEF Types
<1>8. DiskInv'
  <2>1. CASE store' = Only(store, K)
    <3>1. K \in SUBSET DOMAIN store
      OBVIOUS
    <3> HIDE DEF K
    <3> QED
      BY <1>1, <2>1, <3>1, OnlyKeeps
  <2>2. CASE store' = store
    BY <1>1, <2>2, Parts DEF DiskInv
  <2> QED
    BY <1>2, <2>1, <2>2
<1>9. ScanInv'
  BY <1>1, Parts DEF ScanInv
<1>10. ControlInv'
  BY <1>1, <1>3, Parts DEF ControlInv
<1>11. LoadInv'
  BY <1>1, <1>3 DEF LoadInv
<1> QED
  BY <1>7, <1>8, <1>9, <1>10, <1>11, ReorgRemoveHealth, Assemble, PTL

(* ReorgUnload.                                                            *)
LEMMA ReorgUnloadStep ==
  ASSUME Inv, ReorgUnload
  PROVE  Inv'
<1>1. /\ store' = store /\ batch' = batch /\ line' = line /\ main' = main
      /\ loader' = loader /\ scan' = scan /\ corruption' = corruption
      /\ doomed' = doomed /\ block' = block /\ meta' = meta /\ damage' = damage
      /\ pc = "unload" /\ pc' = "store"
      /\ lib' = SubSeq(lib, 1, meta - CheckpointHeight)
      /\ meta \in CheckpointHeight .. Height
  BY DEF ReorgUnload, load, faults
<1>2. main = "run" /\ block \in Block
  BY <1>1, Parts DEF ControlInv
<1>3. lib' \in Seq({Commits[x] : x \in Block})
  <2>1. /\ lib \in Seq({Commits[x] : x \in Block})
        /\ CheckpointHeight \in Nat /\ Len(lib) \in Nat
    BY Parts DEF Types
  <2>2. meta - CheckpointHeight \in 0 .. Len(lib)
    BY <1>1, <2>1 DEF Height
  <2> QED
    BY <1>1, <2>1, <2>2
<1>4. Types'
  BY <1>1, <1>3, Parts DEF Types
<1>5. DiskInv'
  BY <1>1, Parts DEF DiskInv
<1>6. ScanInv'
  BY <1>1, Parts DEF ScanInv
<1>7. ControlInv'
  BY <1>1, <1>2, Parts DEF ControlInv
<1>8. LoadInv'
  BY <1>1, <1>2 DEF LoadInv
<1> QED
  BY <1>4, <1>5, <1>6, <1>7, <1>8, ReorgUnloadHealth, Assemble, PTL

(* ReorgStore.                                                             *)
LEMMA ReorgStoreStep ==
  ASSUME Inv, ReorgStore
  PROVE  Inv'
<1>1. /\ store' = store /\ main' = main /\ loader' = loader /\ scan' = scan
      /\ corruption' = corruption /\ doomed' = doomed /\ damage' = damage
      /\ block' = block /\ meta' = meta
      /\ pc = "store" /\ pc' = "ready" /\ StoreBlock(block)
  BY DEF ReorgStore, load, faults
<1>2. main = "run" /\ block \in Block
  BY <1>1, Parts DEF ControlInv
<1>3. /\ MetadataInv(batch') /\ line' \in Seq(Block \cup {Garbage})
      /\ lib' \in Seq({Commits[x] : x \in Block})
  BY <1>1, <1>2, StoreBlockKeeps
<1>4. Types'
  BY <1>1, <1>3, Parts DEF Types
<1>5. DiskInv'
  BY <1>1, <1>3, Parts DEF DiskInv
<1>6. ScanInv'
  BY <1>1, Parts DEF ScanInv
<1>7. ControlInv'
  BY <1>1, <1>2, Parts DEF ControlInv
<1>8. LoadInv'
  BY <1>1, <1>2 DEF LoadInv
<1> QED
  BY <1>4, <1>5, <1>6, <1>7, <1>8, ReorgStoreHealth, Assemble, PTL

(* Start.                                                                  *)
LEMMA StartStep ==
  ASSUME Inv, Start
  PROVE  Inv'
<1>1. /\ store' = store /\ batch' = batch /\ line' = line /\ lib' = lib
      /\ pc' = pc /\ block' = block /\ meta' = meta /\ damage' = damage
      /\ corruption' = corruption /\ doomed' = doomed
      /\ main = "down" /\ main' = "load" /\ loader' = "receive"
      /\ scan' = db_load_blocks(store)
  BY DEF Start, memory, call, faults
<1>2. Types'
  BY <1>1, Parts DEF Types
<1>3. DiskInv'
  BY <1>1, Parts DEF DiskInv
<1>4. ScanInv'
  <2>1. /\ MetadataInv(store)
        /\ \A k \in DOMAIN store : IsMeta(k) => store[k] # Deleted
    BY Parts DEF DiskInv
  <2>2. \A r \in db_load_blocks(store) : Sendable(r)
    BY <2>1, ScanSends
  <2> QED
    BY <1>1, <2>2 DEF ScanInv
<1>5. ControlInv'
  BY <1>1, Parts DEF ControlInv
<1>6. LoadInv'
  <2>1. line' = <<>> /\ lib' = <<>>
    BY <1>1, Parts DEF ControlInv
  <2> QED
    BY <2>1 DEF LoadInv
<1> QED
  BY <1>2, <1>3, <1>4, <1>5, <1>6, StartHealth, Assemble, PTL

(* A fingerprint that matches is that of the block's own commits.          *)
LEMMA MatchingCommits ==
  ASSUME NEW b, NEW r, ~Mismatch(r),
         r.fingerprint \in {db_compute_block_fingerprint(Commits[b]), Altered}
  PROVE  r.commits = Commits[b]
<1>1. r.fingerprint = [sha256 |-> r.commits]
  BY DEF Mismatch, db_compute_block_fingerprint
<1>2. "sha256" \in DOMAIN r.fingerprint /\ "sha256" \notin DOMAIN Altered
  BY <1>1 DEF Altered
<1>3. r.fingerprint = [sha256 |-> Commits[b]]
  BY <1>2 DEF db_compute_block_fingerprint
<1>4. [sha256 |-> r.commits].sha256 = [sha256 |-> Commits[b]].sha256
  BY <1>1, <1>3
<1> QED
  BY <1>4

(* LoadBlock.  libcomb is given a block only if it names the last one      *)
(* accepted before it, whose hash is then not garbage.                     *)
LEMMA LoadBlockStep ==
  ASSUME Inv, LoadBlock
  PROVE  Inv'
<1> DEFINE new == First(scan)
           taken == ~Mismatch(new) /\ new.hash # Empty /\ new.previous = Tip
<1>1. /\ store' = store /\ batch' = batch /\ main' = main /\ doomed' = doomed
      /\ pc' = pc /\ block' = block /\ meta' = meta /\ damage' = damage
      /\ loader = "receive" /\ scan # {} /\ scan' = scan \ {new}
      /\ loader' \in {"drain", "receive"}
      /\ corruption' = IF Mismatch(new) THEN new.height ELSE corruption
      /\ loader' = "receive" => ~Mismatch(new)
  BY DEF LoadBlock, call, faults
<1>2. /\ ~taken => line' = line /\ lib' = lib
      /\ taken => lib' = Append(lib, new.commits)
      /\ taken => \/ line' = Append(line, new.hash)
                  \/ line' = line /\ loader' = "drain"
  BY DEF LoadBlock
<1>3. new \in scan /\ Sendable(new)
  <2>1. \A r \in scan : r.height \in Nat
    BY Parts DEF ScanInv, Sendable
  <2>2. new \in scan
    BY <1>1, <2>1, FirstIsLeast
  <2> QED
    BY <2>2, Parts DEF ScanInv
<1> HIDE DEF new
<1>4. main = "load" /\ corruption = 0
  BY <1>1, Parts DEF ControlInv
<1>5. /\ line \in Seq(Block \cup {Garbage})
      /\ lib \in Seq({Commits[x] : x \in Block})
      /\ Len(lib) = Len(line) /\ Len(line) \in Nat
      /\ DOMAIN lib = 1 .. Len(line) /\ DOMAIN line = 1 .. Len(line)
      /\ \A i \in DOMAIN lib :
           \E b \in Block :
             /\ Prev[b] = IF i = 1 THEN Checkpoint ELSE line[i - 1]
             /\ lib[i] = Commits[b]
             /\ line[i] \in {b, Garbage}
             /\ i < Len(lib) => line[i] = b
  <2>1. line \in Seq(Block \cup {Garbage}) /\ lib \in Seq({Commits[x] : x \in Block})
    BY Parts DEF Types
  <2>2. Len(lib) = Len(line)
    BY <1>1, <1>4, Parts DEF LoadInv
  <2>3. /\ Len(line) \in Nat /\ DOMAIN lib = 1 .. Len(line) /\ DOMAIN line = 1 .. Len(line)
    BY <2>2, Parts
  <2> QED
    BY <1>4, <2>1, <2>2, <2>3, Parts DEF LoadInv
<1>6. /\ line' \in Seq(Block \cup {Garbage})
      /\ lib' \in Seq({Commits[x] : x \in Block})
      /\ LoadInv'
  <2>1. CASE line' = line /\ lib' = lib
    BY <1>5, <2>1 DEF LoadInv
  <2>2. CASE taken
    <3>1. /\ lib' = Append(lib, new.commits)
          /\ \/ line' = Append(line, new.hash)
             \/ line' = line /\ loader' = "drain"
      BY <1>2, <2>2
    <3>2. PICK b \in Block : /\ new.hash \in {b, Garbage}
                             /\ new.previous = Prev[b]
                             /\ new.fingerprint \in
                                  {db_compute_block_fingerprint(Commits[b]), Altered}
      <4>1. Tip \in Block \cup {Checkpoint, Garbage}
        BY <1>5 DEF Tip, Last
      <4>2. new.previous # Altered
        BY <2>2, <4>1, AlteredAssumption
      <4> QED
        BY <1>3, <2>2, <4>2 DEF Sendable
    <3>3. new.commits = Commits[b]
      BY <2>2, <3>2, MatchingCommits
    <3>4. /\ line' \in Seq(Block \cup {Garbage})
          /\ \/ Len(line') = Len(line) + 1
             \/ Len(line') = Len(line) /\ loader' = "drain"
          /\ DOMAIN line' = 1 .. Len(line')
          /\ Len(line) + 1 \in DOMAIN line' => line'[Len(line) + 1] = new.hash
          /\ \A i \in 1 .. Len(line) : line'[i] = line[i]
      <4>1. CASE line' = Append(line, new.hash)
        BY <1>5, <3>2, <4>1
      <4>2. CASE line' = line /\ loader' = "drain"
        <5>1. Len(line) + 1 \notin 1 .. Len(line)
          BY <1>5
        <5> QED
          BY <1>5, <4>2, <5>1
      <4> QED
        BY <3>1, <4>1, <4>2
    <3>5. /\ lib' \in Seq({Commits[x] : x \in Block})
          /\ Len(lib') = Len(line) + 1 /\ DOMAIN lib' = 1 .. Len(line) + 1
          /\ lib'[Len(line) + 1] = Commits[b]
          /\ \A i \in 1 .. Len(line) : lib'[i] = lib[i]
      <4>1. new.commits \in {Commits[x] : x \in Block}
        BY <3>3
      <4> QED
        BY <1>5, <3>1, <3>3, <4>1
    <3>6. Prev[b] = IF line = <<>> THEN Checkpoint ELSE line[Len(line)]
      BY <2>2, <3>2 DEF Tip, Last
    <3>7. line # <<>> => line[Len(line)] # Garbage
      <4>1. Prev[b] \in Block \cup {Checkpoint} /\ Garbage \notin Block \cup {Checkpoint}
        BY BlockStoreAssumption
      <4> QED
        BY <3>6, <4>1
    <3>8. ASSUME NEW i \in DOMAIN lib'
          PROVE  \E x \in Block :
                   /\ Prev[x] = IF i = 1 THEN Checkpoint ELSE line'[i - 1]
                   /\ lib'[i] = Commits[x]
                   /\ i \in DOMAIN line' => line'[i] \in {x, Garbage}
                   /\ i < Len(lib') => line'[i] = x
      <4>1. CASE i = Len(line) + 1
        <5>1. Prev[b] = IF i = 1 THEN Checkpoint ELSE line'[i - 1]
          <6>1. CASE line = <<>>
            <7>1. i = 1
              BY <1>5, <4>1, <6>1
            <7> QED
              BY <3>6, <6>1, <7>1
          <6>2. CASE line # <<>>
            <7>1. i # 1 /\ i - 1 = Len(line) /\ Len(line) \in 1 .. Len(line)
              BY <1>5, <4>1, <6>2
            <7> QED
              BY <3>4, <3>6, <6>2, <7>1
          <6> QED
            BY <6>1, <6>2
        <5>2. lib'[i] = Commits[b] /\ ~(i < Len(lib'))
          BY <1>5, <3>5, <4>1
        <5>3. i \in DOMAIN line' => line'[i] \in {b, Garbage}
          BY <3>2, <3>4, <4>1
        <5> QED
          BY <5>1, <5>2, <5>3
      <4>2. CASE i \in 1 .. Len(line)
        <5>1. PICK x \in Block :
                /\ Prev[x] = IF i = 1 THEN Checkpoint ELSE line[i - 1]
                /\ lib[i] = Commits[x]
                /\ line[i] \in {x, Garbage}
                /\ i < Len(lib) => line[i] = x
          BY <1>5, <4>2
        <5>2. i # 1 => i - 1 \in 1 .. Len(line)
          BY <1>5, <4>2
        <5>3. Prev[x] = IF i = 1 THEN Checkpoint ELSE line'[i - 1]
          BY <3>4, <5>1, <5>2
        <5>4. lib'[i] = Commits[x]
          BY <3>5, <4>2, <5>1
        <5>5. line[i] = x
          <6>1. CASE i < Len(line)
            BY <1>5, <5>1, <6>1
          <6>2. CASE i = Len(line)
            <7>1. line # <<>>
              BY <1>5, <4>2, <6>2
            <7> QED
              BY <3>7, <5>1, <6>2, <7>1
          <6> QED
            BY <1>5, <4>2, <6>1, <6>2
        <5>6. line'[i] = x
          BY <3>4, <4>2, <5>5
        <5> QED
          BY <5>3, <5>4, <5>6
      <4> QED
        BY <1>5, <3>5, <4>1, <4>2
    <3>9. \/ Len(lib') = Len(line')
          \/ Len(lib') = Len(line') + 1 /\ loader' = "drain" /\ corruption' = 0
      BY <1>1, <1>4, <2>2, <3>4, <3>5
    <3> QED
      BY <3>4, <3>5, <3>8, <3>9 DEF LoadInv
  <2> QED
    BY <1>2, <2>1, <2>2
<1>7. corruption' \in Nat
  BY <1>1, <1>3, Parts DEF Types, Sendable
<1>8. Types'
  BY <1>1, <1>6, <1>7, Parts DEF Types
<1>9. DiskInv'
  BY <1>1, Parts DEF DiskInv
<1>10. ScanInv'
  BY <1>1, Parts DEF ScanInv
<1>11. ControlInv'
  BY <1>1, <1>4, Parts DEF ControlInv
<1> QED
  BY <1>6, <1>8, <1>9, <1>10, <1>11, LoadBlockHealth, Assemble, PTL

(* LoadEnd.                                                                *)
LEMMA LoadEndStep ==
  ASSUME Inv, LoadEnd
  PROVE  Inv'
<1>1. /\ store' = store /\ batch' = batch /\ line' = line /\ lib' = lib
      /\ scan' = scan /\ corruption' = corruption /\ doomed' = doomed
      /\ pc' = pc /\ block' = block /\ meta' = meta /\ damage' = damage
      /\ main' = "run" /\ loader' = "none" /\ loader = "receive"
  BY DEF LoadEnd, memory, call, faults
<1>2. Types'
  BY <1>1, Parts DEF Types
<1>3. DiskInv'
  BY <1>1, Parts DEF DiskInv
<1>4. ScanInv'
  BY <1>1, Parts DEF ScanInv
<1>5. ControlInv'
  BY <1>1, Parts DEF ControlInv
<1>6. LoadInv'
  BY <1>1 DEF LoadInv
<1> QED
  BY <1>2, <1>3, <1>4, <1>5, <1>6, LoadEndHealth, Assemble, PTL

(* LoadDrain.                                                              *)
LEMMA LoadDrainStep ==
  ASSUME Inv, LoadDrain
  PROVE  Inv'
<1>1. /\ store' = store /\ batch' = batch /\ line' = line /\ lib' = lib
      /\ main' = main /\ loader' = loader /\ corruption' = corruption
      /\ doomed' = doomed /\ pc' = pc /\ block' = block /\ meta' = meta
      /\ damage' = damage /\ loader = "drain" /\ scan' \subseteq scan
  BY DEF LoadDrain, memory, call, faults
<1>2. Types'
  BY <1>1, Parts DEF Types
<1>3. DiskInv'
  BY <1>1, Parts DEF DiskInv
<1>4. ScanInv'
  BY <1>1, Parts DEF ScanInv
<1>5. ControlInv'
  BY <1>1, Parts DEF ControlInv
<1>6. LoadInv'
  BY <1>1, Parts DEF LoadInv
<1>7. HealthInv'
  BY <1>1, OnlyAfterDamage DEF HealthInv
<1> QED
  BY <1>2, <1>3, <1>4, <1>5, <1>6, <1>7, Assemble, PTL

(* LoadUnlock.                                                             *)
LEMMA LoadUnlockStep ==
  ASSUME Inv, LoadUnlock
  PROVE  Inv'
<1>1. /\ store' = store /\ batch' = batch /\ line' = line /\ lib' = lib
      /\ scan' = scan /\ corruption' = corruption /\ doomed' = doomed
      /\ pc' = pc /\ block' = block /\ meta' = meta /\ damage' = damage
      /\ main' = "run" /\ loader' \in {"panic", "list"} /\ loader = "drain"
  BY DEF LoadUnlock, memory, call, faults
<1>2. Types'
  BY <1>1, Parts DEF Types
<1>3. DiskInv'
  BY <1>1, Parts DEF DiskInv
<1>4. ScanInv'
  BY <1>1, Parts DEF ScanInv
<1>5. ControlInv'
  BY <1>1, Parts DEF ControlInv
<1>6. LoadInv'
  BY <1>1 DEF LoadInv
<1>7. HealthInv'
  BY <1>1, OnlyAfterDamage DEF HealthInv
<1> QED
  BY <1>2, <1>3, <1>4, <1>5, <1>6, <1>7, Assemble, PTL

(* RecoverList.                                                            *)
LEMMA RecoverListStep ==
  ASSUME Inv, RecoverList
  PROVE  Inv'
<1>1. /\ store' = store /\ batch' = batch /\ line' = line /\ lib' = lib
      /\ main' = main /\ scan' = scan /\ corruption' = corruption
      /\ pc' = pc /\ block' = block /\ meta' = meta /\ damage' = damage
      /\ doomed' = KeysAfter(store, corruption)
      /\ loader' = "delete" /\ loader = "list"
  BY DEF RecoverList, memory, call, faults
<1>2. doomed' \subseteq Nat \X Nat
  BY <1>1, Parts DEF KeysAfter
<1>3. Types'
  BY <1>1, <1>2, Parts DEF Types
<1>4. DiskInv'
  BY <1>1, Parts DEF DiskInv
<1>5. ScanInv'
  BY <1>1, Parts DEF ScanInv
<1>6. ControlInv'
  BY <1>1, Parts DEF ControlInv
<1>7. LoadInv'
  BY <1>1, Parts DEF LoadInv
<1>8. HealthInv'
  BY <1>1, OnlyAfterDamage DEF HealthInv
<1> QED
  BY <1>3, <1>4, <1>5, <1>6, <1>7, <1>8, Assemble, PTL

(* RecoverDelete.                                                          *)
LEMMA RecoverDeleteStep ==
  ASSUME Inv, RecoverDelete
  PROVE  Inv'
<1> DEFINE K == DOMAIN store \ doomed
<1>1. /\ batch' = batch /\ line' = line /\ lib' = lib
      /\ main' = main /\ scan' = scan /\ corruption' = corruption
      /\ doomed' = doomed /\ pc' = pc /\ block' = block /\ meta' = meta
      /\ damage' = damage /\ store' = Only(store, K)
      /\ loader' = "none" /\ loader = "delete"
  BY DEF RecoverDelete, memory, call, faults
<1>2. K \in SUBSET DOMAIN store
  OBVIOUS
<1> HIDE DEF K
<1>3. Types'
  BY <1>1, Parts DEF Types
<1>4. DiskInv'
  BY <1>1, <1>2, OnlyKeeps
<1>5. ScanInv'
  BY <1>1, Parts DEF ScanInv
<1>6. ControlInv'
  BY <1>1, Parts DEF ControlInv
<1>7. LoadInv'
  BY <1>1, Parts DEF LoadInv
<1>8. HealthInv'
  BY <1>1, OnlyAfterDamage DEF HealthInv
<1> QED
  BY <1>3, <1>4, <1>5, <1>6, <1>7, <1>8, Assemble, PTL

(* The end of the process: Die and Crash.                                  *)
LEMMA HaltStep ==
  ASSUME Inv, Halt
  PROVE  Inv'
<1>1. /\ store' = store /\ batch' = NoKeys /\ line' = <<>> /\ lib' = <<>>
      /\ main' = "down" /\ loader' = "none" /\ scan' = {} /\ corruption' = 0
      /\ doomed' = {} /\ pc' = "ready" /\ block' = Empty /\ meta' = 0
      /\ damage' = damage
  BY DEF Halt
<1>2. Types'
  <2>1. <<>> \in Seq(Block \cup {Garbage}) /\ <<>> \in Seq({Commits[b] : b \in Block})
    OBVIOUS
  <2>2. damage \in Nat
    BY Parts DEF Types
  <2> QED
    BY <1>1, <2>1, <2>2 DEF Types
<1>3. DiskInv'
  BY <1>1, NoKeysInv, Parts DEF DiskInv
<1>4. ScanInv'
  BY <1>1 DEF ScanInv
<1>5. ControlInv'
  BY <1>1, NoKeysInv DEF ControlInv
<1>6. LoadInv'
  BY <1>1 DEF LoadInv
<1> QED
  BY <1>2, <1>3, <1>4, <1>5, <1>6, HaltHealth, Assemble, PTL

(* Damage.                                                                 *)
LEMMA DamageStep ==
  ASSUME Inv, Damage
  PROVE  Inv'
<1>1. /\ batch' = batch /\ line' = line /\ lib' = lib /\ main' = main
      /\ loader' = loader /\ scan' = scan /\ corruption' = corruption
      /\ doomed' = doomed /\ pc' = pc /\ block' = block /\ meta' = meta
      /\ damage' = damage + 1
  BY DEF Damage, memory, load, call
<1>2. PICK k \in DOMAIN store :
        \/ store' = Only(store, DOMAIN store \ {k})
        \/ ~IsMeta(k) /\ store' = [store EXCEPT ![k] = Garbage]
        \/ IsMeta(k) /\ store' = [store EXCEPT ![k].hash = Garbage]
        \/ IsMeta(k) /\ store' = [store EXCEPT ![k].previous = Altered]
        \/ IsMeta(k) /\ store' = [store EXCEPT ![k].fingerprint = Altered]
  BY DEF Damage
<1>3. damage \in Nat
  BY Parts DEF Types
<1>4. Types'
  BY <1>1, <1>3, Parts DEF Types
<1>5. /\ MetadataInv(store) /\ MetadataInv(batch)
      /\ \A x \in DOMAIN store : IsMeta(x) => store[x] # Deleted
  BY Parts DEF DiskInv
<1>6. DiskInv'
  <2>1. CASE store' = Only(store, DOMAIN store \ {k})
    BY <1>1, <2>1, OnlyKeeps
  <2>2. ASSUME NEW v, store' = [store EXCEPT ![k] = v],
               IsMeta(k) => v # Deleted /\ \E b \in Block : v \in MetadataOf(b)
        PROVE  DiskInv'
    <3>1. /\ MetadataInv([store EXCEPT ![k] = v])
          /\ \A x \in DOMAIN [store EXCEPT ![k] = v] :
               IsMeta(x) => [store EXCEPT ![k] = v][x] # Deleted
      BY <1>5, <2>2, ReplaceInv
    <3> QED
      BY <1>1, <1>5, <2>2, <3>1 DEF DiskInv
  <2>3. CASE ~IsMeta(k) /\ store' = [store EXCEPT ![k] = Garbage]
    BY <2>2, <2>3
  <2>4. ASSUME IsMeta(k)
        PROVE  \E b \in Block :
                 /\ [store[k] EXCEPT !.hash = Garbage] \in MetadataOf(b)
                 /\ [store[k] EXCEPT !.previous = Altered] \in MetadataOf(b)
                 /\ [store[k] EXCEPT !.fingerprint = Altered] \in MetadataOf(b)
    <3>1. PICK b \in Block : store[k] \in MetadataOf(b)
      BY <1>5, <2>4 DEF MetadataInv
    <3> QED
      BY <3>1, AlteredFits
  <2>5. \A b \in Block : Deleted \notin MetadataOf(b)
    BY AlteredFits
  <2>6. CASE IsMeta(k) /\ store' = [store EXCEPT ![k].hash = Garbage]
    <3>1. store' = [store EXCEPT ![k] = [store[k] EXCEPT !.hash = Garbage]]
      BY <2>6
    <3> QED
      BY <2>2, <2>4, <2>5, <2>6, <3>1
  <2>7. CASE IsMeta(k) /\ store' = [store EXCEPT ![k].previous = Altered]
    <3>1. store' = [store EXCEPT ![k] = [store[k] EXCEPT !.previous = Altered]]
      BY <2>7
    <3> QED
      BY <2>2, <2>4, <2>5, <2>7, <3>1
  <2>8. CASE IsMeta(k) /\ store' = [store EXCEPT ![k].fingerprint = Altered]
    <3>1. store' = [store EXCEPT ![k] = [store[k] EXCEPT !.fingerprint = Altered]]
      BY <2>8
    <3> QED
      BY <2>2, <2>4, <2>5, <2>8, <3>1
  <2> QED
    BY <1>2, <2>1, <2>3, <2>6, <2>7, <2>8
<1>7. ScanInv'
  BY <1>1, Parts DEF ScanInv
<1>8. ControlInv'
  BY <1>1, Parts DEF ControlInv
<1>9. LoadInv'
  BY <1>1, Parts DEF LoadInv
<1>10. HealthInv'
  BY <1>1, <1>3 DEF HealthInv
<1> QED
  BY <1>4, <1>6, <1>7, <1>8, <1>9, <1>10, Assemble, PTL

(* A step that changes nothing.                                            *)
LEMMA StutterStep ==
  ASSUME Inv, UNCHANGED vars
  PROVE  Inv'
<1>1. /\ store' = store /\ batch' = batch /\ line' = line /\ lib' = lib
      /\ main' = main /\ loader' = loader /\ scan' = scan
      /\ corruption' = corruption /\ doomed' = doomed /\ pc' = pc
      /\ block' = block /\ meta' = meta /\ damage' = damage
  BY DEF vars, memory, load, call, faults
<1>2. Types' /\ DiskInv' /\ ScanInv'
  BY <1>1, Parts DEF Types, DiskInv, ScanInv
<1>3. ControlInv'
  <2>1. ControlInv
    BY Parts
  <2> QED
    BY <1>1, <2>1 DEF ControlInv
<1>4. LoadInv'
  <2>1. LoadInv
    BY Parts
  <2> QED
    BY <1>1, <2>1 DEF LoadInv
<1>5. HealthInv'
  BY <1>1, Parts DEF HealthInv, LibInv, RunInv, RestInv, Tip
<1> QED
  BY <1>2, <1>3, <1>4, <1>5, Assemble, PTL

(* The initial state.                                                      *)
LEMMA InitInv == Init => Inv
<1> SUFFICES ASSUME Init PROVE Inv
  OBVIOUS
<1>1. <<>> \in Seq(Block \cup {Garbage}) /\ <<>> \in Seq({Commits[b] : b \in Block})
  OBVIOUS
<1>2. Types
  BY <1>1 DEF Init, Types
<1>3. DiskInv
  BY NoKeysInv DEF Init, DiskInv
<1>4. ScanInv
  BY DEF Init, ScanInv
<1>5. ControlInv
  BY NoKeysInv DEF Init, ControlInv
<1>6. LoadInv
  BY DEF Init, LoadInv
<1>7. HealthInv
  <2>1. Len(<<>>) = 0 /\ DOMAIN <<>> = {}
    OBVIOUS
  <2>2. LibInv
    BY <2>1, BranchEmpty DEF Init, LibInv
  <2>3. Holds(store, <<>>, 0, 0)
    BY NoKeysInv, HoldsNothing DEF Init
  <2>4. RestInv
    BY <2>1, <2>3, BranchEmpty DEF Init, RestInv
  <2> QED
    BY <2>2, <2>4 DEF Init, HealthInv
<1> QED
  BY <1>2, <1>3, <1>4, <1>5, <1>6, <1>7, Assemble

(* Every step.                                                             *)
LEMMA NextInv == Inv /\ [Next]_vars => Inv'
<1> SUFFICES ASSUME Inv, [Next]_vars PROVE Inv'
  OBVIOUS
<1>1. CASE Process
  BY <1>1, ProcessStep
<1>2. CASE Flush
  BY <1>2, FlushStep
<1>3. CASE ReorgFlush
  BY <1>3, ReorgFlushStep
<1>4. CASE ReorgRemove
  BY <1>4, ReorgRemoveStep
<1>5. CASE ReorgUnload
  BY <1>5, ReorgUnloadStep
<1>6. CASE ReorgSpin \/ Sleep \/ UNCHANGED vars
  BY <1>6, StutterStep DEF ReorgSpin, Sleep
<1>7. CASE ReorgStore
  BY <1>7, ReorgStoreStep
<1>8. CASE Start
  BY <1>8, StartStep
<1>9. CASE LoadBlock
  BY <1>9, LoadBlockStep
<1>10. CASE LoadEnd
  BY <1>10, LoadEndStep
<1>11. CASE LoadDrain
  BY <1>11, LoadDrainStep
<1>12. CASE LoadUnlock
  BY <1>12, LoadUnlockStep
<1>13. CASE RecoverList
  BY <1>13, RecoverListStep
<1>14. CASE RecoverDelete
  BY <1>14, RecoverDeleteStep
<1>15. CASE Die \/ Crash
  BY <1>15, HaltStep DEF Die, Crash
<1>16. CASE Damage
  BY <1>16, DamageStep
<1> QED
  BY <1>1, <1>2, <1>3, <1>4, <1>5, <1>6, <1>7, <1>8, <1>9, <1>10, <1>11, <1>12,
     <1>13, <1>14, <1>15, <1>16 DEF Next, db_load


-------------------------------------------------------------------------------
(* Theorems.                                                               *)

(* The invariant holds in every reachable state.                           *)
THEOREM Invariance == Spec => []Inv
  BY InitInv, NextInv, PTL DEF Spec

(* Every variable has its type, and libcomb has one block for each block   *)
(* down from COMBInfo.Hash (db.go, neominer.go, combcore.go).              *)
THEOREM TypeCorrect == Spec => []TypeOK
<1>1. Inv => TypeOK
  BY DEF Inv
<1> QED
  BY <1>1, Invariance, PTL

(* Whatever keys on disk were lost or altered beyond recognition, however  *)
(* many of them and whenever: what a load has given libcomb is the commits *)
(* of one branch of Bitcoin's blocks (db_load, combcore_process_block).    *)
THEOREM OnlyABranchIsLoaded == Spec => []LoadsOnlyABranch
<1>1. Inv => LoadsOnlyABranch
  <2> SUFFICES ASSUME Inv, main = "load" PROVE LoadsOnlyABranch
    BY DEF LoadsOnlyABranch
  <2>1. Len(lib) \in Nat /\ Len(line) \in Nat /\ LoadInv
    BY Parts
  <2>2. Len(lib) = Len(line) \/ Len(lib) = Len(line) + 1
    BY <2>1 DEF LoadInv
  <2>3. Len(lib) - Len(line) \in {0, 1}
    BY <2>1, <2>2
  <2> QED
    BY <2>1, <2>3 DEF LoadInv, LoadsOnlyABranch
<1> QED
  BY <1>1, Invariance, PTL

(* Between any two writes and after any crash, as long as no key has been  *)
(* damaged, no removal has failed and no rollback has gone to the          *)
(* checkpoint, readers of the database get whole Bitcoin blocks, at the    *)
(* right heights (db_get_full_block_by_height, db_find_commits).           *)
THEOREM BlocksAreRead == Spec => []ReadersSeeWholeBlocks
<1>1. Inv => ReadersSeeWholeBlocks
  <2> SUFFICES ASSUME Inv PROVE ReadersSeeWholeBlocks
    OBVIOUS
  <2>1. CASE damage = 0
    <3>1. PICK l \in Branches : Holds(store, l, 0, Len(l))
      BY <2>1, StoredBranch
    <3>2. l \in Seq(Block)
      BY DEF Branches
    <3>3. /\ DOMAIN store \subseteq Nat \X Nat /\ IsFiniteSet(DOMAIN store)
          /\ Height \in Nat
      BY Parts DEF DiskInv, MetadataInv
    <3> QED
      BY <3>1, <3>2, <3>3, ReadersOfBranch
  <2>2. CASE damage # 0
    BY <2>2 DEF ReadersSeeWholeBlocks
  <2> QED
    BY <2>1, <2>2
<1> QED
  BY <1>1, Invariance, PTL

(* Whenever no block is being ingested, and as long as no key has been     *)
(* damaged, no removal has failed and no rollback has gone to the          *)
(* checkpoint, the database with the pending batch holds what libcomb has  *)
(* loaded (neominer_process_block, combcore_reorg, db_load).               *)
THEOREM MirrorsLib == Spec => []StoreMirrorsLib
<1>1. Inv => StoreMirrorsLib
  <2> SUFFICES ASSUME Inv, main = "run", pc = "ready", damage = 0
               PROVE  Mirrors(Write(batch, store))
    BY DEF StoreMirrorsLib
  <2>1. LibInv /\ RunInv
    BY Parts DEF HealthInv
  <2>2. /\ line \in Seq(Block) /\ Len(lib) = Len(line) /\ DOMAIN lib = DOMAIN line
        /\ \A i \in DOMAIN line : lib[i] = Commits[line[i]]
    BY <2>1, Parts DEF LibInv, Branches
  <2>3. PICK m \in 0 .. Len(line) :
          Holds(store, line, 0, m) /\ Holds(batch, line, m, Len(line))
    BY <2>1 DEF RunInv
  <2>4. DOMAIN store \subseteq Nat \X Nat /\ DOMAIN batch \subseteq Nat \X Nat
    BY Parts
  <2>5. /\ Holds(Write(batch, store), line, 0, Len(line))
        /\ DOMAIN Write(batch, store) = DOMAIN batch \cup DOMAIN store
    BY <2>2, <2>3, <2>4, HoldsWrite
  <2>6. DOMAIN Write(batch, store) \subseteq Nat \X Nat
    BY <2>4, <2>5
  <2> HIDE DEF Mirrors
  <2> QED
    BY <2>2, <2>5, <2>6, BranchMirrors
<1> QED
  BY <1>1, Invariance, PTL

(* The hashes a set of keys has, by height.                                *)
Hashes(s) == [h \in Heights(s) |-> s[MetaKey(h)].hash]

(* Those of the keys of a branch.                                          *)
LEMMA HeldHashes ==
  ASSUME NEW s, NEW l \in Branches,
         DOMAIN s \subseteq Nat \X Nat, Holds(s, l, 0, Len(l))
  PROVE  Hashes(s) = [h \in CheckpointHeight + 1 .. CheckpointHeight + Len(l) |->
                        l[h - CheckpointHeight]]
<1>0. /\ l \in Seq(Block) /\ Len(l) \in Nat /\ DOMAIN l = 1 .. Len(l)
      /\ CheckpointHeight \in Nat
  BY BlockStoreAssumption DEF Branches
<1>1. Heights(s) = CheckpointHeight + 1 .. CheckpointHeight + Len(l)
  BY <1>0, HeldInterval
<1>2. ASSUME NEW h \in CheckpointHeight + 1 .. CheckpointHeight + Len(l)
      PROVE  s[MetaKey(h)].hash = l[h - CheckpointHeight]
  <2>1. h - CheckpointHeight \in DOMAIN l
        /\ h = CheckpointHeight + (h - CheckpointHeight)
    BY <1>0
  <2>2. s[MetaKey(CheckpointHeight + (h - CheckpointHeight))]
          = Metadata(l[h - CheckpointHeight])
    BY <1>0, <2>1, HeldBlock
  <2>3. Metadata(l[h - CheckpointHeight]).hash = l[h - CheckpointHeight]
    BY DEF Metadata
  <2> QED
    BY <2>1, <2>2, <2>3
<1> QED
  BY <1>1, <1>2 DEF Hashes

(* They are a branch in the sense of Ledger.                               *)
LEMMA HeldLedger ==
  ASSUME NEW s, NEW l \in Branches,
         DOMAIN s \subseteq Nat \X Nat, Holds(s, l, 0, Len(l))
  PROVE  L!Branch(Hashes(s))
<1> DEFINE f == Hashes(s)
           I == CheckpointHeight + 1 .. CheckpointHeight + Len(l)
<1>0. /\ l \in Seq(Block) /\ Len(l) \in Nat /\ DOMAIN l = 1 .. Len(l)
      /\ CheckpointHeight \in Nat /\ Links(l)
  BY BlockStoreAssumption DEF Branches
<1>1. DOMAIN f = I /\ \A h \in I : f[h] = l[h - CheckpointHeight]
  BY HeldHashes
<1> HIDE DEF f
<1>2. ASSUME NEW h \in I
      PROVE  /\ h > CheckpointHeight
             /\ f[h] \in Block
             /\ IF h = CheckpointHeight + 1
                THEN Prev[f[h]] = Checkpoint
                ELSE h - 1 \in I /\ Prev[f[h]] = f[h - 1]
  <2>1. h > CheckpointHeight /\ h - CheckpointHeight \in DOMAIN l
    BY <1>0
  <2>2. f[h] = l[h - CheckpointHeight] /\ f[h] \in Block
    BY <1>0, <1>1, <2>1
  <2>3. Prev[f[h]] = IF h - CheckpointHeight = 1 THEN Checkpoint
                     ELSE l[(h - CheckpointHeight) - 1]
    BY <1>0, <2>1, <2>2 DEF Links
  <2>4. CASE h = CheckpointHeight + 1
    <3>1. h - CheckpointHeight = 1
      BY <1>0, <2>4
    <3> QED
      BY <2>1, <2>2, <2>3, <2>4, <3>1
  <2>5. CASE h # CheckpointHeight + 1
    <3>1. /\ h - CheckpointHeight # 1 /\ h - 1 \in I
          /\ (h - CheckpointHeight) - 1 = (h - 1) - CheckpointHeight
      BY <1>0, <2>5
    <3>2. f[h - 1] = l[(h - 1) - CheckpointHeight]
      BY <1>1, <3>1
    <3> QED
      BY <2>1, <2>2, <2>3, <2>5, <3>1, <3>2
  <2> QED
    BY <2>4, <2>5
<1> HIDE DEF I
<1>3. L!Branch(f)
  BY <1>1, <1>2 DEF L!Branch
<1> QED
  BY <1>3 DEF f

(* A branch that begins as another does.                                   *)
LEMMA HeldPrefix ==
  ASSUME NEW s, NEW l \in Branches, NEW t, NEW m \in Branches,
         DOMAIN s \subseteq Nat \X Nat, Holds(s, l, 0, Len(l)),
         DOMAIN t \subseteq Nat \X Nat, Holds(t, m, 0, Len(m)),
         Len(l) <= Len(m), \A i \in 1 .. Len(l) : l[i] = m[i]
  PROVE  L!PrefixOf(Hashes(s), Hashes(t))
<1> DEFINE f == Hashes(s)
           g == Hashes(t)
<1>0. Len(l) \in Nat /\ Len(m) \in Nat /\ CheckpointHeight \in Nat
  BY BlockStoreAssumption DEF Branches
<1>1. /\ DOMAIN f = CheckpointHeight + 1 .. CheckpointHeight + Len(l)
      /\ \A h \in DOMAIN f : f[h] = l[h - CheckpointHeight]
  <2>1. f = [h \in CheckpointHeight + 1 .. CheckpointHeight + Len(l) |->
                l[h - CheckpointHeight]]
    BY HeldHashes
  <2> HIDE DEF f
  <2> QED
    BY <2>1
<1>2. /\ DOMAIN g = CheckpointHeight + 1 .. CheckpointHeight + Len(m)
      /\ \A h \in DOMAIN g : g[h] = m[h - CheckpointHeight]
  <2>1. g = [h \in CheckpointHeight + 1 .. CheckpointHeight + Len(m) |->
                m[h - CheckpointHeight]]
    BY HeldHashes
  <2> HIDE DEF g
  <2> QED
    BY <2>1
<1> HIDE DEF f, g
<1>3. ASSUME NEW h \in DOMAIN f PROVE h \in DOMAIN g /\ f[h] = g[h]
  <2>1. h \in DOMAIN g /\ h - CheckpointHeight \in 1 .. Len(l)
    BY <1>0, <1>1, <1>2
  <2> QED
    BY <1>1, <1>2, <2>1
<1>4. L!PrefixOf(f, g)
  BY <1>3 DEF L!PrefixOf
<1> QED
  BY <1>4 DEF f, g

(* A write of the batch appends to the branch.                             *)
LEMMA WriteExtends ==
  ASSUME Inv, damage = 0, main = "run", neominer_write
  PROVE  L!Extend
<1>1. LibInv /\ RunInv
  BY Parts DEF HealthInv
<1>2. /\ Holds(store', line, 0, Len(line))
      /\ DOMAIN store' \subseteq Nat \X Nat
  BY <1>1, WriteHealth
<1>3. line \in Branches
  BY <1>1 DEF LibInv
<1>4. PICK m \in 0 .. Len(line) : Holds(store, line, 0, m)
  BY <1>1 DEF RunInv
<1> DEFINE l == SubSeq(line, 1, m)
<1>5. l \in Branches /\ Len(l) = m /\ \A i \in 1 .. m : l[i] = line[i]
  BY <1>3, BranchPrefix
<1> HIDE DEF l
<1>6. m \in Nat /\ 0 \in Nat /\ m <= Len(line) /\ \A i \in 0 + 1 .. m : l[i] = line[i]
  BY <1>5, Parts
<1>7. Holds(store, l, 0, Len(l))
  BY <1>4, <1>5, <1>6, HoldsSame
<1>8. DOMAIN store \subseteq Nat \X Nat
  BY Parts
<1>9. L!PrefixOf(Hashes(store), Hashes(store'))
  BY <1>2, <1>3, <1>5, <1>6, <1>7, <1>8, HeldPrefix
<1>10. L!Branch(Hashes(store'))
  BY <1>2, <1>3, HeldLedger
<1>11. Hashes(store) = ledger /\ Hashes(store') = ledger'
  BY DEF Hashes, ledger
<1> QED
  BY <1>9, <1>10, <1>11 DEF L!Extend

(* A removal cuts its end off.                                             *)
LEMMA RemoveRollsBack ==
  ASSUME Inv, Inv', ReorgRemove, damage' = 0
  PROVE  L!Rollback
<1>1. /\ pc = "trace" /\ main' = main
      /\ line' = IF Prev[block] = Checkpoint THEN <<>>
                 ELSE SubSeq(line, 1, CHOOSE j \in DOMAIN line : line[j] = Prev[block])
      /\ damage' = damage \/ damage' = damage + 1
      /\ pc' = "unload"
  BY DEF ReorgRemove, load
<1>2. damage = 0
  BY <1>1, Parts DEF Types
<1>3. main = "run"
  BY <1>1, Parts DEF ControlInv
<1>4. LibInv /\ RunInv
  BY <1>2, <1>3, Parts DEF HealthInv
<1>5. LibInv' /\ RunInv'
  BY <1>1, <1>3 DEF Inv, HealthInv
<1>6. line \in Branches /\ line' \in Branches
  BY <1>4, <1>5 DEF LibInv
<1>7. Holds(store, line, 0, Len(line)) /\ Holds(store', line', 0, Len(line'))
  BY <1>1, <1>4, <1>5 DEF RunInv
<1> DEFINE i == CHOOSE j \in DOMAIN line : line[j] = Prev[block]
<1>8. i \in DOMAIN line /\ Prev[block] # Checkpoint
  <2>1. PICK j \in DOMAIN line : line[j] = Prev[block]
    BY <1>1, <1>4 DEF LibInv
  <2>2. line[j] \in Block
    BY <1>6, <2>1 DEF Branches
  <2> QED
    BY <2>1, <2>2, BlockStoreAssumption
<1> HIDE DEF i
<1>9. i \in 0 .. Len(line) /\ i <= Len(line)
  BY <1>8, Parts
<1>10. Len(line') = i /\ \A x \in 1 .. i : line'[x] = line[x]
  BY <1>1, <1>6, <1>8, <1>9, BranchPrefix DEF i
<1>11. DOMAIN store \subseteq Nat \X Nat /\ DOMAIN store' \subseteq Nat \X Nat
  BY Parts DEF Inv, TypeOK
<1>12. L!PrefixOf(Hashes(store'), Hashes(store))
  BY <1>6, <1>7, <1>9, <1>10, <1>11, HeldPrefix
<1>13. L!Branch(Hashes(store'))
  BY <1>6, <1>7, <1>11, HeldLedger
<1>14. Hashes(store) = ledger /\ Hashes(store') = ledger'
  BY DEF Hashes, ledger
<1> QED
  BY <1>12, <1>13, <1>14 DEF L!Rollback

(* The database implements the ledger: as long as no key is damaged, no    *)
(* removal fails and no rollback goes to the checkpoint, every step leaves *)
(* the recorded branch as it is, appends to it or cuts its end off         *)
(* (neominer_write, db_remove_blocks_after).                               *)
THEOREM LedgerIsImplemented == Spec => ImplementsLedger
<1>1. Init => L!Init
  <2> SUFFICES ASSUME Init PROVE L!Init
    OBVIOUS
  <2>1. Heights(store) = {}
    BY NoKeysInv DEF Init, Heights
  <2> QED
    BY <2>1 DEF L!Init, ledger
<1>2. Inv /\ Inv' /\ [Next]_vars => (damage' = 0 => [L!Next]_ledger)
  <2> SUFFICES ASSUME Inv, Inv', [Next]_vars, damage' = 0
               PROVE  [L!Next]_ledger
    OBVIOUS
  <2>1. CASE store' = store
    BY <2>1 DEF ledger, Heights
  <2>2. CASE Flush \/ ReorgFlush
    <3>1. main = "run" /\ neominer_write
      BY <2>2 DEF Flush, ReorgFlush
    <3>2. damage' = damage \/ damage' = damage + 1
      BY <2>2 DEF Flush, ReorgFlush, Target, faults
    <3>3. damage = 0
      BY <3>2, Parts DEF Types
    <3> QED
      BY <3>1, <3>3, WriteExtends DEF L!Next
  <2>3. CASE ReorgRemove
    BY <2>3, RemoveRollsBack DEF L!Next
  <2>4. CASE RecoverDelete
    <3>1. loader = "delete" /\ damage = 0
      BY <2>4 DEF RecoverDelete, faults
    <3> QED
      BY <3>1, OnlyAfterDamage
  <2>5. CASE Damage
    <3>1. damage \in Nat /\ damage' = damage + 1
      BY <2>5, Parts DEF Damage, Types
    <3> QED
      BY <3>1
  <2>6. CASE \/ Process \/ ReorgUnload \/ ReorgSpin \/ ReorgStore \/ Start
             \/ LoadBlock \/ LoadEnd \/ LoadDrain \/ LoadUnlock \/ RecoverList
             \/ Die \/ Crash \/ Sleep \/ UNCHANGED vars
    <3>1. store' = store
      BY <2>6 DEF Process, ReorgUnload, ReorgSpin, ReorgStore, Start, LoadBlock,
                  LoadEnd, LoadDrain, LoadUnlock, RecoverList, Die, Crash, Halt,
                  Sleep, vars
    <3> QED
      BY <2>1, <3>1
  <2> QED
    BY <2>2, <2>3, <2>4, <2>5, <2>6 DEF Next, db_load
<1> QED
  BY <1>1, <1>2, Invariance, PTL DEF Spec, ImplementsLedger

-------------------------------------------------------------------------------
(* The list the public API makes.                                          *)

(* r is s with e put in at place p.                                        *)
WithAt(r, s, p, e) ==
  /\ r \in Seq(Nat) /\ Len(r) = Len(s) + 1
  /\ \A j \in 1 .. Len(s) + 1 : r[j] = IF j < p THEN s[j] ELSE IF j = p THEN e ELSE s[j - 1]

(* InsertAt, element by element.                                           *)
LEMMA Inserted ==
  ASSUME NEW s \in Seq(Nat), NEW p \in 1 .. Len(s) + 1, NEW e \in Nat
  PROVE  WithAt(InsertAt(s, p, e), s, p, e)
<1> DEFINE a == SubSeq(s, 1, p - 1)
<1> DEFINE c == SubSeq(s, p, Len(s))
<1>1. Len(s) \in Nat /\ p \in Nat /\ 1 <= p /\ p <= Len(s) + 1
  OBVIOUS
<1>2. /\ a \in Seq(Nat) /\ Len(a) = p - 1
      /\ \A j \in 1 .. p - 1 : a[j] = s[j]
  <2>1. 1 \in Int /\ p - 1 \in Int /\ \A j \in 1 .. p - 1 : s[j] \in Nat
    BY <1>1
  <2>2. /\ a \in Seq(Nat)
        /\ Len(a) = IF 1 <= p - 1 THEN (p - 1) - 1 + 1 ELSE 0
        /\ \A j \in 1 .. (p - 1) - 1 + 1 : a[j] = s[1 + j - 1]
    BY <2>1, SubSeqProperties
  <2> HIDE DEF a
  <2> QED
    BY <1>1, <2>2
<1>3. /\ c \in Seq(Nat) /\ Len(c) = Len(s) - p + 1
      /\ \A j \in 1 .. Len(s) - p + 1 : c[j] = s[p + j - 1]
  <2>1. p \in Int /\ Len(s) \in Int /\ \A j \in p .. Len(s) : s[j] \in Nat
    BY <1>1
  <2>2. /\ c \in Seq(Nat)
        /\ Len(c) = IF p <= Len(s) THEN Len(s) - p + 1 ELSE 0
        /\ \A j \in 1 .. Len(s) - p + 1 : c[j] = s[p + j - 1]
    BY <2>1, SubSeqProperties
  <2> HIDE DEF c
  <2> QED
    BY <1>1, <2>2
<1>4. InsertAt(s, p, e) = (a \o <<e>>) \o c
  BY DEF InsertAt
<1> HIDE DEF a, c
<1> DEFINE b == a \o <<e>>
<1>5. /\ b \in Seq(Nat) /\ Len(b) = p
      /\ \A j \in 1 .. p : b[j] = IF j < p THEN s[j] ELSE e
  <2>1. <<e>> \in Seq(Nat) /\ Len(<<e>>) = 1 /\ <<e>>[1] = e
    OBVIOUS
  <2>2. /\ b \in Seq(Nat) /\ Len(b) = Len(a) + Len(<<e>>)
        /\ \A j \in 1 .. Len(a) + Len(<<e>>) :
             b[j] = IF j <= Len(a) THEN a[j] ELSE <<e>>[j - Len(a)]
    BY <1>2, <2>1, ConcatProperties
  <2> HIDE DEF b
  <2>3. ASSUME NEW j \in 1 .. p PROVE b[j] = IF j < p THEN s[j] ELSE e
    <3>1. CASE j < p
      BY <1>1, <1>2, <2>1, <2>2, <3>1
    <3>2. CASE j = p
      <4>1. b[j] = <<e>>[j - Len(a)] /\ j - Len(a) = 1
        BY <1>1, <1>2, <2>1, <2>2, <3>2
      <4> QED
        BY <2>1, <3>2, <4>1
    <3> QED
      BY <1>1, <3>1, <3>2
  <2> QED
    BY <1>1, <1>2, <2>1, <2>2, <2>3
<1> HIDE DEF b
<1> DEFINE r == b \o c
<1>6. /\ r \in Seq(Nat) /\ Len(r) = Len(b) + Len(c)
      /\ \A j \in 1 .. Len(b) + Len(c) : r[j] = IF j <= Len(b) THEN b[j] ELSE c[j - Len(b)]
  BY <1>3, <1>5, ConcatProperties
<1> HIDE DEF r
<1>7. Len(r) = Len(s) + 1
  BY <1>1, <1>3, <1>5, <1>6
<1>8. ASSUME NEW j \in 1 .. Len(s) + 1
      PROVE  r[j] = IF j < p THEN s[j] ELSE IF j = p THEN e ELSE s[j - 1]
  <2>0. Len(b) = p /\ Len(c) = Len(s) - p + 1 /\ j \in 1 .. Len(b) + Len(c)
    BY <1>1, <1>3, <1>5
  <2>1. CASE j <= p
    BY <1>1, <1>5, <1>6, <2>0, <2>1
  <2>2. CASE j > p
    <3>1. r[j] = c[j - p] /\ j - p \in 1 .. Len(s) - p + 1 /\ p + (j - p) - 1 = j - 1
      BY <1>1, <1>6, <2>0, <2>2
    <3>2. c[j - p] = s[p + (j - p) - 1]
      BY <1>3, <3>1
    <3> QED
      BY <1>1, <2>2, <3>1, <3>2
  <2> QED
    BY <1>1, <2>1, <2>2
<1> QED
  <2>1. r = InsertAt(s, p, e)
    BY <1>4 DEF r, b
  <2>2. WithAt(r, s, p, e)
    BY <1>6, <1>7, <1>8 DEF WithAt
  <2> QED
    BY <2>1, <2>2

(* Each element is greater than the ones before it.                        *)
Increasing(s) == \A i, j \in 1 .. Len(s) : i < j => s[i] < s[j]

(* r is increasing and has the elements of s, and e.                       *)
InOrderWith(r, s, e) ==
  /\ r \in Seq(Nat) /\ Len(r) = Len(s) + 1 /\ Increasing(r)
  /\ \A j \in 1 .. Len(r) : r[j] = e \/ \E k \in 1 .. Len(s) : r[j] = s[k]
  /\ \E j \in 1 .. Len(r) : r[j] = e
  /\ \A k \in 1 .. Len(s) : \E j \in 1 .. Len(r) : r[j] = s[k]

(* One entry more in the list: what Listed does for es[n].                 *)
WithEntry(s, e) == InsertAt(s, insert_at(e, s), e)

(* The place insert_at finds keeps an increasing list increasing, and its  *)
(* elements, and adds e.                                                   *)
LEMMA InsertedInOrder ==
  ASSUME NEW s \in Seq(Nat), Increasing(s), NEW e \in Nat, \A j \in 1 .. Len(s) : s[j] # e
  PROVE  InOrderWith(WithEntry(s, e), s, e)
<1> DEFINE p == insert_at(e, s)
<1> DEFINE r == InsertAt(s, p, e)
<1>1. Len(s) \in Nat /\ DOMAIN s = 1 .. Len(s) /\ \A j \in 1 .. Len(s) : s[j] \in Nat
  OBVIOUS
<1>2. /\ p \in 1 .. Len(s) + 1
      /\ \A j \in 1 .. Len(s) : j < p => s[j] < e
      /\ \A j \in 1 .. Len(s) : j >= p => e < s[j]
  <2> DEFINE after == {j \in DOMAIN s : e < s[j]}
  <2>1. CASE after = {}
    <3>1. p = Len(s) + 1
      BY <2>1 DEF insert_at
    <3>2. \A j \in 1 .. Len(s) : ~(e < s[j])
      BY <1>1, <2>1
    <3> QED
      BY <1>1, <3>1, <3>2
  <2>2. CASE after # {}
    <3>1. p = Min(after)
      BY <2>2 DEF insert_at
    <3>2. after \in SUBSET Nat
      BY <1>1
    <3>3. Min(after) \in after /\ \A j \in after : Min(after) <= j
      BY <2>2, <3>2, MinIsLeast
    <3>4. p \in 1 .. Len(s) /\ e < s[p] /\ \A j \in 1 .. Len(s) : e < s[j] => p <= j
      BY <1>1, <3>1, <3>3
    <3> HIDE DEF p
    <3>5. ASSUME NEW j \in 1 .. Len(s), j >= p PROVE e < s[j]
      <4>1. CASE j = p
        BY <3>4, <4>1
      <4>2. CASE j > p
        <5>1. s[p] < s[j]
          BY <1>1, <3>4, <4>2 DEF Increasing
        <5>2. e \in Nat /\ s[p] \in Nat /\ s[j] \in Nat
          BY <1>1, <3>4
        <5> QED
          BY <3>4, <5>1, <5>2
      <4> QED
        BY <1>1, <3>4, <3>5, <4>1, <4>2
    <3>6. ASSUME NEW j \in 1 .. Len(s), j < p PROVE s[j] < e
      <4>1. ~(e < s[j]) /\ s[j] # e /\ s[j] \in Nat
        BY <1>1, <3>4, <3>6
      <4> QED
        BY <4>1
    <3> QED
      BY <1>1, <3>4, <3>5, <3>6
  <2> QED
    BY <2>1, <2>2
<1> HIDE DEF p
<1>3. /\ r \in Seq(Nat) /\ Len(r) = Len(s) + 1
      /\ \A j \in 1 .. Len(s) + 1 : r[j] = IF j < p THEN s[j] ELSE IF j = p THEN e ELSE s[j - 1]
  <2>1. p \in 1 .. Len(s) + 1
    BY <1>2
  <2>2. WithAt(r, s, p, e)
    BY <2>1, Inserted, Zenon
  <2> QED
    BY <2>2, Zenon DEF WithAt
<1> HIDE DEF r
<1>4. Increasing(r)
  <2> SUFFICES ASSUME NEW i \in 1 .. Len(r), NEW j \in 1 .. Len(r), i < j PROVE r[i] < r[j]
    BY DEF Increasing
  <2>0. i \in Nat /\ j \in Nat /\ i \in 1 .. Len(s) + 1 /\ j \in 1 .. Len(s) + 1 /\ p \in Nat
    BY <1>1, <1>2, <1>3
  <2>1. CASE j < p
    <3>1. r[i] = s[i] /\ r[j] = s[j] /\ i \in 1 .. Len(s) /\ j \in 1 .. Len(s)
      BY <1>1, <1>2, <1>3, <2>0, <2>1
    <3> QED
      BY <3>1 DEF Increasing
  <2>2. CASE j = p
    <3>1. r[i] = s[i] /\ r[j] = e /\ i \in 1 .. Len(s) /\ i < p
      BY <1>1, <1>2, <1>3, <2>0, <2>2
    <3> QED
      BY <1>2, <3>1
  <2>3. CASE j > p /\ i < p
    <3>1. /\ r[i] = s[i] /\ r[j] = s[j - 1] /\ i \in 1 .. Len(s) /\ j - 1 \in 1 .. Len(s)
          /\ i < j - 1
      BY <1>1, <1>2, <1>3, <2>0, <2>3
    <3> QED
      BY <3>1 DEF Increasing
  <2>4. CASE i = p
    <3>1. r[i] = e /\ r[j] = s[j - 1] /\ j - 1 \in 1 .. Len(s) /\ j - 1 >= p
      BY <1>1, <1>2, <1>3, <2>0, <2>4
    <3> QED
      BY <1>2, <3>1
  <2>5. CASE i > p
    <3>1. /\ r[i] = s[i - 1] /\ r[j] = s[j - 1] /\ i - 1 \in 1 .. Len(s)
          /\ j - 1 \in 1 .. Len(s) /\ i - 1 < j - 1
      BY <1>1, <1>2, <1>3, <2>0, <2>5
    <3> QED
      BY <3>1 DEF Increasing
  <2> QED
    BY <2>0, <2>1, <2>2, <2>3, <2>4, <2>5
<1>5. ASSUME NEW j \in 1 .. Len(r) PROVE r[j] = e \/ \E k \in 1 .. Len(s) : r[j] = s[k]
  <2>1. CASE j < p
    <3>1. r[j] = s[j] /\ j \in 1 .. Len(s)
      BY <1>1, <1>2, <1>3, <2>1
    <3> QED
      BY <3>1
  <2>2. CASE j = p
    BY <1>1, <1>2, <1>3, <2>2
  <2>3. CASE j > p
    <3>1. r[j] = s[j - 1] /\ j - 1 \in 1 .. Len(s)
      BY <1>1, <1>2, <1>3, <2>3
    <3> QED
      BY <3>1
  <2> QED
    BY <1>2, <2>1, <2>2, <2>3
<1>6. \E j \in 1 .. Len(r) : r[j] = e
  <2>1. p \in 1 .. Len(r) /\ r[p] = e
    BY <1>1, <1>2, <1>3
  <2> QED
    BY <2>1
<1>7. ASSUME NEW k \in 1 .. Len(s) PROVE \E j \in 1 .. Len(r) : r[j] = s[k]
  <2>1. CASE k < p
    <3>1. k \in 1 .. Len(r) /\ r[k] = s[k]
      BY <1>1, <1>2, <1>3, <2>1
    <3> QED
      BY <3>1
  <2>2. CASE k >= p
    <3>1. k + 1 \in 1 .. Len(r) /\ r[k + 1] = s[(k + 1) - 1] /\ (k + 1) - 1 = k
      <4>1. k + 1 \in 1 .. Len(s) + 1 /\ ~(k + 1 < p) /\ k + 1 # p /\ (k + 1) - 1 = k
        BY <1>1, <1>2, <2>2
      <4>2. r[k + 1] = IF k + 1 < p THEN s[k + 1] ELSE IF k + 1 = p THEN e ELSE s[(k + 1) - 1]
        BY <1>3, <4>1
      <4> QED
        BY <1>3, <4>1, <4>2
    <3> QED
      BY <3>1
  <2> QED
    BY <1>2, <2>1, <2>2
<1> QED
  <2>1. InOrderWith(r, s, e)
    BY <1>3, <1>4, <1>5, <1>6, <1>7 DEF InOrderWith
  <2>2. r = WithEntry(s, e)
    BY DEF r, p, WithEntry
  <2> QED
    BY <2>1, <2>2

(* f is the function Listed defines for es, up to m.                       *)
IsListed(f, es, m) ==
  f = [n \in 0 .. m |-> IF n = 0 THEN <<>> ELSE WithEntry(f[n - 1], es[n])]

(* There is such a function.                                               *)
LEMMA ListedExists ==
  ASSUME NEW es, NEW m \in Nat PROVE \E f : IsListed(f, es, m)
<1> DEFINE T == {n \in Nat : \E f : IsListed(f, es, n)}
<1>1. 0 \in T
  <2> DEFINE e == [n \in 0 .. 0 |-> <<>>]
  <2>1. e = [n \in 0 .. 0 |-> IF n = 0 THEN <<>> ELSE WithEntry(e[n - 1], es[n])]
    OBVIOUS
  <2> HIDE DEF e
  <2>2. IsListed(e, es, 0)
    BY <2>1 DEF IsListed
  <2> QED
    BY <2>2
<1>2. ASSUME NEW n \in T PROVE n + 1 \in T
  <2>1. PICK f : IsListed(f, es, n)
    OBVIOUS
  <2> DEFINE g == [k \in 0 .. n + 1 |-> IF k = 0 THEN <<>> ELSE WithEntry(f[k - 1], es[k])]
  <2>2. n \in Nat
    OBVIOUS
  <2>3. \A k \in 0 .. n : f[k] = IF k = 0 THEN <<>> ELSE WithEntry(f[k - 1], es[k])
    BY <2>1, Zenon DEF IsListed
  <2>4. \A k \in 0 .. n : g[k] = f[k]
    BY <2>2, <2>3
  <2>5. ASSUME NEW k \in 0 .. n + 1, k # 0 PROVE g[k - 1] = f[k - 1]
    <3> HIDE DEF g
    <3>1. k - 1 \in 0 .. n
      BY <2>2, <2>5
    <3> QED
      BY <2>4, <3>1
  <2>6. g = [k \in 0 .. n + 1 |-> IF k = 0 THEN <<>> ELSE WithEntry(g[k - 1], es[k])]
    BY <2>5
  <2> HIDE DEF g
  <2>7. IsListed(g, es, n + 1)
    BY <2>6 DEF IsListed
  <2> QED
    BY <2>2, <2>7
<1> HIDE DEF T
<1>3. T \in SUBSET Nat
  BY DEF T
<1>4. T = Nat
  BY <1>1, <1>2, <1>3, InductionOverSet
<1> QED
  BY <1>4 DEF T

(* The list is its last value, and it grows entry by entry.                *)
LEMMA ListedIsLast ==
  ASSUME NEW es, Len(es) \in Nat
  PROVE  \E f : /\ Listed(es) = f[Len(es)]
                /\ f[0] = <<>>
                /\ \A n \in 1 .. Len(es) : f[n] = WithEntry(f[n - 1], es[n])
<1> DEFINE F == CHOOSE f : IsListed(f, es, Len(es))
<1>1. IsListed(F, es, Len(es))
  BY ListedExists, Zenon
<1>2. Listed(es) = F[Len(es)]
  BY DEF Listed, IsListed, WithEntry
<1> HIDE DEF F
<1>3. \A n \in 0 .. Len(es) : F[n] = IF n = 0 THEN <<>> ELSE WithEntry(F[n - 1], es[n])
  BY <1>1, Zenon DEF IsListed
<1>4. F[0] = <<>> /\ \A n \in 1 .. Len(es) : F[n] = WithEntry(F[n - 1], es[n])
  BY <1>3
<1> QED
  BY <1>2, <1>4

(* s lists the first n of the entries es in increasing order.              *)
Sorted(s, es, n) ==
  /\ s \in Seq(Nat) /\ Len(s) = n /\ Increasing(s)
  /\ \A j \in 1 .. Len(s) : \E k \in 1 .. n : s[j] = es[k]
  /\ \A k \in 1 .. n : \E j \in 1 .. Len(s) : s[j] = es[k]

(* Whatever the order of the entries, the list is in increasing order and  *)
(* has each of them.                                                       *)
LEMMA ListedIsSorted ==
  ASSUME NEW es \in Seq(Nat), \A i, j \in 1 .. Len(es) : i # j => es[i] # es[j]
  PROVE  Sorted(Listed(es), es, Len(es))
<1>1. Len(es) \in Nat /\ \A n \in 1 .. Len(es) : es[n] \in Nat
  OBVIOUS
<1>2. PICK f : /\ Listed(es) = f[Len(es)]
               /\ f[0] = <<>>
               /\ \A n \in 1 .. Len(es) : f[n] = WithEntry(f[n - 1], es[n])
  BY <1>1, ListedIsLast, Zenon
<1> DEFINE T == {n \in Nat : n <= Len(es) => Sorted(f[n], es, n)}
<1>3. 0 \in T
  <2>1. <<>> \in Seq(Nat) /\ Len(<<>>) = 0
    OBVIOUS
  <2>2. Sorted(<<>>, es, 0)
    BY <2>1 DEF Sorted, Increasing
  <2> QED
    BY <1>2, <2>2
<1>4. ASSUME NEW n \in T PROVE n + 1 \in T
  <2> SUFFICES ASSUME n + 1 <= Len(es) PROVE Sorted(f[n + 1], es, n + 1)
    OBVIOUS
  <2>1. n \in Nat /\ Sorted(f[n], es, n)
    BY <1>1
  <2>2. n + 1 \in 1 .. Len(es) /\ (n + 1) - 1 = n
    BY <1>1, <2>1
  <2>3. f[n + 1] = WithEntry(f[n], es[n + 1])
    BY <1>2, <2>2
  <2> DEFINE s == f[n]
  <2> DEFINE e == es[n + 1]
  <2> DEFINE r == f[n + 1]
  <2>4. s \in Seq(Nat) /\ Len(s) = n /\ Increasing(s)
    BY <2>1 DEF Sorted
  <2>5. e \in Nat
    BY <1>1, <2>2
  <2>6. ASSUME NEW j \in 1 .. Len(s) PROVE s[j] # e
    <3>1. PICK k \in 1 .. n : s[j] = es[k]
      BY <2>1 DEF Sorted
    <3>2. k \in 1 .. Len(es) /\ k # n + 1
      BY <1>1, <2>1, <2>2
    <3> QED
      BY <2>2, <3>1, <3>2
  <2>6a. \A j \in 1 .. Len(s) : s[j] # e
    BY <2>6
  <2>7. r = WithEntry(s, e)
    BY <2>3
  <2>8. /\ \A j \in 1 .. Len(s) : \E k \in 1 .. n : s[j] = es[k]
        /\ \A k \in 1 .. n : \E j \in 1 .. Len(s) : s[j] = es[k]
    BY <2>1, Zenon DEF Sorted
  <2> HIDE DEF s, e, r
  <2>9. /\ r \in Seq(Nat) /\ Len(r) = Len(s) + 1 /\ Increasing(r)
        /\ \A j \in 1 .. Len(r) : r[j] = e \/ \E k \in 1 .. Len(s) : r[j] = s[k]
        /\ \E j \in 1 .. Len(r) : r[j] = e
        /\ \A k \in 1 .. Len(s) : \E j \in 1 .. Len(r) : r[j] = s[k]
    <3>1. InOrderWith(WithEntry(s, e), s, e)
      BY <2>4, <2>5, <2>6a, InsertedInOrder, Zenon
    <3> QED
      BY <2>7, <3>1, Zenon DEF InOrderWith
  <2>10. ASSUME NEW j \in 1 .. Len(r) PROVE \E k \in 1 .. n + 1 : r[j] = es[k]
    <3>1. CASE r[j] = e
      <4>1. n + 1 \in 1 .. n + 1
        BY <2>1
      <4> QED
        BY <3>1, <4>1 DEF e
    <3>2. CASE \E k \in 1 .. Len(s) : r[j] = s[k]
      <4>1. PICK k \in 1 .. Len(s) : r[j] = s[k]
        BY <3>2
      <4>2. PICK i \in 1 .. n : s[k] = es[i]
        BY <2>8
      <4>3. i \in 1 .. n + 1
        BY <2>1
      <4> QED
        BY <4>1, <4>2, <4>3
    <3> QED
      BY <2>9, <3>1, <3>2
  <2>11. ASSUME NEW k \in 1 .. n + 1 PROVE \E j \in 1 .. Len(r) : r[j] = es[k]
    <3>1. CASE k = n + 1
      BY <2>9, <3>1 DEF e
    <3>2. CASE k \in 1 .. n
      <4>1. PICK i \in 1 .. Len(s) : s[i] = es[k]
        BY <2>8, <3>2
      <4> QED
        BY <2>9, <4>1
    <3> QED
      BY <2>1, <3>1, <3>2
  <2>12. Sorted(r, es, n + 1)
    BY <2>4, <2>9, <2>10, <2>11 DEF Sorted
  <2> QED
    BY <2>12 DEF r
<1>5. T = Nat
  <2>1. T \in SUBSET Nat
    OBVIOUS
  <2> HIDE DEF T
  <2> QED
    BY <1>3, <1>4, <2>1, InductionOverSet
<1> QED
  BY <1>1, <1>2, <1>5

(* A list of the elements of cs: each of them, once, in the order of cs.   *)
Agrees(list, cs) ==
  /\ Range(list) = Range(cs)
  /\ IsInjective(list)
  /\ \E at \in [DOMAIN list -> DOMAIN cs] :
       /\ \A i \in DOMAIN list : list[i] = cs[at[i]]
       /\ \A i, j \in DOMAIN list : i < j => at[i] < at[j]

(* A sequence with the elements of P, each once, has all of them.          *)
LEMMA EntriesOfPlaces ==
  ASSUME NEW n \in Nat, NEW P \in SUBSET (1 .. n), NEW es \in SetToSeqs(P)
  PROVE  /\ es \in Seq(Nat) /\ DOMAIN es = 1 .. Len(es)
         /\ \A i, j \in 1 .. Len(es) : i # j => es[i] # es[j]
         /\ \A i \in 1 .. Len(es) : es[i] \in P
         /\ \A x \in P : \E i \in 1 .. Len(es) : es[i] = x
<1>1. IsFiniteSet(1 .. n) /\ Cardinality(1 .. n) = n
  BY FS_Interval
<1>2. IsFiniteSet(P)
  BY <1>1, FS_Subset
<1>3. Cardinality(P) \in Nat
  BY <1>2, FS_CardinalityType
<1> DEFINE c == Cardinality(P)
<1>4. /\ es \in [1 .. c -> P]
      /\ \A i, j \in 1 .. c : i # j => es[i] # es[j]
  BY DEF SetToSeqs
<1>5. IsFiniteSet(1 .. c) /\ Cardinality(1 .. c) = c
  BY <1>3, FS_Interval
<1> HIDE DEF c
<1>6. c \in Nat
  BY <1>3 DEF c
<1>7. P \subseteq Nat
  OBVIOUS
<1>8. es \in Seq(Nat) /\ Len(es) = c /\ DOMAIN es = 1 .. c
  <2>1. DOMAIN es = 1 .. c /\ es = [i \in 1 .. c |-> es[i]]
    BY <1>4
  <2>2. \A i \in 1 .. c : es[i] \in Nat
    BY <1>4, <1>7
  <2>4. es \in Seq(Nat)
    <3>1. [i \in 1 .. c |-> es[i]] \in Seq(Nat)
      BY <1>6, <2>2
    <3> QED
      BY <2>1, <3>1
  <2>5. Len(es) \in Nat /\ DOMAIN es = 1 .. Len(es)
    BY <2>4, LenProperties
  <2>6. Len(es) = c
    BY <1>6, <2>1, <2>5
  <2> QED
    BY <2>1, <2>4, <2>6
<1>9. es \in Injection(1 .. c, P)
  BY <1>4 DEF Injection, IsInjective
<1>10. es \in Surjection(1 .. c, P)
  BY <1>2, <1>5, <1>9, FS_Injection DEF c
<1>11. \A x \in P : \E i \in 1 .. c : es[i] = x
  BY <1>10 DEF Surjection
<1> QED
  BY <1>4, <1>8, <1>11

(* A list made of any of the maps a block's commits may be in, ranged over *)
(* in any order.                                                           *)
LEMMA ListAgrees ==
  ASSUME NEW cs, Len(cs) \in Nat, DOMAIN cs = 1 .. Len(cs),
         NEW P \in raw_commits(cs), NEW es \in SetToSeqs(P)
  PROVE  Agrees([i \in DOMAIN es |-> cs[Listed(es)[i]]], cs)
<1> DEFINE at == Listed(es)
<1> DEFINE list == [i \in DOMAIN es |-> cs[at[i]]]
<1>1. /\ P \in SUBSET (1 .. Len(cs))
      /\ \A i \in DOMAIN cs : \E j \in P : {k \in P : cs[k] = cs[i]} = {j}
  BY DEF raw_commits
<1>2. /\ es \in Seq(Nat) /\ DOMAIN es = 1 .. Len(es)
      /\ \A i, j \in 1 .. Len(es) : i # j => es[i] # es[j]
      /\ \A i \in 1 .. Len(es) : es[i] \in P
      /\ \A x \in P : \E i \in 1 .. Len(es) : es[i] = x
  BY <1>1, EntriesOfPlaces
<1>3. Sorted(at, es, Len(es))
  BY <1>2, ListedIsSorted
<1> HIDE DEF at
<1>4. /\ at \in Seq(Nat) /\ Len(at) = Len(es) /\ Increasing(at)
      /\ \A j \in 1 .. Len(at) : \E k \in 1 .. Len(es) : at[j] = es[k]
      /\ \A k \in 1 .. Len(es) : \E j \in 1 .. Len(at) : at[j] = es[k]
  BY <1>3, Zenon DEF Sorted
<1> DEFINE n == Len(es)
<1>5. n \in Nat /\ DOMAIN at = 1 .. n /\ DOMAIN list = 1 .. n
  BY <1>2, <1>4
<1>6. \A i \in 1 .. n : list[i] = cs[at[i]]
  BY <1>2
<1>7. \A i \in 1 .. n : at[i] \in P
  BY <1>2, <1>4
<1>8. \A x \in P : \E i \in 1 .. n : at[i] = x
  <2> SUFFICES ASSUME NEW x \in P PROVE \E i \in 1 .. n : at[i] = x
    OBVIOUS
  <2>1. PICK k \in 1 .. Len(es) : es[k] = x
    BY <1>2
  <2> QED
    BY <1>4, <2>1
<1>9. \A i, j \in 1 .. n : i < j => at[i] < at[j]
  BY <1>4 DEF Increasing
<1> HIDE DEF list, n
<1>10. Range(list) = Range(cs)
  <2>1. ASSUME NEW i \in 1 .. n PROVE list[i] \in Range(cs)
    BY <1>1, <1>6, <1>7 DEF Range
  <2>2. ASSUME NEW i \in DOMAIN cs PROVE cs[i] \in Range(list)
    <3>1. PICK j \in P : {k \in P : cs[k] = cs[i]} = {j}
      BY <1>1
    <3>2. cs[j] = cs[i]
      BY <3>1
    <3>3. PICK k \in 1 .. n : at[k] = j
      BY <1>8
    <3>4. list[k] = cs[i]
      BY <1>6, <3>2, <3>3
    <3> QED
      BY <1>5, <3>4 DEF Range
  <2> QED
    BY <1>5, <2>1, <2>2 DEF Range
<1>11. IsInjective(list)
  <2> SUFFICES ASSUME NEW a \in 1 .. n, NEW b \in 1 .. n, list[a] = list[b] PROVE a = b
    BY <1>5 DEF IsInjective
  <2>1. at[a] \in P /\ at[b] \in P /\ cs[at[a]] = cs[at[b]]
    BY <1>6, <1>7
  <2>2. at[a] \in DOMAIN cs
    BY <1>1, <2>1
  <2>3. PICK j \in P : {k \in P : cs[k] = cs[at[a]]} = {j}
    BY <1>1, <2>2
  <2>4. at[a] = at[b]
    BY <2>1, <2>3
  <2>5. a \in Nat /\ b \in Nat /\ at[a] \in Nat
    <3>1. a \in Nat /\ b \in Nat
      BY <1>5
    <3>2. \A x \in P : x \in Nat
      BY <1>1
    <3> QED
      BY <2>1, <3>1, <3>2
  <2>6. ~(a < b) /\ ~(b < a)
    BY <1>9, <2>4, <2>5
  <2> QED
    BY <2>5, <2>6
<1>12. at \in [DOMAIN list -> DOMAIN cs]
  <2>1. \A i \in 1 .. n : at[i] \in DOMAIN cs
    BY <1>1, <1>7
  <2>2. at = [i \in 1 .. n |-> at[i]]
    BY <1>4, <1>5
  <2> QED
    BY <1>5, <2>1, <2>2
<1>13. Agrees(list, cs)
  BY <1>5, <1>6, <1>9, <1>10, <1>11, <1>12 DEF Agrees
<1> QED
  BY <1>13 DEF list, at

(* Whatever the order Go ranges over libcomb's map in, and also if a block *)
(* repeats a commit: without such a fault, the public API lists the        *)
(* commits that the database holds for the block, each once, in block      *)
(* order (api_lib_get_block_commits).                                      *)
THEOREM ListsAreInOrder == Spec => []ListsAgree
<1>1. TypeOK /\ StoreMirrorsLib => ListsAgree
  <2> SUFFICES ASSUME TypeOK, StoreMirrorsLib, main = "run", pc = "ready", damage = 0,
                      NEW h \in CheckpointHeight + 1 .. Height,
                      NEW list \in api_lib_get_block_commits(h)
               PROVE  Agrees(list, db_get_full_block_by_height(Write(batch, store), h).commits)
    BY DEF ListsAgree, Agrees
  <2> DEFINE i == h - CheckpointHeight
  <2> DEFINE cs == lib[i]
  <2>1. lib \in Seq({Commits[b] : b \in Block}) /\ Len(lib) \in Nat
    BY DEF TypeOK
  <2>2. i \in 1 .. Len(lib) /\ i \in DOMAIN lib /\ CheckpointHeight + i = h
    BY <2>1, BlockStoreAssumption DEF Height
  <2>3. Mirrors(Write(batch, store))
    BY DEF StoreMirrorsLib
  <2>4. db_get_full_block_by_height(Write(batch, store), CheckpointHeight + i).commits = lib[i]
    BY <2>2, <2>3, Zenon DEF Mirrors
  <2>5. db_get_full_block_by_height(Write(batch, store), h).commits = cs
    BY <2>2, <2>4
  <2>6. PICK b \in Block : cs = Commits[b]
    BY <2>1, <2>2
  <2>7. Len(cs) \in Nat /\ DOMAIN cs = 1 .. Len(cs)
    BY <2>6, BlockStoreAssumption
  <2>8. PICK P \in raw_commits(cs) :
          list \in {[j \in DOMAIN es |-> cs[Listed(es)[j]]] : es \in SetToSeqs(P)}
    BY DEF api_lib_get_block_commits
  <2>9. PICK es \in SetToSeqs(P) : list = [j \in DOMAIN es |-> cs[Listed(es)[j]]]
    BY <2>8
  <2> HIDE DEF cs
  <2>10. Agrees(list, cs)
    BY <2>7, <2>9, ListAgrees
  <2> QED
    BY <2>5, <2>10
<1> QED
  BY <1>1, TypeCorrect, MirrorsLib, PTL

-------------------------------------------------------------------------------
(* Where a recovery cuts.                                                  *)

(* The block that db_load_blocks sends for the metadata key of height h.   *)
SentFrom(s, h) ==
  [height |-> h, hash |-> s[MetaKey(h)].hash, previous |-> s[MetaKey(h)].previous,
   fingerprint |-> s[MetaKey(h)].fingerprint,
   commits |-> CommitsBetween(s, h, NextHeight(s, h))]

(* What a load has done so far: B are the blocks of the database, sc those *)
(* still to come, ln and lb what was accepted, ld the goroutine's place, c *)
(* the height of the corrupted block, if one was met.                      *)
LoadState(B, ln, lb, sc, ld, c) ==
  /\ sc \subseteq B
  /\ \A n \in DOMAIN ln :
       /\ \E r \in B : /\ r.height = CheckpointHeight + n
                       /\ r.hash = ln[n] /\ r.commits = lb[n]
       /\ \A r \in sc : CheckpointHeight + n < r.height
  /\ ld = "receive" =>
       /\ c = 0
       /\ \A r \in B \ sc : r.hash = Empty \/ r.height - CheckpointHeight \in DOMAIN ln
  /\ c # 0 =>
       /\ \E r \in B : r.height = c
       /\ \A n \in DOMAIN ln : CheckpointHeight + n < c
       /\ \A r \in B : r.height < c =>
            r.hash = Empty \/ r.height - CheckpointHeight \in DOMAIN ln

LoadedInv ==
  main = "load" =>
    LoadState(db_load_blocks(store), line, lib, scan, loader, corruption)

(* When a load has met a corrupted block, the keys from its height upwards *)
(* are exactly what is to be removed: without them readers of the database *)
(* get what libcomb has.                                                   *)
RecoveryLeavesLib ==
  loader = "drain" /\ corruption # 0 =>
    Mirrors(Only(store, DOMAIN store \ KeysAfter(store, corruption)))

(* A metadata key, by its height.                                          *)
LEMMA MetaKeyOf ==
  ASSUME NEW s, DOMAIN s \subseteq Nat \X Nat
  PROVE  /\ Heights(s) \in SUBSET Nat
         /\ \A h : h \in Heights(s) => MetaKey(h) \in DOMAIN s
         /\ \A k \in DOMAIN s : IsMeta(k) => k[1] \in Heights(s)
<1>1. ASSUME NEW h \in Heights(s) PROVE h \in Nat /\ MetaKey(h) \in DOMAIN s
  <2>1. PICK k \in DOMAIN s : IsMeta(k) /\ h = k[1]
    BY DEF Heights
  <2>2. k = <<k[1], k[2]>> /\ k[1] \in Nat
    BY <2>1
  <2>3. k = MetaKey(h)
    BY <2>1, <2>2 DEF IsMeta, MetaKey
  <2> QED
    BY <2>1, <2>2, <2>3
<1>2. \A k \in DOMAIN s : IsMeta(k) => k[1] \in Heights(s)
  BY DEF Heights
<1> QED
  BY <1>1, <1>2

(* The blocks a load is sent are the zero block, and one for each height.  *)
LEMMA SentBlocks ==
  ASSUME Garbage # Empty,
         NEW s, MetadataInv(s), \A k \in DOMAIN s : IsMeta(k) => s[k] # Deleted
  PROVE  /\ \A r \in db_load_blocks(s) : r.height \in Nat
         /\ \A r \in db_load_blocks(s) :
              r.height # 0 \/ r.hash # Empty => r.height \in Heights(s) /\ r = SentFrom(s, r.height)
         /\ \A h \in Heights(s) : /\ SentFrom(s, h) \in db_load_blocks(s)
                                  /\ SentFrom(s, h).height = h
                                  /\ SentFrom(s, h).hash # Empty
<1> DEFINE zero == [height |-> 0, hash |-> Empty, previous |-> Empty,
                    fingerprint |-> db_compute_block_fingerprint(<<>>),
                    commits |-> CommitsBetween(s, 0, Min(Heights(s)))]
<1>1. Heights(s) # {} => db_load_blocks(s) = {zero} \cup {SentFrom(s, h) : h \in Heights(s)}
  BY DEF db_load_blocks, SentFrom
<1>2. Heights(s) = {} => db_load_blocks(s) = {}
  BY DEF db_load_blocks
<1>3. zero.height = 0 /\ zero.hash = Empty
  OBVIOUS
<1>4. \A h : SentFrom(s, h).height = h /\ SentFrom(s, h).hash = s[MetaKey(h)].hash
  BY DEF SentFrom
<1> HIDE DEF zero
<1>5. /\ Heights(s) \in SUBSET Nat
      /\ \A h : h \in Heights(s) => MetaKey(h) \in DOMAIN s
  BY MetaKeyOf DEF MetadataInv
<1>6. ASSUME NEW h \in Heights(s) PROVE SentFrom(s, h).hash # Empty
  <2>1. MetaKey(h) \in DOMAIN s /\ IsMeta(MetaKey(h))
    BY <1>5 DEF IsMeta, MetaKey
  <2>2. PICK b \in Block : s[MetaKey(h)] \in MetadataOf(b)
    BY <2>1 DEF MetadataInv
  <2>3. s[MetaKey(h)].hash \in {b, Garbage}
    BY <2>2 DEF MetadataOf
  <2>4. b # Empty
    BY BlockStoreAssumption
  <2> QED
    BY <1>4, <2>3, <2>4
<1>7. ASSUME NEW r \in db_load_blocks(s)
      PROVE  r = zero \/ \E h \in Heights(s) : r = SentFrom(s, h)
  BY <1>1, <1>2
<1>8. ASSUME NEW r \in db_load_blocks(s) PROVE r.height \in Nat
  BY <1>3, <1>4, <1>5, <1>7
<1>9. ASSUME NEW r \in db_load_blocks(s), r.height # 0 \/ r.hash # Empty
      PROVE  r.height \in Heights(s) /\ r = SentFrom(s, r.height)
  <2>1. PICK h \in Heights(s) : r = SentFrom(s, h)
    BY <1>3, <1>7, <1>9
  <2>2. r.height = h
    BY <1>4, <2>1
  <2> QED
    BY <2>1, <2>2
<1>10. ASSUME NEW h \in Heights(s) PROVE SentFrom(s, h) \in db_load_blocks(s)
  BY <1>1
<1> QED
  BY <1>4, <1>6, <1>8, <1>9, <1>10

(* One block received: refused, dropped or accepted.                       *)
LEMMA LoadBlockLoaded ==
  ASSUME Garbage # Empty, Inv, LoadedInv, LoadBlock
  PROVE  LoadState(db_load_blocks(store), line', lib', scan', loader', corruption')
<1> DEFINE B == db_load_blocks(store)
<1> DEFINE new == First(scan)
<1>1. main = "load" /\ loader = "receive" /\ scan # {} /\ scan' = scan \ {new}
  BY Parts DEF LoadBlock, ControlInv
<1>2. LoadState(B, line, lib, scan, "receive", corruption)
  BY <1>1 DEF LoadedInv
<1>3. /\ \A r \in B : r.height \in Nat
      /\ \A r \in B : r.height # 0 \/ r.hash # Empty => r = SentFrom(store, r.height)
  BY Parts, SentBlocks DEF DiskInv
<1>4. new \in scan /\ \A r \in scan : new.height <= r.height
  <2>1. \A r \in scan : r.height \in Nat
    BY <1>2, <1>3 DEF LoadState
  <2> QED
    BY <1>1, <2>1, FirstIsLeast
<1>5. new \in B /\ new.height \in Nat /\ scan \subseteq B
  BY <1>2, <1>3, <1>4 DEF LoadState
<1>6. /\ Len(lib) = Len(line) /\ Len(line) \in Nat /\ CheckpointHeight \in Nat
      /\ DOMAIN line = 1 .. Len(line) /\ DOMAIN lib = 1 .. Len(line)
      /\ line \in Seq(Block \cup {Garbage}) /\ lib \in Seq({Commits[b] : b \in Block})
  <2>1. Len(lib) = Len(line)
    BY <1>1, Parts DEF LoadInv
  <2> QED
    BY <2>1, Parts DEF Types
<1>7. /\ \A n \in DOMAIN line :
           /\ \E r \in B : /\ r.height = CheckpointHeight + n
                           /\ r.hash = line[n] /\ r.commits = lib[n]
           /\ \A r \in scan : CheckpointHeight + n < r.height
      /\ corruption = 0
      /\ \A r \in B \ scan : r.hash = Empty \/ r.height - CheckpointHeight \in DOMAIN line
  BY <1>2 DEF LoadState
<1> DEFINE fits == new.previous = Tip /\ new.height = Height + 1
<1>8. /\ loader' = IF Mismatch(new) \/ (new.hash # Empty /\ ~fits) THEN "drain" ELSE "receive"
      /\ corruption' = IF Mismatch(new) THEN new.height ELSE corruption
      /\ line' = IF ~Mismatch(new) /\ new.hash # Empty /\ fits
                 THEN Append(line, new.hash) ELSE line
      /\ Mismatch(new) \/ new.hash = Empty => lib' = lib
      /\ ~Mismatch(new) /\ new.hash # Empty /\ fits => lib' = Append(lib, new.commits)
      /\ lib' \in {lib, Append(lib, new.commits)}
  BY DEF LoadBlock
<1> HIDE DEF B, new, fits
<1>9. CASE Mismatch(new)
  <2>1. loader' = "drain" /\ corruption' = new.height /\ line' = line /\ lib' = lib
    BY <1>8, <1>9
  <2>2. scan' \subseteq B /\ scan' \subseteq scan
    BY <1>1, <1>5
  <2>3. ASSUME NEW r \in B, r.height < new.height
        PROVE  r.hash = Empty \/ r.height - CheckpointHeight \in DOMAIN line
    <3>1. r \notin scan
      BY <1>3, <1>4, <1>5, <2>3
    <3> QED
      BY <1>7, <3>1
  <2>4. LoadState(B, line, lib, scan', "drain", new.height)
    BY <1>4, <1>5, <1>7, <2>2, <2>3 DEF LoadState
  <2> QED
    BY <2>1, <2>4 DEF B
<1>10. CASE ~Mismatch(new) /\ new.hash # Empty /\ ~fits
  <2>1. loader' = "drain" /\ corruption' = 0 /\ line' = line
    BY <1>7, <1>8, <1>10
  <2>2. scan' \subseteq B /\ scan' \subseteq scan
    BY <1>1, <1>5
  <2>2a. \A n \in DOMAIN line : lib'[n] = lib[n]
    BY <1>6, <1>8
  <2>3. LoadState(B, line, lib', scan', "drain", 0)
    BY <1>7, <2>2, <2>2a DEF LoadState
  <2> QED
    BY <2>1, <2>3 DEF B
<1>11. CASE ~Mismatch(new) /\ new.hash = Empty
  <2>1. loader' = "receive" /\ corruption' = 0 /\ line' = line /\ lib' = lib
    BY <1>7, <1>8, <1>11
  <2>2. scan' \subseteq B /\ scan' \subseteq scan /\ B \ scan' \subseteq (B \ scan) \cup {new}
    BY <1>1, <1>5
  <2>3. LoadState(B, line, lib, scan', "receive", 0)
    BY <1>7, <1>11, <2>2 DEF LoadState
  <2> QED
    BY <2>1, <2>3 DEF B
<1>12. CASE ~Mismatch(new) /\ new.hash # Empty /\ fits
  <2> DEFINE ln == Append(line, new.hash)
  <2> DEFINE lb == Append(lib, new.commits)
  <2> DEFINE l == Len(line)
  <2>1. loader' = "receive" /\ corruption' = 0 /\ line' = ln /\ lib' = lb
    BY <1>7, <1>8, <1>12
  <2>2. /\ DOMAIN ln = 1 .. l + 1 /\ ln[l + 1] = new.hash /\ lb[l + 1] = new.commits
        /\ \A n \in 1 .. l : ln[n] = line[n] /\ lb[n] = lib[n]
    BY <1>6
  <2>3. new.height = CheckpointHeight + (l + 1)
    BY <1>6, <1>12 DEF fits, Height
  <2> HIDE DEF ln, lb, l
  <2>3a. l \in Nat /\ DOMAIN line = 1 .. l
    BY <1>6 DEF l
  <2>4. scan' \subseteq B /\ scan' \subseteq scan /\ B \ scan' \subseteq (B \ scan) \cup {new}
    BY <1>1, <1>5
  <2>5. ASSUME NEW r \in scan' PROVE new.height < r.height
    <3>1. r \in scan /\ r \in B /\ r # new /\ new.height <= r.height /\ r.height \in Nat
      BY <1>1, <1>3, <1>4, <2>4
    <3>2. CASE r.height = new.height
      <4>1. r.height # 0 /\ new.height # 0
        BY <1>6, <2>3, <2>3a, <3>2
      <4>2. r = SentFrom(store, r.height) /\ new = SentFrom(store, new.height)
        BY <1>3, <1>5, <3>1, <4>1
      <4> QED
        BY <3>1, <3>2, <4>2
    <3> QED
      BY <1>5, <3>1, <3>2
  <2>6. ASSUME NEW n \in DOMAIN ln
        PROVE  /\ \E r \in B : /\ r.height = CheckpointHeight + n
                               /\ r.hash = ln[n] /\ r.commits = lb[n]
               /\ \A r \in scan' : CheckpointHeight + n < r.height
    <3>1. CASE n \in 1 .. l
      <4>1. n \in DOMAIN line /\ ln[n] = line[n] /\ lb[n] = lib[n]
        BY <2>2, <2>3a, <3>1
      <4> QED
        BY <1>7, <2>4, <4>1
    <3>2. CASE n = l + 1
      BY <1>5, <2>2, <2>3, <2>5, <3>2
    <3> QED
      BY <2>2, <2>3a, <3>1, <3>2
  <2>7. ASSUME NEW r \in B \ scan'
        PROVE  r.hash = Empty \/ r.height - CheckpointHeight \in DOMAIN ln
    <3>1. CASE r = new
      <4>1. new.height - CheckpointHeight = l + 1 /\ l + 1 \in 1 .. l + 1
        BY <1>6, <2>3, <2>3a
      <4> QED
        BY <2>2, <3>1, <4>1
    <3>2. CASE r \in B \ scan
      <4>1. DOMAIN line \subseteq DOMAIN ln
        BY <2>2, <2>3a
      <4> QED
        BY <1>7, <3>2, <4>1
    <3> QED
      BY <2>4, <3>1, <3>2
  <2>8. LoadState(B, ln, lb, scan', "receive", 0)
    BY <2>4, <2>6, <2>7 DEF LoadState
  <2> QED
    BY <2>1, <2>8 DEF B
<1> QED
  BY <1>9, <1>10, <1>11, <1>12

(* The keys below height c, and their metadata.                            *)
LEMMA CutKeys ==
  ASSUME NEW s, DOMAIN s \subseteq Nat \X Nat, NEW c \in Nat,
         NEW t, t = Only(s, DOMAIN s \ KeysAfter(s, c))
  PROVE  /\ DOMAIN t \subseteq DOMAIN s
         /\ \A k \in DOMAIN s : k \in DOMAIN t <=> k[1] < c
         /\ \A k \in DOMAIN t : t[k] = s[k]
         /\ Heights(t) = {g \in Heights(s) : g < c}
<1>1. /\ DOMAIN t = DOMAIN s \ KeysAfter(s, c)
      /\ \A k \in DOMAIN t : t[k] = s[k]
  BY DEF Only
<1>2. ASSUME NEW k \in DOMAIN s PROVE k \in DOMAIN t <=> k[1] < c
  <2>1. k[1] \in Nat
    OBVIOUS
  <2>2. k \in DOMAIN t <=> ~(k[1] >= c)
    BY <1>1 DEF KeysAfter
  <2> QED
    BY <2>1, <2>2
<1>3. DOMAIN t \subseteq DOMAIN s
  BY <1>1
<1>4. ASSUME NEW g PROVE g \in Heights(t) <=> g \in Heights(s) /\ g < c
  BY <1>2, <1>3 DEF Heights
<1> QED
  BY <1>1, <1>2, <1>3, <1>4

(* Without the keys from the metadata of height c upwards, a reader gets   *)
(* what it got before of every block below c: also of the last one, whose  *)
(* commits are now those up to the end and were those up to height c.      *)
LEMMA CutReads ==
  ASSUME NEW s, MetadataInv(s), NEW c \in Heights(s), NEW h \in Heights(s), h < c,
         NEW t, t = Only(s, DOMAIN s \ KeysAfter(s, c))
  PROVE  /\ db_get_full_block_by_height(t, h).hash = SentFrom(s, h).hash
         /\ db_get_full_block_by_height(t, h).commits = SentFrom(s, h).commits
<1> DEFINE nexts == NextHeight(s, h)
           nextt == NextHeight(t, h)
           aboves == {g \in Heights(s) : g > h}
           abovet == {g \in Heights(t) : g > h}
           from == {g \in Heights(t) : g >= h}
           K == {k[1] : k \in DOMAIN t}
<1>0. /\ DOMAIN s \subseteq Nat \X Nat /\ Heights(s) \in SUBSET Nat
      /\ c \in Nat /\ h \in Nat /\ MetaKey(h) \in DOMAIN s
  <2>1. DOMAIN s \subseteq Nat \X Nat
    BY DEF MetadataInv
  <2> QED
    BY <2>1, MetaKeyOf
<1>1. /\ DOMAIN t \subseteq DOMAIN s
      /\ \A k \in DOMAIN s : k \in DOMAIN t <=> k[1] < c
      /\ \A k \in DOMAIN t : t[k] = s[k]
      /\ Heights(t) = {g \in Heights(s) : g < c}
  BY <1>0, CutKeys
<1>2. MetaKey(h) \in DOMAIN t
  <2>1. MetaKey(h)[1] = h
    BY DEF MetaKey
  <2> QED
    BY <1>0, <1>1, <2>1
<1>3. Min(from) = h /\ from # {}
  <2>1. h \in from /\ from \in SUBSET Nat /\ \A g \in from : h <= g
    BY <1>0, <1>1
  <2> HIDE DEF from
  <2> QED
    BY <2>1, MinIs
<1>4. /\ nexts \in Heights(s) /\ nexts > h /\ nexts <= c
      /\ \A g \in Heights(s) : g > h => nexts <= g
  <2>1. c \in aboves /\ aboves \in SUBSET Nat
    BY <1>0
  <2>2. nexts = Min(aboves)
    BY <2>1 DEF NextHeight
  <2>3. nexts \in aboves /\ \A g \in aboves : nexts <= g
    <3> HIDE DEF aboves, nexts
    <3> QED
      BY <2>1, <2>2, MinIsLeast
  <2> HIDE DEF nexts
  <2> QED
    BY <2>1, <2>3
<1>5. ASSUME nexts < c
      PROVE  \A k \in DOMAIN s : k \in DOMAIN t /\ k[1] < nextt <=> k[1] < nexts
  <2>1. nexts \in abovet /\ abovet \in SUBSET Nat /\ \A g \in abovet : nexts <= g
    <3> HIDE DEF nexts
    <3> QED
      BY <1>0, <1>1, <1>4, <1>5
  <2>2. nextt = Min(abovet)
    BY <2>1 DEF NextHeight
  <2>3. nextt = nexts
    <3> HIDE DEF abovet, nexts, nextt
    <3> QED
      BY <2>1, <2>2, MinIs
  <2> HIDE DEF nexts, nextt, aboves, abovet, from, K
  <2>4. nexts \in Nat
    BY <1>0, <1>4
  <2>5. ASSUME NEW k \in DOMAIN s PROVE k \in DOMAIN t /\ k[1] < nextt <=> k[1] < nexts
    <3>1. k[1] \in Nat
      BY <1>0
    <3> QED
      BY <1>0, <1>1, <1>5, <2>3, <2>4, <3>1
  <2> QED
    BY <2>5
<1>6. ASSUME nexts = c
      PROVE  \A k \in DOMAIN s : k \in DOMAIN t /\ k[1] < nextt <=> k[1] < nexts
  <2>1. ASSUME NEW g \in abovet PROVE FALSE
    <3>1. g \in Heights(s) /\ g < c /\ g > h
      BY <1>1
    <3>2. c <= g
      BY <1>4, <1>6, <3>1
    <3> QED
      BY <1>0, <3>1, <3>2
  <2>2. nextt = Max(K) + 1
    BY <2>1 DEF NextHeight
  <2>3. K \in SUBSET Nat /\ K # {} /\ \A g \in K : g <= c
    <3>1. ASSUME NEW k \in DOMAIN t PROVE k[1] \in Nat /\ k[1] <= c
      <4>1. k \in DOMAIN s /\ k[1] < c
        BY <1>1
      <4>2. k[1] \in Nat
        BY <1>0, <4>1
      <4> QED
        BY <1>0, <4>1, <4>2
    <3>2. MetaKey(h)[1] \in K
      BY <1>2
    <3> QED
      BY <3>1, <3>2
  <2> HIDE DEF nexts, nextt, aboves, abovet, from, K
  <2>4. Max(K) \in K /\ \A g \in K : Max(K) >= g
    BY <1>0, <2>3, MaxIsGreatest
  <2>5. ASSUME NEW k \in DOMAIN s PROVE k \in DOMAIN t /\ k[1] < nextt <=> k[1] < nexts
    <3>1. k \in DOMAIN t => k[1] \in K
      BY DEF K
    <3>2. k[1] \in Nat /\ Max(K) \in Nat
      BY <1>0, <2>3, <2>4
    <3>3. CASE k \in DOMAIN t
      <4>1. k[1] <= Max(K)
        BY <2>4, <3>1, <3>2, <3>3
      <4>2. k[1] < Max(K) + 1
        BY <3>2, <4>1
      <4> QED
        BY <1>1, <1>6, <2>2, <3>3, <4>2
    <3>4. CASE k \notin DOMAIN t
      BY <1>1, <1>6, <3>4
    <3> QED
      BY <3>3, <3>4
  <2> QED
    BY <2>5
<1>7. \A k \in DOMAIN s : k \in DOMAIN t /\ k[1] < nextt <=> k[1] < nexts
  <2> HIDE DEF nexts, nextt
  <2>1. nexts \in Nat
    BY <1>0, <1>4
  <2>2. nexts < c \/ nexts = c
    BY <1>0, <1>4, <2>1
  <2>3. CASE nexts < c
    BY <1>5, <2>3
  <2>4. CASE nexts = c
    BY <1>6, <2>4
  <2> QED
    BY <2>2, <2>3, <2>4
<1>8. CommitsBetween(t, h, nextt) = CommitsBetween(s, h, nexts)
  <2> DEFINE Ks == {k \in DOMAIN s : ~IsMeta(k) /\ h <= k[1] /\ k[1] < nexts}
             Kt == {k \in DOMAIN t : ~IsMeta(k) /\ h <= k[1] /\ k[1] < nextt}
             ks == InOrder(Ks)
  <2> HIDE DEF nexts, nextt
  <2>1. Kt = Ks
    BY <1>1, <1>7
  <2>2. /\ CommitsBetween(t, h, nextt) = [i \in DOMAIN InOrder(Kt) |-> t[InOrder(Kt)[i]]]
        /\ CommitsBetween(s, h, nexts) = [i \in DOMAIN ks |-> s[ks[i]]]
    BY DEF CommitsBetween
  <2>3. \A i \in DOMAIN ks : ks[i] \in Ks
    <3>1. Ks \in SUBSET (Nat \X Nat) /\ Ks \in SUBSET DOMAIN s
      BY <1>0
    <3>2. IsFiniteSet(Ks)
      <4> HIDE DEF Ks
      <4> QED
        BY <3>1, FS_Subset DEF MetadataInv
    <3> HIDE DEF Ks
    <3>3. Range(ks) = Ks
      BY <3>1, <3>2, InOrderRange
    <3> HIDE DEF ks
    <3> QED
      BY <3>3 DEF Range
  <2>4. \A k \in Ks : t[k] = s[k]
    BY <1>1, <2>1
  <2> HIDE DEF Ks, Kt, ks
  <2> QED
    BY <2>1, <2>2, <2>3, <2>4 DEF ks
<1>9. /\ db_get_full_block_by_height(t, h).hash = t[MetaKey(h)].hash
      /\ db_get_full_block_by_height(t, h).commits = CommitsBetween(t, h, nextt)
  BY <1>3 DEF db_get_full_block_by_height
<1> QED
  BY <1>1, <1>2, <1>8, <1>9 DEF SentFrom

(* The blocks accepted before the corrupted one are the blocks below it.   *)
LEMMA LoadedIsBelow ==
  ASSUME Garbage # Empty, Inv, LoadedInv, loader = "drain", corruption # 0
  PROVE  /\ corruption \in Heights(store)
         /\ {h \in Heights(store) : h < corruption} = CheckpointHeight + 1 .. Height
         /\ DOMAIN lib = DOMAIN line
         /\ \A n \in DOMAIN line :
              /\ CheckpointHeight + n \in Heights(store)
              /\ CheckpointHeight + n < corruption
              /\ SentFrom(store, CheckpointHeight + n).hash = line[n]
              /\ SentFrom(store, CheckpointHeight + n).commits = lib[n]
<1> DEFINE B == db_load_blocks(store)
<1>1. main = "load"
  BY Parts DEF ControlInv
<1>2. /\ \A n \in DOMAIN line :
           /\ \E r \in B : /\ r.height = CheckpointHeight + n
                           /\ r.hash = line[n] /\ r.commits = lib[n]
           /\ CheckpointHeight + n < corruption
      /\ \E r \in B : r.height = corruption
      /\ \A r \in B : r.height < corruption =>
           r.hash = Empty \/ r.height - CheckpointHeight \in DOMAIN line
  BY <1>1 DEF LoadedInv, LoadState
<1>3. /\ \A r \in B : r.height \in Nat
      /\ \A r \in B : r.height # 0 =>
           r.height \in Heights(store) /\ r = SentFrom(store, r.height)
      /\ \A h \in Heights(store) : /\ SentFrom(store, h) \in B
                                   /\ SentFrom(store, h).height = h
                                   /\ SentFrom(store, h).hash # Empty
  BY Parts, SentBlocks DEF DiskInv
<1>4. /\ Len(lib) = Len(line) /\ Len(line) \in Nat /\ CheckpointHeight \in Nat
      /\ DOMAIN line = 1 .. Len(line) /\ DOMAIN lib = 1 .. Len(line)
  <2>1. Len(lib) = Len(line)
    BY <1>1, Parts DEF LoadInv
  <2> QED
    BY <2>1, Parts
<1> HIDE DEF B
<1>5. corruption \in Heights(store)
  BY <1>2, <1>3
<1>6. ASSUME NEW n \in DOMAIN line
      PROVE  /\ CheckpointHeight + n \in Heights(store)
             /\ SentFrom(store, CheckpointHeight + n).hash = line[n]
             /\ SentFrom(store, CheckpointHeight + n).commits = lib[n]
  <2>1. PICK r \in B : /\ r.height = CheckpointHeight + n
                       /\ r.hash = line[n] /\ r.commits = lib[n]
    BY <1>2
  <2>2. CheckpointHeight + n # 0
    BY <1>4
  <2>3. r.height \in Heights(store) /\ r = SentFrom(store, r.height)
    BY <1>3, <2>1, <2>2
  <2> QED
    BY <2>1, <2>3
<1>7. Heights(store) \in SUBSET Nat
  BY Parts, MetaKeyOf
<1>8. ASSUME NEW h \in Heights(store), h < corruption
      PROVE  h \in CheckpointHeight + 1 .. Height
  <2>1. h - CheckpointHeight \in DOMAIN line
    BY <1>2, <1>3, <1>8
  <2>2. h \in Nat
    BY <1>7
  <2> QED
    BY <1>4, <2>1, <2>2 DEF Height
<1>9. ASSUME NEW h \in CheckpointHeight + 1 .. Height
      PROVE  h \in Heights(store) /\ h < corruption
  <2>1. h \in Nat /\ h - CheckpointHeight \in 1 .. Len(line)
    BY <1>4 DEF Height
  <2>2. CheckpointHeight + (h - CheckpointHeight) = h
    BY <1>4, <2>1
  <2>3. h - CheckpointHeight \in DOMAIN line
    BY <1>4, <2>1
  <2> QED
    BY <1>2, <1>6, <2>2, <2>3
<1>10. {h \in Heights(store) : h < corruption} = CheckpointHeight + 1 .. Height
  BY <1>8, <1>9
<1> QED
  BY <1>2, <1>4, <1>5, <1>6, <1>10

(* So the cut leaves what libcomb has.                                     *)
LEMMA CutLeavesLib ==
  ASSUME Garbage # Empty, Inv, LoadedInv
  PROVE  RecoveryLeavesLib
<1> SUFFICES ASSUME loader = "drain", corruption # 0
             PROVE  Mirrors(Only(store, DOMAIN store \ KeysAfter(store, corruption)))
  BY DEF RecoveryLeavesLib
<1> DEFINE t == Only(store, DOMAIN store \ KeysAfter(store, corruption))
<1>1. /\ corruption \in Heights(store)
      /\ {h \in Heights(store) : h < corruption} = CheckpointHeight + 1 .. Height
      /\ DOMAIN lib = DOMAIN line
      /\ \A n \in DOMAIN line :
           /\ CheckpointHeight + n \in Heights(store)
           /\ CheckpointHeight + n < corruption
           /\ SentFrom(store, CheckpointHeight + n).hash = line[n]
           /\ SentFrom(store, CheckpointHeight + n).commits = lib[n]
  BY LoadedIsBelow
<1>2. MetadataInv(store) /\ DOMAIN store \subseteq Nat \X Nat /\ corruption \in Nat
  BY Parts DEF DiskInv, Types
<1>3. t = Only(store, DOMAIN store \ KeysAfter(store, corruption))
  OBVIOUS
<1> HIDE DEF t
<1>4. Heights(t) = CheckpointHeight + 1 .. Height
  BY <1>1, <1>2, <1>3, CutKeys
<1>5. ASSUME NEW i \in DOMAIN lib
      PROVE  /\ db_get_full_block_by_height(t, CheckpointHeight + i).hash = line[i]
             /\ db_get_full_block_by_height(t, CheckpointHeight + i).commits = lib[i]
  <2> DEFINE h == CheckpointHeight + i
  <2>1. /\ h \in Heights(store) /\ h < corruption
        /\ SentFrom(store, h).hash = line[i] /\ SentFrom(store, h).commits = lib[i]
    BY <1>1
  <2> HIDE DEF h
  <2>2. /\ db_get_full_block_by_height(t, h).hash = SentFrom(store, h).hash
        /\ db_get_full_block_by_height(t, h).commits = SentFrom(store, h).commits
    BY <1>1, <1>2, <1>3, <2>1, CutReads
  <2> QED
    BY <2>1, <2>2 DEF h
<1>6. Mirrors(t)
  BY <1>4, <1>5 DEF Mirrors
<1> QED
  BY <1>3, <1>6

(* No load has begun.                                                      *)
LEMMA InitLoaded == Init => LoadedInv
  BY DEF Init, LoadedInv

(* Every step keeps what a load knows of its database.                     *)
LEMMA NextLoaded ==
  ASSUME Garbage # Empty
  PROVE  Inv /\ LoadedInv /\ [Next]_vars => LoadedInv'
<1> SUFFICES ASSUME Inv, LoadedInv, [Next]_vars PROVE LoadedInv'
  OBVIOUS
<1>0. ControlInv /\ main \in {"down", "load", "run"}
  BY Parts DEF Types
<1>1. ASSUME main' = "run" PROVE LoadedInv'
  BY <1>1 DEF LoadedInv
<1>2. CASE Process \/ Flush \/ ReorgFlush
  BY <1>1, <1>2 DEF Process, Flush, ReorgFlush, load
<1>3. CASE ReorgRemove \/ ReorgUnload \/ ReorgStore
  <2>1. main = "run"
    BY <1>0, <1>3 DEF ControlInv, ReorgRemove, ReorgUnload, ReorgStore
  <2> QED
    BY <1>1, <1>3, <2>1 DEF ReorgRemove, ReorgUnload, ReorgStore, load
<1>4. CASE ReorgSpin \/ Sleep \/ UNCHANGED vars
  <2>1. UNCHANGED vars
    BY <1>4 DEF ReorgSpin, Sleep
  <2>2. /\ store' = store /\ line' = line /\ lib' = lib /\ scan' = scan
        /\ main' = main /\ loader' = loader /\ corruption' = corruption
    BY <2>1 DEF vars, memory, load
  <2>3. db_load_blocks(store)' = db_load_blocks(store')
    OBVIOUS
  <2> QED
    BY <2>2 DEF LoadedInv
<1>5. CASE Start
  <2>1. /\ main = "down" /\ loader' = "receive" /\ scan' = db_load_blocks(store)
        /\ store' = store /\ line' = line /\ lib' = lib /\ corruption' = corruption
        /\ main' = "load"
    BY <1>5 DEF Start, memory
  <2>2. line = <<>> /\ lib = <<>> /\ corruption = 0
    BY <1>0, <2>1 DEF ControlInv
  <2>3. ASSUME NEW B PROVE LoadState(B, <<>>, <<>>, B, "receive", 0)
    BY DEF LoadState
  <2> QED
    BY <2>1, <2>2, <2>3 DEF LoadedInv
<1>6. CASE LoadBlock
  <2>1. LoadState(db_load_blocks(store), line', lib', scan', loader', corruption')
    BY <1>6, LoadBlockLoaded
  <2>2. store' = store /\ main' = main /\ main = "load"
    BY <1>0, <1>6 DEF LoadBlock, ControlInv
  <2> QED
    BY <2>1, <2>2 DEF LoadedInv
<1>7. CASE LoadEnd \/ LoadUnlock
  BY <1>1, <1>7 DEF LoadEnd, LoadUnlock
<1>8. CASE LoadDrain
  <2>1. /\ loader = "drain" /\ loader' = loader /\ main' = main /\ scan' \subseteq scan
        /\ store' = store /\ line' = line /\ lib' = lib /\ corruption' = corruption
    BY <1>8 DEF LoadDrain, memory
  <2>2. main = "load"
    BY <1>0, <2>1 DEF ControlInv
  <2>3. LoadState(db_load_blocks(store), line, lib, scan, loader, corruption)
    BY <2>2 DEF LoadedInv
  <2> DEFINE B == db_load_blocks(store)
  <2> HIDE DEF B
  <2>4. LoadState(B, line, lib, scan', loader, corruption)
    BY <2>1, <2>3 DEF LoadState, B
  <2> QED
    BY <2>1, <2>2, <2>4 DEF LoadedInv, B
<1>9. CASE RecoverList \/ RecoverDelete
  <2>1. main # "load" /\ main' = main /\ corruption' = corruption
    BY <1>0, <1>9 DEF ControlInv, RecoverList, RecoverDelete
  <2> QED
    BY <2>1 DEF LoadedInv
<1>10. CASE Die \/ Crash
  BY <1>10 DEF Die, Crash, Halt, LoadedInv
<1>11. CASE Damage
  <2>1. main = "down" /\ main' = main /\ corruption' = corruption
    BY <1>11 DEF Damage, load
  <2> QED
    BY <2>1 DEF LoadedInv
<1> QED
  BY <1>2, <1>3, <1>4, <1>5, <1>6, <1>7, <1>8, <1>9, <1>10, <1>11 DEF Next, db_load

(* Whatever keys were lost or altered, however many of them and however    *)
(* often the process died: what the recovery of a load sets out to remove, *)
(* the keys from corruption_height upwards, is all that the load has not   *)
(* accepted and nothing else (db_load, db_remove_blocks_after).  Damage    *)
(* does not make a hash all zero: such a block is dropped as the zero      *)
(* block is, and its keys are then neither accepted nor removed.           *)
THEOREM RecoveryIsExact ==
  ASSUME Garbage # Empty
  PROVE  Spec => []RecoveryLeavesLib
<1>1. Inv /\ LoadedInv /\ [Next]_vars => LoadedInv'
  BY NextLoaded
<1>2. Inv /\ LoadedInv => RecoveryLeavesLib
  BY CutLeavesLib
<1> QED
  BY <1>1, <1>2, InitLoaded, Invariance, PTL DEF Spec

===============================================================================
