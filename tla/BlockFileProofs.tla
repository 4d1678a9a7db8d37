--------------------------- MODULE BlockFileProofs ---------------------------
(***************************************************************************)
(* Theorems about BlockFile: what direct mining hands on is whole and      *)
(* complete, for every block tree, size of the files and order in which    *)
(* Bitcoin writes its blocks.                                              *)
(***************************************************************************)
EXTENDS BlockFile, FiniteSetTheorems, WellFoundedInduction, TLAPS

USE BlockFileAssumption

(* Induction, over a set: the numbers that have the property.              *)
LEMMA InductionOverSet ==
  ASSUME NEW T \in SUBSET Nat, 0 \in T, \A n \in T : n + 1 \in T
  PROVE  T = Nat
<1> SUFFICES ASSUME Nat \ T # {} PROVE FALSE
  OBVIOUS
<1>1. PICK x \in Nat \ T : \A y \in Nat \ T : ~(<<y, x>> \in OpToRel(<, Nat))
  BY NatLessThanWellFounded, WFMin, Zenon
<1>2. x # 0 /\ x - 1 \in Nat /\ x - 1 < x /\ (x - 1) + 1 = x
  OBVIOUS
<1>3. x - 1 \in T
  BY <1>1, <1>2 DEF OpToRel
<1>4. (x - 1) + 1 \in T
  BY <1>3
<1> QED
  BY <1>1, <1>2, <1>4

-------------------------------------------------------------------------------
(* direct_trace_chain.                                                     *)

(* One turn of its loop: the traced blocks p, and the one before them.     *)
Extended(bs, known, h, p) ==
  LET x == IF p = <<>> THEN h ELSE Prev[p[1]]
  IN  IF x \in DOMAIN bs /\ (p = <<>> \/ x \notin known) THEN <<x>> \o p ELSE p

(* f[n] is what m turns or fewer have traced.                              *)
IsWalk(f, m, bs, known, h) ==
  f = [n \in 0 .. m |-> IF n = 0 THEN <<>> ELSE Extended(bs, known, h, f[n - 1])]

(* The recursive function of direct_trace_chain exists.                    *)
LEMMA WalkExists ==
  ASSUME NEW bs, NEW known, NEW h, NEW m \in Nat
  PROVE  \E f : IsWalk(f, m, bs, known, h)
<1> DEFINE T == {n \in Nat : \E f : IsWalk(f, n, bs, known, h)}
<1>1. 0 \in T
  <2>1. IsWalk([n \in 0 .. 0 |-> <<>>], 0, bs, known, h)
    BY DEF IsWalk
  <2> QED
    BY <2>1
<1>2. ASSUME NEW k \in T PROVE k + 1 \in T
  <2>1. PICK f : IsWalk(f, k, bs, known, h)
    OBVIOUS
  <2> DEFINE E(p) == Extended(bs, known, h, p)
             g == [n \in 0 .. k + 1 |-> IF n = 0 THEN <<>> ELSE E(f[n - 1])]
  <2>2. f = [n \in 0 .. k |-> IF n = 0 THEN <<>> ELSE E(f[n - 1])]
    BY <2>1 DEF IsWalk
  <2>3. k \in Nat
    OBVIOUS
  <2> HIDE DEF E
  <2>4. \A n \in 0 .. k : f[n] = IF n = 0 THEN <<>> ELSE E(f[n - 1])
    BY <2>2, Zenon
  <2>5. \A n \in 0 .. k : g[n] = f[n]
    BY <2>3, <2>4
  <2>6. ASSUME NEW n \in 0 .. k + 1, n # 0 PROVE E(g[n - 1]) = E(f[n - 1])
    <3> HIDE DEF g
    <3>1. n - 1 \in 0 .. k
      BY <2>3, <2>6
    <3> QED
      BY <2>5, <3>1
  <2>7. g = [n \in 0 .. k + 1 |-> IF n = 0 THEN <<>> ELSE E(g[n - 1])]
    BY <2>6
  <2> HIDE DEF g
  <2>8. IsWalk(g, k + 1, bs, known, h)
    BY <2>7 DEF IsWalk, E
  <2> QED
    BY <2>3, <2>8
<1> HIDE DEF T
<1>3. T \in SUBSET Nat
  BY DEF T
<1>4. T = Nat
  BY <1>1, <1>2, <1>3, InductionOverSet
<1> QED
  BY <1>4 DEF T

(* direct_trace_chain returns the last turn's blocks if they begin at the  *)
(* child of a known block.                                                 *)
LEMMA TraceIsWalk ==
  ASSUME NEW bs, NEW known, NEW h
  PROVE  \E f :
           /\ IsWalk(f, Cardinality(Block), bs, known, h)
           /\ LET all == f[Cardinality(Block)]
              IN  direct_trace_chain(bs, known, h) =
                    IF all # <<>> /\ Prev[all[1]] \in known THEN all ELSE <<>>
<1> DEFINE f == CHOOSE g : IsWalk(g, Cardinality(Block), bs, known, h)
<1>1. Cardinality(Block) \in Nat
  BY FS_CardinalityType
<1>2. IsWalk(f, Cardinality(Block), bs, known, h)
  BY <1>1, WalkExists, Zenon
<1>3. LET all == f[Cardinality(Block)]
      IN  direct_trace_chain(bs, known, h) =
            IF all # <<>> /\ Prev[all[1]] \in known THEN all ELSE <<>>
  BY DEF direct_trace_chain, IsWalk, Extended
<1> QED
  BY <1>2, <1>3

(* The traced blocks p lead up to h, inside S, upwards in rank.            *)
Traced(p, S, rank, bs, h) ==
  /\ p \in Seq(Block)
  /\ \A i \in 1 .. Len(p) : p[i] \in S \ {Known} /\ p[i] \in DOMAIN bs
  /\ p # <<>> => p[Len(p)] = h
  /\ \A i \in 2 .. Len(p) : Prev[p[i]] = p[i - 1]
  /\ \A i, j \in 1 .. Len(p) : i < j => rank[p[i]] < rank[p[j]]

(* A turn adds at most one block, in front.                                *)
LEMMA TurnTraces ==
  ASSUME NEW S, S \subseteq Block \cup {Known}, NEW rank \in [S -> Nat],
         \A b \in S \ {Known} : Prev[b] \in S /\ rank[Prev[b]] < rank[b],
         NEW bs, NEW known, Known \in known, NEW h \in S \ {Known},
         NEW p, Traced(p, S, rank, bs, h)
  PROVE  Traced(Extended(bs, known, h, p), S, rank, bs, h)
<1> DEFINE x == IF p = <<>> THEN h ELSE Prev[p[1]]
           q == <<x>> \o p
<1>1. Extended(bs, known, h, p) =
        IF x \in DOMAIN bs /\ (p = <<>> \/ x \notin known) THEN q ELSE p
  BY DEF Extended
<1>2. CASE ~(x \in DOMAIN bs /\ (p = <<>> \/ x \notin known))
  BY <1>1, <1>2, Zenon
<1>3. CASE x \in DOMAIN bs /\ (p = <<>> \/ x \notin known)
  <2>1. p \in Seq(Block) /\ Len(p) \in Nat
    BY DEF Traced
  <2>2. p # <<>> => Len(p) > 0 /\ 1 \in 1 .. Len(p)
    BY <2>1
  <2>3. x \in S \ {Known} /\ (p # <<>> => rank[x] < rank[p[1]])
    <3>1. CASE p = <<>>
      BY <3>1
    <3>2. CASE p # <<>>
      <4>1. p[1] \in S \ {Known}
        BY <2>2, <3>2 DEF Traced
      <4>2. x = Prev[p[1]] /\ x \notin known
        BY <1>3, <3>2
      <4> QED
        BY <4>1, <4>2
    <3> QED
      BY <3>1, <3>2
  <2> HIDE DEF x
  <2>4. x \in Block
    BY <2>3
  <2>5. /\ q \in Seq(Block) /\ Len(q) = Len(p) + 1 /\ q[1] = x
        /\ \A i \in 2 .. Len(p) + 1 : q[i] = p[i - 1]
    BY <2>1, <2>4
  <2> HIDE DEF q
  <2>6. \A i \in 2 .. Len(q) : i - 1 \in 1 .. Len(p) /\ q[i] = p[i - 1]
    BY <2>1, <2>5
  <2>7. \A i \in 1 .. Len(q) : i = 1 \/ i \in 2 .. Len(q)
    BY <2>1, <2>5
  <2>8. \A i \in 1 .. Len(q) : q[i] \in S \ {Known} /\ q[i] \in DOMAIN bs
    <3> SUFFICES ASSUME NEW i \in 1 .. Len(q)
                 PROVE  q[i] \in S \ {Known} /\ q[i] \in DOMAIN bs
      OBVIOUS
    <3>1. CASE i = 1
      BY <1>3, <2>3, <2>5, <3>1
    <3>2. CASE i \in 2 .. Len(q)
      BY <2>6, <3>2 DEF Traced
    <3> QED
      BY <2>7, <3>1, <3>2
  <2>9. q[Len(q)] = h
    <3>1. CASE p = <<>>
      <4>1. x = h
        BY <3>1 DEF x
      <4>2. Len(q) = 1
        BY <2>5, <3>1
      <4> QED
        BY <2>5, <4>1, <4>2
    <3>2. CASE p # <<>>
      <4>1. p[Len(p)] = h
        BY <3>2 DEF Traced
      <4>2. Len(q) \in 2 .. Len(q) /\ Len(q) - 1 = Len(p)
        BY <2>1, <2>2, <2>5, <3>2
      <4> QED
        BY <2>6, <4>1, <4>2
    <3> QED
      BY <3>1, <3>2
  <2>10. \A i \in 2 .. Len(q) : Prev[q[i]] = q[i - 1]
    <3> SUFFICES ASSUME NEW i \in 2 .. Len(q) PROVE Prev[q[i]] = q[i - 1]
      OBVIOUS
    <3>1. q[i] = p[i - 1] /\ i - 1 \in 1 .. Len(p)
      BY <2>6
    <3>2. CASE i = 2
      <4>1. p # <<>>
        BY <3>1, <3>2
      <4>2. Prev[p[1]] = x
        BY <4>1 DEF x
      <4> QED
        BY <2>5, <3>1, <3>2, <4>2
    <3>3. CASE i # 2
      <4>1. i - 1 \in 2 .. Len(q) /\ i - 1 \in 2 .. Len(p)
        BY <2>1, <2>5, <3>3
      <4>2. q[i - 1] = p[(i - 1) - 1]
        BY <2>6, <4>1
      <4>3. Prev[p[i - 1]] = p[(i - 1) - 1]
        BY <4>1 DEF Traced
      <4> QED
        BY <3>1, <4>2, <4>3
    <3> QED
      BY <3>2, <3>3
  <2>11. \A i, j \in 1 .. Len(q) : i < j => rank[q[i]] < rank[q[j]]
    <3> SUFFICES ASSUME NEW i \in 1 .. Len(q), NEW j \in 1 .. Len(q), i < j
                 PROVE  rank[q[i]] < rank[q[j]]
      OBVIOUS
    <3>1. j \in 2 .. Len(q)
      BY <2>1, <2>5
    <3>2. q[j] = p[j - 1] /\ j - 1 \in 1 .. Len(p)
      BY <2>6, <3>1
    <3>3. CASE i = 1
      <4>1. p # <<>> /\ 1 \in 1 .. Len(p)
        BY <2>1, <3>2
      <4>2. rank[x] < rank[p[1]]
        BY <2>3, <4>1
      <4>3. j - 1 = 1 \/ 1 < j - 1
        BY <3>2
      <4>4. j - 1 = 1 \/ rank[p[1]] < rank[p[j - 1]]
        BY <3>2, <4>1, <4>3 DEF Traced
      <4>5. rank[x] \in Nat /\ rank[p[1]] \in Nat /\ rank[p[j - 1]] \in Nat
        BY <2>3, <3>2, <4>1 DEF Traced
      <4>6. rank[x] < rank[p[j - 1]]
        BY <4>2, <4>4, <4>5
      <4> QED
        BY <2>5, <3>2, <3>3, <4>6
    <3>4. CASE i \in 2 .. Len(q)
      <4>1. q[i] = p[i - 1] /\ i - 1 \in 1 .. Len(p)
        BY <2>6, <3>4
      <4>2. i - 1 < j - 1
        BY <2>1, <2>5
      <4> QED
        BY <3>2, <4>1, <4>2 DEF Traced
    <3> QED
      BY <2>7, <3>3, <3>4
  <2>12. Traced(q, S, rank, bs, h)
    BY <2>5, <2>8, <2>9, <2>10, <2>11 DEF Traced
  <2> QED
    BY <1>1, <1>3, <2>12, Zenon
<1> QED
  BY <1>2, <1>3

(* After n turns: n blocks, unless the trace is complete or lacks a block. *)
Progress(p, n, S, bs, known) ==
  S \ {Known} \subseteq DOMAIN bs =>
    \/ n = 0 /\ p = <<>>
    \/ p # <<>> /\ Prev[p[1]] \in known
    \/ n > 0 /\ Len(p) = n

(* A turn of a trace that lacks no block adds one or has ended.            *)
LEMMA TurnProgresses ==
  ASSUME NEW S, S \subseteq Block \cup {Known}, NEW rank \in [S -> Nat],
         \A b \in S \ {Known} : Prev[b] \in S /\ rank[Prev[b]] < rank[b],
         NEW bs, NEW known, Known \in known, NEW h \in S \ {Known},
         NEW p, Traced(p, S, rank, bs, h),
         NEW n \in Nat, Progress(p, n, S, bs, known)
  PROVE  Progress(Extended(bs, known, h, p), n + 1, S, bs, known)
<1> SUFFICES ASSUME S \ {Known} \subseteq DOMAIN bs
             PROVE  LET q == Extended(bs, known, h, p)
                    IN  \/ q # <<>> /\ Prev[q[1]] \in known
                        \/ Len(q) = n + 1
  BY DEF Progress
<1> DEFINE x == IF p = <<>> THEN h ELSE Prev[p[1]]
           q == <<x>> \o p
<1>1. Extended(bs, known, h, p) =
        IF x \in DOMAIN bs /\ (p = <<>> \/ x \notin known) THEN q ELSE p
  BY DEF Extended
<1>2. p \in Seq(Block)
  BY DEF Traced
<1>3. CASE p = <<>>
  <2>1. n = 0
    BY <1>3 DEF Progress
  <2>2. Extended(bs, known, h, p) = <<h>>
    BY <1>1, <1>3
  <2> QED
    BY <2>1, <2>2
<1>4. CASE p # <<>> /\ Prev[p[1]] \in known
  BY <1>1, <1>4
<1>5. CASE p # <<>> /\ Prev[p[1]] \notin known
  <2>1. Len(p) = n
    BY <1>5 DEF Progress
  <2>2. 1 \in 1 .. Len(p)
    BY <1>2, <1>5
  <2>3. p[1] \in S \ {Known}
    BY <2>2 DEF Traced
  <2>4. x \in S \ {Known} /\ x = Prev[p[1]]
    BY <1>5, <2>3
  <2>5. Extended(bs, known, h, p) = q
    BY <1>1, <1>5, <2>4
  <2>6. x \in Block
    BY <2>4
  <2> HIDE DEF x
  <2>7. Len(q) = Len(p) + 1
    BY <1>2, <2>6
  <2> QED
    BY <2>1, <2>5, <2>7
<1> QED
  BY <1>3, <1>4, <1>5

(* Every turn traces.                                                      *)
LEMMA WalkTraces ==
  ASSUME NEW S, S \subseteq Block \cup {Known}, NEW rank \in [S -> Nat],
         \A b \in S \ {Known} : Prev[b] \in S /\ rank[Prev[b]] < rank[b],
         NEW bs, NEW known, Known \in known, NEW h \in S \ {Known},
         NEW m \in Nat, NEW f, IsWalk(f, m, bs, known, h)
  PROVE  Traced(f[m], S, rank, bs, h) /\ Progress(f[m], m, S, bs, known)
<1> DEFINE P(n) == Traced(f[n], S, rank, bs, h) /\ Progress(f[n], n, S, bs, known)
           T == {n \in Nat : n <= m => P(n)}
<1>1. f[0] = <<>> /\ \A n \in 0 .. m : n # 0 => f[n] = Extended(bs, known, h, f[n - 1])
  <2> DEFINE E(p) == Extended(bs, known, h, p)
  <2> HIDE DEF E
  <2>1. f = [n \in 0 .. m |-> IF n = 0 THEN <<>> ELSE E(f[n - 1])]
    BY DEF IsWalk, E
  <2>2. \A n \in 0 .. m : f[n] = IF n = 0 THEN <<>> ELSE E(f[n - 1])
    BY <2>1, Zenon
  <2> QED
    BY <2>2 DEF E
<1>2. 0 \in T
  <2>1. Traced(<<>>, S, rank, bs, h)
    BY DEF Traced
  <2>2. Progress(<<>>, 0, S, bs, known)
    BY DEF Progress
  <2> QED
    BY <1>1, <2>1, <2>2
<1>3. ASSUME NEW n \in T PROVE n + 1 \in T
  <2> SUFFICES ASSUME n + 1 <= m PROVE P(n + 1)
    OBVIOUS
  <2>1. n \in Nat /\ n + 1 \in 0 .. m /\ n + 1 # 0 /\ (n + 1) - 1 = n /\ n <= m
    OBVIOUS
  <2>2. P(n)
    BY <2>1
  <2>3. f[n + 1] = Extended(bs, known, h, f[n])
    BY <1>1, <2>1
  <2>4. Traced(Extended(bs, known, h, f[n]), S, rank, bs, h)
    BY <2>2, TurnTraces
  <2>5. Progress(Extended(bs, known, h, f[n]), n + 1, S, bs, known)
    BY <2>1, <2>2, TurnProgresses
  <2> QED
    BY <2>3, <2>4, <2>5
<1> HIDE DEF P
<1>4. T \in SUBSET Nat
  OBVIOUS
<1>5. T = Nat
  <2> HIDE DEF T
  <2> QED
    BY <1>2, <1>3, <1>4, InductionOverSet
<1>6. P(m)
  BY <1>5
<1> QED
  BY <1>6 DEF P

(* p is a chain up to h, of blocks of S that were read, above a known one. *)
LeadsUp(p, S, bs, known, h) ==
  /\ p \in Seq(Block) /\ p[Len(p)] = h /\ Prev[p[1]] \in known
  /\ \A i \in 2 .. Len(p) : Prev[p[i]] = p[i - 1]
  /\ \A i \in 1 .. Len(p) : p[i] \in S \ {Known} /\ p[i] \in DOMAIN bs

(* direct_trace_chain for a block h of a grounded set S: what it returns   *)
(* leads up to h, and it returns something if all of S was read.  A trace  *)
(* of as many blocks as there are would otherwise leave one block for two  *)
(* places.                                                                 *)
LEMMA TraceLeadsUp ==
  ASSUME NEW S, Grounded(S), NEW bs, NEW known, Known \in known,
         NEW h, h \in S \ {Known}, NEW p, p = direct_trace_chain(bs, known, h)
  PROVE  /\ p # <<>> => LeadsUp(p, S, bs, known, h)
         /\ S \ {Known} \subseteq DOMAIN bs => p # <<>>
<1> DEFINE N == Cardinality(Block)
<1>1. PICK rank \in [S -> Nat] :
        \A b \in S \ {Known} : Prev[b] \in S /\ rank[Prev[b]] < rank[b]
  BY DEF Grounded
<1>2. S \subseteq Block \cup {Known}
  BY DEF Grounded
<1>3. PICK f : /\ IsWalk(f, N, bs, known, h)
               /\ p = IF f[N] # <<>> /\ Prev[f[N][1]] \in known THEN f[N] ELSE <<>>
  BY TraceIsWalk
<1>4. N \in Nat
  BY FS_CardinalityType
<1> HIDE DEF N
<1>5. Traced(f[N], S, rank, bs, h) /\ Progress(f[N], N, S, bs, known)
  BY <1>1, <1>2, <1>3, <1>4, WalkTraces
<1>6. ASSUME p # <<>> PROVE LeadsUp(p, S, bs, known, h)
  <2>1. p = f[N] /\ Prev[p[1]] \in known
    BY <1>3, <1>6, Zenon
  <2> QED
    BY <1>5, <1>6, <2>1, Zenon DEF Traced, LeadsUp
<1>7. ASSUME S \ {Known} \subseteq DOMAIN bs PROVE p # <<>>
  <2> DEFINE q == f[N]
  <2>1. N # 0
    <3>1. h \in Block
      BY <1>2
    <3> QED
      BY <3>1, FS_EmptySet DEF N
  <2>2. \/ q # <<>> /\ Prev[q[1]] \in known
        \/ N > 0 /\ Len(q) = N
    BY <1>5, <1>7, <2>1 DEF Progress
  <2>3. q \in Seq(Block)
    BY <1>5 DEF Traced
  <2> HIDE DEF q
  <2>4. CASE q # <<>> /\ Prev[q[1]] \in known
    BY <1>3, <2>4, Zenon DEF q
  <2>5. CASE N > 0 /\ Len(q) = N /\ Prev[q[1]] \notin known
    <3> DEFINE x == Prev[q[1]]
    <3>1. 1 \in 1 .. Len(q)
      BY <1>4, <2>5
    <3>2. q[1] \in S \ {Known}
      BY <1>5, <3>1 DEF Traced, q
    <3>3. x \in S \ {Known} /\ rank[x] < rank[q[1]]
      BY <1>1, <2>5, <3>2
    <3>4. x \in Block
      BY <1>2, <3>3
    <3> HIDE DEF x
    <3>5. \A i \in 1 .. N : q[i] \in S /\ rank[q[i]] \in Nat
      BY <1>1, <1>5, <2>5 DEF Traced, q
    <3>6. \A i, j \in 1 .. N : i < j => rank[q[i]] < rank[q[j]]
      BY <1>5, <2>5 DEF Traced, q
    <3>7. ASSUME NEW i \in 1 .. N PROVE q[i] # x
      <4>1. i = 1 \/ 1 < i
        BY <1>4
      <4>2. rank[q[1]] <= rank[q[i]]
        <5>1. 1 \in 1 .. N
          BY <1>4
        <5>2. CASE i = 1
          BY <3>5, <5>2
        <5>3. CASE 1 < i
          BY <3>5, <3>6, <5>1, <5>3
        <5> QED
          BY <4>1, <5>2, <5>3
      <4>3. rank[x] \in Nat /\ rank[q[1]] \in Nat /\ rank[q[i]] \in Nat
        BY <1>1, <2>5, <3>1, <3>3, <3>5
      <4>4. rank[x] < rank[q[i]]
        BY <3>3, <4>2, <4>3
      <4> QED
        BY <4>3, <4>4
    <3>8. q \in [1 .. N -> Block \ {x}]
      <4>1. q \in [1 .. N -> Block]
        BY <2>3, <2>5
      <4> QED
        BY <3>7, <4>1
    <3>9. /\ IsFiniteSet(1 .. N) /\ Cardinality(1 .. N) = N
      BY <1>4, <2>5, FS_Interval
    <3>10. IsFiniteSet(Block \ {x}) /\ Cardinality(Block \ {x}) = N - 1
      BY <3>4, FS_RemoveElement DEF N
    <3>11. Cardinality(Block \ {x}) < Cardinality(1 .. N)
      BY <1>4, <3>9, <3>10
    <3>12. PICK i, j \in 1 .. N : i # j /\ q[i] = q[j]
      <4> DEFINE A == 1 .. N
                 B == Block \ {x}
      <4>1. /\ IsFiniteSet(A) /\ IsFiniteSet(B) /\ Cardinality(B) < Cardinality(A)
            /\ q \in [A -> B]
        BY <3>8, <3>9, <3>10, <3>11
      <4> HIDE DEF A, B
      <4>2. \E i, j \in A : i # j /\ q[i] = q[j]
        BY <4>1, FS_PigeonHole
      <4> QED
        BY <4>2 DEF A
    <3>13. i < j \/ j < i
      BY <1>4, <3>12
    <3>14. rank[q[i]] < rank[q[j]] \/ rank[q[j]] < rank[q[i]]
      BY <3>6, <3>13
    <3>15. rank[q[i]] \in Nat /\ rank[q[i]] = rank[q[j]]
      BY <3>5, <3>12
    <3> QED
      BY <3>14, <3>15
  <2> QED
    BY <2>2, <2>4, <2>5
<1> QED
  BY <1>6, <1>7

-------------------------------------------------------------------------------
(* What Bitcoin does to the files.                                         *)

(* The record of a block that is whole.                                    *)
Whole(b) == [block |-> b, part |-> "whole"]

(* The files from one state to the next: no block gets a second record,    *)
(* and what is whole stays where it is.                                    *)
FilesGrow ==
  /\ FilesInv'
  /\ Len(files') \in Nat /\ Len(files) <= Len(files')
  /\ \A b : \A i \in 1 .. Len(files) :
       Whole(b) \in Range(files[i]) => Whole(b) \in Range(files'[i])

(* A new record goes to the end of the newest file or into a new file.     *)
LEMMA BeginGrows ==
  ASSUME FilesInv, BeginRecord PROVE FilesGrow
<1>1. PICK b \in Block \ OnDisk :
        LET r == [block |-> b, part |-> "size"]
        IN  files' = IF files = <<>> \/ Len(files[Newest]) = FileCapacity
                     THEN Append(files, <<r>>)
                     ELSE [files EXCEPT ![Newest] = Append(@, r)]
  BY DEF BeginRecord
<1> DEFINE r == [block |-> b, part |-> "size"]
<1>2. files \in Seq(Seq(Record)) /\ Len(files) \in Nat /\ DOMAIN files = 1 .. Len(files)
  BY DEF FilesInv
<1>3. r \in Record /\ r.block = b /\ r.part = "size"
  BY DEF Record
<1> HIDE DEF r
<1>4. \A i \in DOMAIN files : files[i] \in Seq(Record) /\ Len(files[i]) \in Nat
                              /\ DOMAIN files[i] = 1 .. Len(files[i])
  BY <1>2
<1>5. \A i \in DOMAIN files : \A k \in DOMAIN files[i] : files[i][k].block # b
  <2> SUFFICES ASSUME NEW i \in DOMAIN files, NEW k \in DOMAIN files[i]
               PROVE  files[i][k].block \in OnDisk
    BY <1>1
  <2>1. files[i] \in Range(files)
    BY DEF Range
  <2> QED
    BY <2>1 DEF OnDisk
<1>6. \E n \in Nat, m \in Nat :
        /\ files' \in Seq(Seq(Record)) /\ Len(files') \in Nat /\ Len(files) <= Len(files')
        /\ \A i \in DOMAIN files' : \A k \in DOMAIN files'[i] :
             \/ i = n /\ k = m /\ files'[i][k] = r
             \/ i \in DOMAIN files /\ k \in DOMAIN files[i] /\ files'[i][k] = files[i][k]
        /\ \A i \in DOMAIN files : \A k \in DOMAIN files[i] :
             k \in DOMAIN files'[i] /\ files'[i][k] = files[i][k]
  <2>1. CASE files = <<>> \/ Len(files[Newest]) = FileCapacity
    <3>1. files' = Append(files, <<r>>)
      BY <1>1, <2>1 DEF r
    <3>2. <<r>> \in Seq(Record) /\ DOMAIN <<r>> = {1} /\ <<r>>[1] = r
      BY <1>3
    <3> DEFINE s == <<r>>
    <3> HIDE DEF s
    <3>3. /\ files' \in Seq(Seq(Record)) /\ Len(files') = Len(files) + 1
          /\ DOMAIN files' = 1 .. Len(files) + 1
          /\ files'[Len(files) + 1] = s
          /\ \A i \in 1 .. Len(files) : files'[i] = files[i]
      BY <1>2, <3>1, <3>2 DEF s
    <3>4. ASSUME NEW i \in DOMAIN files', NEW k \in DOMAIN files'[i]
          PROVE  \/ i = Len(files) + 1 /\ k = 1 /\ files'[i][k] = r
                 \/ i \in DOMAIN files /\ k \in DOMAIN files[i] /\ files'[i][k] = files[i][k]
      <4>1. i = Len(files) + 1 \/ i \in DOMAIN files
        BY <1>2, <3>3
      <4>2. CASE i = Len(files) + 1
        BY <3>2, <3>3, <4>2 DEF s
      <4>3. CASE i \in DOMAIN files
        BY <1>2, <3>3, <4>3
      <4> QED
        BY <4>1, <4>2, <4>3
    <3>5. \A i \in DOMAIN files : \A k \in DOMAIN files[i] :
             k \in DOMAIN files'[i] /\ files'[i][k] = files[i][k]
      BY <1>2, <3>3
    <3>6. Len(files) + 1 \in Nat /\ 1 \in Nat /\ Len(files) <= Len(files')
      BY <1>2, <3>3
    <3> QED
      BY <1>2, <3>3, <3>4, <3>5, <3>6
  <2>2. CASE ~(files = <<>> \/ Len(files[Newest]) = FileCapacity)
    <3> DEFINE n == Len(files)
               g == files[n]
               s == Append(g, r)
    <3>1. n \in DOMAIN files /\ n \in Nat
      BY <1>2, <2>2
    <3>2. g \in Seq(Record) /\ Len(g) \in Nat /\ DOMAIN g = 1 .. Len(g)
      BY <1>4, <3>1
    <3>3. files' = [files EXCEPT ![n] = s]
      BY <1>1, <2>2 DEF r, Newest
    <3> HIDE DEF g
    <3>4. /\ s \in Seq(Record) /\ DOMAIN s = 1 .. Len(g) + 1 /\ s[Len(g) + 1] = r
          /\ \A k \in 1 .. Len(g) : s[k] = g[k]
      BY <1>3, <3>2
    <3> HIDE DEF s
    <3>5. /\ files' \in Seq(Seq(Record)) /\ Len(files') = n /\ DOMAIN files' = DOMAIN files
          /\ files'[n] = s
          /\ \A i \in DOMAIN files : i # n => files'[i] = files[i]
      BY <1>2, <3>1, <3>3, <3>4
    <3>6. ASSUME NEW i \in DOMAIN files', NEW k \in DOMAIN files'[i]
          PROVE  \/ i = n /\ k = Len(g) + 1 /\ files'[i][k] = r
                 \/ i \in DOMAIN files /\ k \in DOMAIN files[i] /\ files'[i][k] = files[i][k]
      <4>1. CASE i = n
        <5>1. k = Len(g) + 1 \/ k \in DOMAIN g
          BY <3>2, <3>4, <3>5, <4>1
        <5> QED
          BY <3>1, <3>2, <3>4, <3>5, <4>1, <5>1 DEF g
      <4>2. CASE i # n
        BY <3>5, <4>2
      <4> QED
        BY <4>1, <4>2
    <3>7. ASSUME NEW i \in DOMAIN files, NEW k \in DOMAIN files[i]
          PROVE  k \in DOMAIN files'[i] /\ files'[i][k] = files[i][k]
      <4>1. CASE i = n
        BY <3>2, <3>4, <3>5, <4>1 DEF g
      <4>2. CASE i # n
        BY <3>5, <4>2
      <4> QED
        BY <4>1, <4>2
    <3>8. Len(g) + 1 \in Nat /\ Len(files) <= Len(files') /\ Len(files') \in Nat
      BY <3>1, <3>2, <3>5
    <3> QED
      BY <3>1, <3>5, <3>6, <3>7, <3>8
  <2> QED
    BY <2>1, <2>2
<1>7. PICK n \in Nat, m \in Nat :
        /\ files' \in Seq(Seq(Record)) /\ Len(files') \in Nat /\ Len(files) <= Len(files')
        /\ \A i \in DOMAIN files' : \A k \in DOMAIN files'[i] :
             \/ i = n /\ k = m /\ files'[i][k] = r
             \/ i \in DOMAIN files /\ k \in DOMAIN files[i] /\ files'[i][k] = files[i][k]
        /\ \A i \in DOMAIN files : \A k \in DOMAIN files[i] :
             k \in DOMAIN files'[i] /\ files'[i][k] = files[i][k]
  BY <1>6, Zenon
<1>8. FilesInv'
  <2> SUFFICES ASSUME NEW i \in DOMAIN files', NEW j \in DOMAIN files',
                      NEW k \in DOMAIN files'[i], NEW l \in DOMAIN files'[j],
                      files'[i][k].block = files'[j][l].block
               PROVE  i = j /\ k = l
    BY <1>7 DEF FilesInv
  <2>1. \/ i = n /\ k = m /\ files'[i][k] = r
        \/ i \in DOMAIN files /\ k \in DOMAIN files[i] /\ files'[i][k] = files[i][k]
    BY <1>7
  <2>2. \/ j = n /\ l = m /\ files'[j][l] = r
        \/ j \in DOMAIN files /\ l \in DOMAIN files[j] /\ files'[j][l] = files[j][l]
    BY <1>7
  <2> QED
    BY <1>3, <1>5, <2>1, <2>2 DEF FilesInv
<1>9. ASSUME NEW c, NEW i \in 1 .. Len(files), Whole(c) \in Range(files[i])
      PROVE  Whole(c) \in Range(files'[i])
  <2>1. PICK k \in DOMAIN files[i] : files[i][k] = Whole(c)
    BY <1>9 DEF Range
  <2>2. k \in DOMAIN files'[i] /\ files'[i][k] = Whole(c)
    BY <1>2, <1>7, <2>1
  <2> QED
    BY <2>2 DEF Range
<1> QED
  BY <1>7, <1>8, <1>9 DEF FilesGrow

(* The record that is being written gets longer.                           *)
LEMMA WriteGrows ==
  ASSUME FilesInv, WriteRecord PROVE FilesGrow
<1> DEFINE n == Len(files)
           g == files[n]
           m == Len(g)
           r == [g[m] EXCEPT !.part = IF @ = "size" THEN "header" ELSE "whole"]
           s == [g EXCEPT ![m] = r]
<1>1. files \in Seq(Seq(Record)) /\ n \in Nat /\ DOMAIN files = 1 .. n
  BY DEF FilesInv
<1>2. files # <<>> /\ g # <<>> /\ g[m].part # "whole"
  BY DEF WriteRecord, Writing, Newest, Last
<1>3. files' = [files EXCEPT ![n] = s]
  BY DEF WriteRecord, Newest
<1>4. n \in DOMAIN files
  BY <1>1, <1>2
<1>5. g \in Seq(Record) /\ m \in Nat /\ DOMAIN g = 1 .. m
  BY <1>1, <1>4
<1> HIDE DEF g
<1>6. m \in DOMAIN g
  BY <1>2, <1>5
<1>7. g[m] \in Record
  BY <1>5, <1>6
<1>8. r \in Record /\ r.block = g[m].block
  BY <1>7 DEF Record
<1> HIDE DEF r
<1>9. s \in Seq(Record) /\ DOMAIN s = DOMAIN g /\ s[m] = r /\ \A k \in DOMAIN g : k # m => s[k] = g[k]
  BY <1>5, <1>6, <1>8
<1> HIDE DEF s, m
<1>10. /\ files' \in Seq(Seq(Record)) /\ Len(files') = n /\ DOMAIN files' = DOMAIN files
       /\ files'[n] = s
       /\ \A i \in DOMAIN files : i # n => files'[i] = files[i]
  BY <1>1, <1>3, <1>4, <1>9
<1>11. ASSUME NEW i \in DOMAIN files
       PROVE  /\ DOMAIN files'[i] = DOMAIN files[i]
              /\ \A k \in DOMAIN files[i] : files'[i][k].block = files[i][k].block
              /\ \A k \in DOMAIN files[i] :
                   files[i][k].part = "whole" => files'[i][k] = files[i][k]
  <2>1. CASE i = n
    BY <1>2, <1>8, <1>9, <1>10, <2>1 DEF g
  <2>2. CASE i # n
    BY <1>10, <2>2
  <2> QED
    BY <2>1, <2>2
<1>12. FilesInv'
  <2> SUFFICES ASSUME NEW i \in DOMAIN files', NEW j \in DOMAIN files',
                      NEW k \in DOMAIN files'[i], NEW l \in DOMAIN files'[j],
                      files'[i][k].block = files'[j][l].block
               PROVE  i = j /\ k = l
    BY <1>10 DEF FilesInv
  <2>1. /\ i \in DOMAIN files /\ j \in DOMAIN files
        /\ k \in DOMAIN files[i] /\ l \in DOMAIN files[j]
    BY <1>10, <1>11
  <2>2. files[i][k].block = files[j][l].block
    BY <1>11, <2>1
  <2> QED
    BY <2>1, <2>2 DEF FilesInv
<1>13. ASSUME NEW c, NEW i \in 1 .. Len(files), Whole(c) \in Range(files[i])
       PROVE  Whole(c) \in Range(files'[i])
  <2>1. PICK k \in DOMAIN files[i] : files[i][k] = Whole(c)
    BY <1>13 DEF Range
  <2>2. files[i][k].part = "whole"
    BY <2>1 DEF Whole
  <2>3. k \in DOMAIN files'[i] /\ files'[i][k] = Whole(c)
    BY <1>1, <1>11, <2>1, <2>2
  <2> QED
    BY <2>3 DEF Range
<1>14. Len(files') \in Nat /\ Len(files) <= Len(files')
  BY <1>1, <1>10
<1> QED
  BY <1>12, <1>13, <1>14 DEF FilesGrow

-------------------------------------------------------------------------------
(* The steps.                                                              *)

(* A block that is whole has all its records whole, since it has one.      *)
LEMMA OneRecord ==
  ASSUME FilesInv, NEW b, IsWhole(b), NEW i \in DOMAIN files,
         NEW k \in DOMAIN files[i], files[i][k].block = b
  PROVE  Whole(b) \in Range(files[i])
<1>1. PICK f \in Range(files) : Whole(b) \in Range(f)
  BY DEF IsWhole, Whole
<1>2. PICK j \in DOMAIN files : files[j] = f
  BY DEF Range
<1>3. PICK l \in DOMAIN files[j] : files[j][l] = Whole(b)
  BY <1>1, <1>2 DEF Range
<1>4. files[j][l].block = b
  BY <1>3 DEF Whole
<1>5. i = j
  BY <1>4 DEF FilesInv
<1> QED
  BY <1>1, <1>2, <1>5

(* Init.                                                                   *)
LEMMA InitInv == Init => Inv
<1> SUFFICES ASSUME Init PROVE Inv
  OBVIOUS
<1>1. FilesInv
  BY DEF Init, FilesInv
<1>2. ActiveInv
  <2>1. [b \in {Known} |-> 0] \in [{Known} -> Nat]
    OBVIOUS
  <2>2. {Known} \ {Known} = {}
    OBVIOUS
  <2> QED
    BY <2>1, <2>2 DEF Init, ActiveInv, Grounded
<1>3. ControlInv
  BY DEF Init, ControlInv
<1> QED
  BY <1>1, <1>2, <1>3 DEF Init, Inv, ReadInv, FeedsWholeChain, TraceFinds

(* A step of Bitcoin on its files disturbs nothing.                        *)
LEMMA GrowKeepsInv ==
  ASSUME Inv, FilesGrow,
         UNCHANGED <<tip, active, history, main, target, left, blocks, feed, syncs>>
  PROVE  Inv'
<1>1. FilesInv'
  BY DEF FilesGrow
<1>2. files \in Seq(Seq(Record)) /\ files' \in Seq(Seq(Record))
  BY <1>1 DEF Inv, FilesInv
<1>3. \A b : IsWhole(b) => IsWhole(b)'
  <2> SUFFICES ASSUME NEW b, IsWhole(b) PROVE IsWhole(b)'
    OBVIOUS
  <2>1. PICK i \in DOMAIN files : Whole(b) \in Range(files[i])
    BY DEF IsWhole, Whole, Range
  <2>2. i \in 1 .. Len(files) /\ i \in DOMAIN files'
    BY <1>2, <2>1 DEF FilesGrow
  <2>3. Whole(b) \in Range(files'[i])
    BY <2>1, <2>2 DEF FilesGrow
  <2>4. files'[i] \in Range(files')
    BY <2>2 DEF Range
  <2> QED
    BY <2>3, <2>4 DEF IsWhole, Whole
<1>4. ActiveInv'
  BY <1>3 DEF Inv, ActiveInv, Grounded
<1>5. left \in 0 .. Len(files) /\ left' = left /\ Len(files) \in Nat
  BY <1>2 DEF Inv, ControlInv
<1>6. ControlInv'
  <2>1. left' \in 0 .. Len(files')
    BY <1>5 DEF FilesGrow
  <2> QED
    BY <2>1 DEF Inv, ControlInv
<1>7. \A b : Ahead(b) => Ahead(b)'
  <2> SUFFICES ASSUME NEW b, Ahead(b) PROVE Ahead(b)'
    OBVIOUS
  <2>1. PICK i \in 1 .. left : Whole(b) \in Range(files[i])
    BY DEF Ahead, Whole
  <2>2. i \in 1 .. Len(files)
    BY <1>5
  <2>3. Whole(b) \in Range(files'[i])
    BY <2>1, <2>2 DEF FilesGrow
  <2> QED
    BY <1>5, <2>3 DEF Ahead, Whole
<1>8. ReadInv'
  <2> SUFFICES ASSUME main' = "read"
               PROVE  /\ feed' = <<>> /\ left' > 0
                      /\ \E S \in SUBSET active' :
                           /\ Grounded(S) /\ target' \in S \ {Known}
                           /\ \A b \in S \ {Known} :
                                IF b \in DOMAIN blocks' THEN blocks'[b] ELSE Ahead(b)'
    BY DEF ReadInv, Grounded
  <2> QED
    BY <1>7 DEF Inv, ReadInv
<1>9. FeedsWholeChain' /\ TraceFinds'
  BY DEF Inv, FeedsWholeChain, TraceFinds, IsChainTo
<1> QED
  BY <1>1, <1>4, <1>6, <1>8, <1>9 DEF Inv

(* A block is announced: it stands above its parent.                       *)
LEMMA AnnounceKeepsInv ==
  ASSUME Inv, Announce PROVE Inv'
<1>1. PICK b \in Block \ {tip} :
        IsWhole(b) /\ Prev[b] \in active /\ tip' = b /\ active' = active \cup {b}
  BY DEF Announce
<1>2. UNCHANGED <<files, history, main, target, left, blocks, feed, syncs>>
  BY DEF Announce
<1>3. Grounded(active')
  <2>1. CASE b \in active
    <3>1. active' = active
      BY <1>1, <2>1
    <3> QED
      BY <3>1 DEF Inv, ActiveInv
  <2>2. CASE b \notin active
    <3>1. PICK rank \in [active -> Nat] :
            \A c \in active \ {Known} : Prev[c] \in active /\ rank[Prev[c]] < rank[c]
      BY DEF Inv, ActiveInv, Grounded
    <3> DEFINE up == [c \in active' |-> IF c = b THEN rank[Prev[b]] + 1 ELSE rank[c]]
    <3>2. up \in [active' -> Nat]
      BY <1>1, <3>1
    <3>3. ASSUME NEW c \in active' \ {Known}
          PROVE  Prev[c] \in active' /\ up[Prev[c]] < up[c]
      <4>1. CASE c = b
        <5>1. Prev[b] \in active /\ Prev[b] # b /\ rank[Prev[b]] \in Nat
          BY <1>1, <2>2
        <5> QED
          BY <1>1, <4>1, <5>1
      <4>2. CASE c # b
        <5>1. c \in active \ {Known} /\ Prev[c] \in active /\ Prev[c] # b
          BY <1>1, <2>2, <3>1, <4>2
        <5>2. rank[Prev[c]] < rank[c]
          BY <3>1, <5>1
        <5> QED
          BY <1>1, <4>2, <5>1, <5>2
      <4> QED
        BY <4>1, <4>2
    <3> HIDE DEF up
    <3>4. Known \in active' /\ active' \subseteq Block \cup {Known}
      BY <1>1 DEF Inv, ActiveInv, Grounded
    <3> QED
      BY <3>2, <3>3, <3>4 DEF Grounded
  <2> QED
    BY <2>1, <2>2
<1>4. ActiveInv'
  <2>1. \A c : IsWhole(c)' = IsWhole(c)
    BY <1>2 DEF IsWhole
  <2>2. tip' \in active'
    BY <1>1
  <2>3. \A c \in active' \ {Known} : IsWhole(c)'
    BY <1>1, <2>1 DEF Inv, ActiveInv
  <2>4. Grounded(active)'
    BY <1>3 DEF Grounded
  <2> QED
    BY <2>2, <2>3, <2>4 DEF ActiveInv
<1>5. FilesInv' /\ ControlInv'
  BY <1>2 DEF Inv, FilesInv, ControlInv
<1>6. ReadInv'
  <2>1. \A c : Ahead(c)' = Ahead(c)
    BY <1>2 DEF Ahead
  <2>2. active \subseteq active'
    BY <1>1
  <2> SUFFICES ASSUME main' = "read"
               PROVE  /\ feed' = <<>> /\ left' > 0
                      /\ \E S \in SUBSET active' :
                           /\ Grounded(S) /\ target' \in S \ {Known}
                           /\ \A c \in S \ {Known} :
                                IF c \in DOMAIN blocks' THEN blocks'[c] ELSE Ahead(c)'
    BY DEF ReadInv, Grounded
  <2> QED
    BY <1>2, <2>1, <2>2 DEF Inv, ReadInv
<1>7. FeedsWholeChain' /\ TraceFinds'
  BY <1>2 DEF Inv, FeedsWholeChain, TraceFinds, IsChainTo
<1> QED
  BY <1>4, <1>5, <1>6, <1>7 DEF Inv

(* A trace begins: everything connected is ahead.                          *)
LEMMA BeginKeepsInv ==
  ASSUME Inv, Begin PROVE Inv'
<1>1. /\ main = "idle" /\ tip # Known /\ history' = history \cup Range(feed)
      /\ syncs' = syncs + 1 /\ target' = tip /\ left' = Len(files)
      /\ blocks' = NoBlocks /\ feed' = <<>> /\ main' = "read"
      /\ files' = files /\ tip' = tip /\ active' = active
  BY DEF Begin, disk
<1>2. FilesInv' /\ ActiveInv'
  BY <1>1 DEF Inv, FilesInv, ActiveInv, Grounded, IsWhole
<1>3. files \in Seq(Seq(Record)) /\ Len(files) \in Nat /\ DOMAIN files = 1 .. Len(files)
  BY DEF Inv, FilesInv
<1>4. ASSUME NEW b \in active \ {Known}
      PROVE  \E i \in 1 .. Len(files) : Whole(b) \in Range(files[i])
  <2>1. PICK f \in Range(files) : Whole(b) \in Range(f)
    BY DEF Inv, ActiveInv, IsWhole, Whole
  <2> QED
    BY <1>3, <2>1 DEF Range
<1>5. tip \in active \ {Known}
  BY <1>1 DEF Inv, ActiveInv
<1>6. Len(files) > 0
  BY <1>3, <1>4, <1>5
<1>7. ControlInv'
  BY <1>1, <1>3 DEF Inv, ControlInv
<1>8. ReadInv'
  <2>1. \A b \in active \ {Known} : Ahead(b)'
    BY <1>1, <1>4 DEF Ahead, Whole
  <2>2. DOMAIN blocks' = {}
    BY <1>1 DEF NoBlocks
  <2>3. Grounded(active)
    BY DEF Inv, ActiveInv
  <2> SUFFICES /\ feed' = <<>> /\ left' > 0
               /\ \E S \in SUBSET active' :
                    /\ Grounded(S) /\ target' \in S \ {Known}
                    /\ \A b \in S \ {Known} :
                         IF b \in DOMAIN blocks' THEN blocks'[b] ELSE Ahead(b)'
    BY DEF ReadInv, Grounded
  <2> QED
    BY <1>1, <1>5, <1>6, <2>1, <2>2, <2>3
<1>9. FeedsWholeChain' /\ TraceFinds'
  BY <1>1 DEF FeedsWholeChain, TraceFinds
<1> QED
  BY <1>2, <1>7, <1>8, <1>9 DEF Inv

(* A file is read.  The trace finds a chain of blocks that were connected  *)
(* when it began; after the last file it has all of them.                  *)
LEMMA ReadKeepsInv ==
  ASSUME Inv, ReadFile PROVE Inv'
<1> DEFINE f == files[left]
           bs == direct_parse_block_file(blocks, f)
           p == direct_trace_chain(bs, history, target)
<1>1. /\ main = "read" /\ left > 0 /\ blocks' = bs /\ feed' = p /\ left' = left - 1
      /\ main' = IF p # <<>> \/ left - 1 = 0 THEN "idle" ELSE "read"
      /\ files' = files /\ tip' = tip /\ active' = active
      /\ history' = history /\ target' = target /\ syncs' = syncs
  BY DEF ReadFile, disk
<1>2. files \in Seq(Seq(Record)) /\ Len(files) \in Nat /\ DOMAIN files = 1 .. Len(files)
  BY DEF Inv, FilesInv
<1>3. left \in 0 .. Len(files) /\ left \in DOMAIN files /\ left - 1 \in Nat
  BY <1>1, <1>2 DEF Inv, ControlInv
<1>4. PICK S \in SUBSET active :
        /\ Grounded(S) /\ target \in S \ {Known}
        /\ \A b \in S \ {Known} : IF b \in DOMAIN blocks THEN blocks[b] ELSE Ahead(b)
  BY <1>1 DEF Inv, ReadInv
<1> DEFINE seen == {r.block : r \in {q \in Range(f) : q.part # "size"}}
<1>5. /\ DOMAIN bs = DOMAIN blocks \cup seen
      /\ \A b \in DOMAIN bs :
           bs[b] = IF b \in seen THEN Whole(b) \in Range(f) ELSE blocks[b]
  BY DEF direct_parse_block_file, Whole
<1>6. \A b : Whole(b) \in Range(f) => b \in seen
  <2> SUFFICES ASSUME NEW b, Whole(b) \in Range(f) PROVE b \in seen
    OBVIOUS
  <2>1. Whole(b).block = b /\ Whole(b).part # "size"
    BY DEF Whole
  <2> QED
    BY <2>1
<1>7. ASSUME NEW b \in S \ {Known}, b \in seen PROVE Whole(b) \in Range(f)
  <2>1. PICK k \in DOMAIN f : f[k].block = b
    BY <1>7 DEF Range
  <2>2. IsWhole(b)
    BY DEF Inv, ActiveInv
  <2>3. FilesInv
    BY DEF Inv
  <2> QED
    BY <1>3, <2>1, <2>2, <2>3, OneRecord
<1> HIDE DEF bs, p, seen
<1>8. ASSUME NEW b \in S \ {Known}
      PROVE  IF b \in DOMAIN bs THEN bs[b]
             ELSE \E i \in 1 .. left - 1 : Whole(b) \in Range(files[i])
  <2>1. CASE b \in seen
    BY <1>5, <1>7, <2>1
  <2>2. CASE b \notin seen /\ b \in DOMAIN blocks
    BY <1>4, <1>5, <2>2
  <2>3. CASE b \notin seen /\ b \notin DOMAIN blocks
    <3>1. PICK i \in 1 .. left : Whole(b) \in Range(files[i])
      BY <1>4, <2>3 DEF Ahead, Whole
    <3>2. i # left
      BY <1>6, <2>3, <3>1
    <3>3. i \in 1 .. left - 1
      BY <1>3, <3>2
    <3> QED
      BY <1>5, <2>3, <3>1, <3>3
  <2> QED
    BY <2>1, <2>2, <2>3
<1>9. Known \in history
  BY DEF Inv, ControlInv
<1>10. /\ p # <<>> => LeadsUp(p, S, bs, history, target)
       /\ S \ {Known} \subseteq DOMAIN bs => p # <<>>
  <2>1. p = direct_trace_chain(bs, history, target)
    BY DEF p
  <2>2. Grounded(S) /\ target \in S \ {Known}
    BY <1>4
  <2> QED
    BY <1>9, <2>1, <2>2, TraceLeadsUp, Zenon
<1>11. FilesInv' /\ ActiveInv'
  BY <1>1 DEF Inv, FilesInv, ActiveInv, Grounded, IsWhole
<1>12. left - 1 = 0 => p # <<>>
  <2> SUFFICES ASSUME left - 1 = 0 PROVE S \ {Known} \subseteq DOMAIN bs
    BY <1>10
  <2>1. 1 .. left - 1 = {}
    BY <1>3
  <2> QED
    BY <1>8, <2>1
<1>13. ControlInv'
  <2>1. main' \in {"idle", "read"}
    BY <1>1
  <2>2. left' \in 0 .. Len(files')
    BY <1>1, <1>2, <1>3
  <2> QED
    BY <1>1, <2>1, <2>2 DEF Inv, ControlInv
<1>14. ReadInv'
  <2> SUFFICES ASSUME main' = "read"
               PROVE  /\ feed' = <<>> /\ left' > 0
                      /\ \E X \in SUBSET active' :
                           /\ Grounded(X) /\ target' \in X \ {Known}
                           /\ \A b \in X \ {Known} :
                                IF b \in DOMAIN blocks' THEN blocks'[b] ELSE Ahead(b)'
    BY DEF ReadInv, Grounded
  <2>1. p = <<>> /\ left - 1 # 0
    BY <1>1
  <2>2. \A b : Ahead(b)' = \E i \in 1 .. left - 1 : Whole(b) \in Range(files[i])
    BY <1>1 DEF Ahead, Whole
  <2>3. left' > 0
    BY <1>1, <1>3, <2>1
  <2> QED
    BY <1>1, <1>4, <1>8, <2>1, <2>2, <2>3
<1>15. FeedsWholeChain'
  <2> SUFFICES ASSUME p # <<>>
               PROVE  /\ Last(p) = target /\ Prev[p[1]] \in history
                      /\ \A i \in 2 .. Len(p) : Prev[p[i]] = p[i - 1]
                      /\ \A b \in Range(p) : bs[b]
    BY <1>1 DEF FeedsWholeChain, IsChainTo
  <2>1. ASSUME NEW b \in Range(p) PROVE bs[b]
    <3>1. p \in Seq(Block)
      BY <1>10 DEF LeadsUp
    <3>2. PICK i \in 1 .. Len(p) : p[i] = b
      BY <3>1 DEF Range
    <3>3. b \in S \ {Known} /\ b \in DOMAIN bs
      BY <1>10, <3>2 DEF LeadsUp
    <3> QED
      BY <1>8, <3>3
  <2> QED
    BY <1>10, <2>1 DEF LeadsUp, Last
<1>16. TraceFinds'
  <2>1. main' = "idle" /\ left' = 0 => feed' # <<>>
    BY <1>1, <1>12
  <2> QED
    BY <2>1 DEF TraceFinds
<1> QED
  BY <1>11, <1>13, <1>14, <1>15, <1>16 DEF Inv

(* Every step keeps the invariant.                                         *)
LEMMA NextInv == Inv /\ [Next]_vars => Inv'
<1> SUFFICES ASSUME Inv, [Next]_vars PROVE Inv'
  OBVIOUS
<1>1. CASE BeginRecord
  BY <1>1, BeginGrows, GrowKeepsInv DEF Inv, BeginRecord
<1>2. CASE WriteRecord
  BY <1>2, WriteGrows, GrowKeepsInv DEF Inv, WriteRecord
<1>3. CASE Announce
  BY <1>3, AnnounceKeepsInv
<1>4. CASE Begin
  BY <1>4, BeginKeepsInv
<1>5. CASE ReadFile
  BY <1>5, ReadKeepsInv
<1>6. CASE ReadPanics \/ Restart
  <2>1. /\ files' = files /\ tip' = tip /\ active' = active /\ history' = history
        /\ target' = target /\ left' = left /\ blocks' = blocks /\ feed' = feed
        /\ syncs' = syncs
    BY <1>6 DEF ReadPanics, Restart, disk
  <2>2. /\ main' \in {"idle", "panic"} /\ left > 0
    BY <1>6 DEF Inv, ControlInv, ReadPanics, Restart
  <2>3. FilesInv' /\ ActiveInv'
    BY <2>1 DEF Inv, FilesInv, ActiveInv, Grounded, IsWhole
  <2>4. ControlInv' /\ ReadInv'
    BY <2>1, <2>2 DEF Inv, ControlInv, ReadInv
  <2>5. left \in Nat
    BY DEF Inv, FilesInv, ControlInv
  <2>6. FeedsWholeChain' /\ TraceFinds'
    BY <2>1, <2>2, <2>5 DEF Inv, FeedsWholeChain, TraceFinds, IsChainTo
  <2> QED
    BY <2>3, <2>4, <2>6 DEF Inv
<1>7. CASE Sleep \/ UNCHANGED vars
  <2>1. /\ files' = files /\ tip' = tip /\ active' = active /\ history' = history
        /\ target' = target /\ left' = left /\ blocks' = blocks /\ feed' = feed
        /\ syncs' = syncs /\ main' = main
    BY <1>7 DEF Sleep, vars, disk
  <2>2. FilesInv' /\ ActiveInv' /\ ControlInv'
    BY <2>1 DEF Inv, FilesInv, ActiveInv, ControlInv, Grounded, IsWhole
  <2>3. ReadInv'
    BY <2>1 DEF Inv, ReadInv, Grounded, Ahead
  <2>4. FeedsWholeChain' /\ TraceFinds'
    BY <2>1 DEF Inv, FeedsWholeChain, TraceFinds, IsChainTo
  <2> QED
    BY <2>2, <2>3, <2>4 DEF Inv
<1> QED
  BY <1>1, <1>2, <1>3, <1>4, <1>5, <1>6, <1>7 DEF Next

(* The inductive invariant holds in every state of direct mining.          *)
THEOREM Invariance == Spec => []Inv
<1>1. Init => Inv
  BY InitInv
<1>2. Inv /\ [Next]_vars => Inv'
  BY NextInv
<1> QED
  BY <1>1, <1>2, PTL DEF Spec

(* direct_load_trace hands on only chains, from a block the node knows to  *)
(* the best block, of blocks that were whole in the files it read, while   *)
(* Bitcoin goes on writing them.                                           *)
THEOREM WholeChainIsFed == Spec => []FeedsWholeChain
<1>1. Inv => FeedsWholeChain
  BY DEF Inv
<1> QED
  BY <1>1, Invariance, PTL

(* Once direct_load_trace has read all files, the trace has found the      *)
(* chain: in whatever order and over however many files it lies.           *)
THEOREM ChainIsFound == Spec => []TraceFinds
<1>1. Inv => TraceFinds
  BY DEF Inv
<1> QED
  BY <1>1, Invariance, PTL

===============================================================================
