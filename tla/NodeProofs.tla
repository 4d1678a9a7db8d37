------------------------------ MODULE NodeProofs ------------------------------
(***************************************************************************)
(* Facts about the operators of Node that the proofs about FullNode and    *)
(* RemoteNode share.                                                       *)
(***************************************************************************)
EXTENDS Node, FiniteSetTheorems, WellFoundedInduction, TLAPS

-------------------------------------------------------------------------------
(* Min and Max of sets of natural numbers, which the searches return.      *)

(* A set of natural numbers that is not empty has a least element.         *)
LEMMA LeastExists ==
  ASSUME NEW S \in SUBSET Nat, S # {}
  PROVE  \E x \in S : \A y \in S : x <= y
<1>1. PICK x \in S : \A y \in S : ~(<<y, x>> \in OpToRel(<, Nat))
  BY NatLessThanWellFounded, WFMin, Zenon
<1>2. ASSUME NEW y \in S PROVE x <= y
  <2>1. x \in Nat /\ y \in Nat
    OBVIOUS
  <2>2. ~(y < x)
    BY <1>1, <2>1 DEF OpToRel
  <2> QED
    BY <2>1, <2>2
<1> QED
  BY <1>2

(* Min returns it.                                                         *)
LEMMA MinIsLeast ==
  ASSUME NEW S \in SUBSET Nat, S # {}
  PROVE  Min(S) \in S /\ \A y \in S : Min(S) <= y
  BY LeastExists DEF Min

(* A set of natural numbers that is bounded and not empty has a greatest   *)
(* element, and Max returns it.                                            *)
LEMMA MaxIsGreatest ==
  ASSUME NEW S \in SUBSET Nat, S # {}, NEW n \in Nat, \A y \in S : y <= n
  PROVE  Max(S) \in S /\ \A y \in S : Max(S) >= y
<1> DEFINE D == {n - y : y \in S}
<1>1. D \subseteq Nat /\ D # {}
  <2>1. \A y \in S : n - y \in Nat
    OBVIOUS
  <2>2. PICK y \in S : TRUE
    OBVIOUS
  <2>3. n - y \in D
    OBVIOUS
  <2> QED
    BY <2>1, <2>3
<1>2. PICK d \in D : \A e \in D : d <= e
  BY <1>1, LeastExists
<1>3. PICK x \in S : d = n - x
  OBVIOUS
<1>4. ASSUME NEW y \in S PROVE x >= y
  <2>1. n - y \in D
    OBVIOUS
  <2>2. d <= n - y
    BY <1>2, <2>1
  <2> QED
    BY <1>3, <2>2
<1> HIDE DEF D
<1> QED
  BY <1>4 DEF Max

-------------------------------------------------------------------------------
(* The segment between two equal heights.                                  *)
LEMMA EmptySegment ==
  ASSUME NEW l, NEW k \in Nat
  PROVE  Segment(l, k, k) = NoBlocks
  BY TreeAssumption DEF Segment, NoBlocks

(* The height of a node that has loaded nothing.                            *)
LEMMA EmptyLibHeight == LibHeight(<<>>) = CheckpointHeight
  BY TreeAssumption DEF LibHeight

(* A batch written on top of the database that it continues.                *)
LEMMA WriteSegment ==
  ASSUME NEW l \in Seq(Block), NEW k \in 0 .. Len(l)
  PROVE  Write(Segment(l, k, Len(l)), Segment(l, 0, k)) = Segment(l, 0, Len(l))
  BY TreeAssumption DEF Write, Segment

(* A block loaded on top of others.                                        *)
LEMMA AppendFacts ==
  ASSUME NEW l \in Seq(Block), NEW b \in Block
  PROVE  /\ Append(l, b) \in Seq(Block)
         /\ Len(Append(l, b)) = Len(l) + 1
         /\ Append(l, b)[Len(l) + 1] = b
         /\ \A i \in 1 .. Len(l) : Append(l, b)[i] = l[i]
  OBVIOUS

(* The blocks of a segment: where they are stored and as what.             *)
LEMMA SegmentFacts ==
  ASSUME NEW l \in Seq(Block), NEW k \in 0 .. Len(l)
  PROVE  /\ DOMAIN Segment(l, 0, k) = CheckpointHeight + 1 .. CheckpointHeight + k
         /\ \A h \in DOMAIN Segment(l, 0, k) :
              /\ h \in Nat
              /\ h - CheckpointHeight \in 1 .. k
              /\ l[h - CheckpointHeight] \in Block
              /\ Segment(l, 0, k)[h] = Entry(l[h - CheckpointHeight])
              /\ Segment(l, 0, k)[h].hash = l[h - CheckpointHeight]
              /\ Segment(l, 0, k)[h].previous = Prev[l[h - CheckpointHeight]]
         /\ DOMAIN Segment(l, 0, k) \subseteq Nat
         /\ Segment(l, 0, k) \in [DOMAIN Segment(l, 0, k) -> BlockEntry]
         /\ Gapless(Segment(l, 0, k))
<1> USE TreeAssumption
<1> DEFINE d == Segment(l, 0, k)
<1>1. DOMAIN d = CheckpointHeight + 1 .. CheckpointHeight + k
  BY DEF Segment
<1>2. \A h \in DOMAIN d : /\ h \in Nat
                          /\ h - CheckpointHeight \in 1 .. k
                          /\ l[h - CheckpointHeight] \in Block
                          /\ d[h] = Entry(l[h - CheckpointHeight])
  BY <1>1 DEF Segment
<1>3. \A h \in DOMAIN d : /\ d[h].hash = l[h - CheckpointHeight]
                          /\ d[h].previous = Prev[l[h - CheckpointHeight]]
                          /\ d[h] \in BlockEntry
  BY <1>2 DEF Entry, BlockEntry
<1>4. d \in [DOMAIN d -> BlockEntry]
  BY <1>3 DEF Segment
<1>5. Gapless(d)
  <2>1. CASE k = 0
    BY <1>1, <2>1 DEF Gapless, NoBlocks, Segment
  <2>2. CASE k > 0
    BY <1>1, <2>2 DEF Gapless
  <2> QED
    BY <2>1, <2>2
<1> QED
  BY <1>1, <1>2, <1>3, <1>4, <1>5

(* What libcomb holds is one segment.                                      *)
LEMMA ImageIsSegment ==
  ASSUME NEW l \in Seq(Block)
  PROVE  Image(l) = Segment(l, 0, Len(l))
  BY TreeAssumption DEF Image, Segment, LibHeight

(* A block loaded on top leaves the segments below it, and is itself one.  *)
LEMMA AppendSegment ==
  ASSUME NEW l \in Seq(Block), NEW b \in Block
  PROVE  /\ Segment(Append(l, b), 0, Len(l)) = Segment(l, 0, Len(l))
         /\ Segment(Append(l, b), Len(l), Len(l) + 1)
              = Put(NoBlocks, CheckpointHeight + Len(l) + 1, Entry(b))
<1> USE TreeAssumption
<1> DEFINE m == Append(l, b)
<1>1. /\ Len(l) \in Nat
      /\ m[Len(l) + 1] = b
      /\ \A i \in 1 .. Len(l) : m[i] = l[i]
  BY AppendFacts
<1> HIDE DEF m
<1>2. Segment(m, 0, Len(l)) = Segment(l, 0, Len(l))
  <2>1. \A h \in CheckpointHeight + 0 + 1 .. CheckpointHeight + Len(l) :
          m[h - CheckpointHeight] = l[h - CheckpointHeight]
    <3> SUFFICES ASSUME NEW h \in CheckpointHeight + 0 + 1 .. CheckpointHeight + Len(l)
                 PROVE  m[h - CheckpointHeight] = l[h - CheckpointHeight]
      OBVIOUS
    <3>1. h - CheckpointHeight \in 1 .. Len(l)
      BY <1>1
    <3> QED
      BY <1>1, <3>1
  <2> QED
    BY <2>1 DEF Segment
<1>3. Segment(m, Len(l), Len(l) + 1)
        = Put(NoBlocks, CheckpointHeight + Len(l) + 1, Entry(b))
  <2>1. CheckpointHeight + Len(l) + 1 .. CheckpointHeight + (Len(l) + 1)
          = {CheckpointHeight + Len(l) + 1}
    <3>1. \A n \in Nat : n .. n = {n}
      OBVIOUS
    <3>2. /\ CheckpointHeight + Len(l) + 1 \in Nat
          /\ CheckpointHeight + (Len(l) + 1) = CheckpointHeight + Len(l) + 1
      BY <1>1
    <3> QED
      BY <3>1, <3>2
  <2>2. (CheckpointHeight + Len(l) + 1) - CheckpointHeight = Len(l) + 1
    BY <1>1
  <2>3. Segment(m, Len(l), Len(l) + 1)
          = [h \in {CheckpointHeight + Len(l) + 1} |-> Entry(b)]
    BY <1>1, <2>1, <2>2 DEF Segment
  <2>4. Put(NoBlocks, CheckpointHeight + Len(l) + 1, Entry(b))
          = [h \in {CheckpointHeight + Len(l) + 1} |-> Entry(b)]
    BY DEF Put, NoBlocks
  <2> QED
    BY <2>3, <2>4
<1> QED
  BY <1>2, <1>3 DEF m

(* db_remove_blocks_after cuts a segment.                                  *)
LEMMA CutSegment ==
  ASSUME NEW l \in Seq(Block), NEW k \in 0 .. Len(l)
  PROVE  [h \in {j \in DOMAIN Segment(l, 0, Len(l)) : j < CheckpointHeight + k + 1}
            |-> Segment(l, 0, Len(l))[h]] = Segment(l, 0, k)
<1> USE TreeAssumption
<1>1. {j \in DOMAIN Segment(l, 0, Len(l)) : j < CheckpointHeight + k + 1}
        = CheckpointHeight + 0 + 1 .. CheckpointHeight + k
  BY DEF Segment
<1>2. \A h \in CheckpointHeight + 0 + 1 .. CheckpointHeight + k :
        Segment(l, 0, Len(l))[h] = Entry(l[h - CheckpointHeight])
  BY DEF Segment
<1> QED
  BY <1>1, <1>2 DEF Segment

(* The UnloadBlock loop leaves the blocks below.                           *)
LEMMA UnloadedSegment ==
  ASSUME NEW l \in Seq(Block), NEW k \in 0 .. Len(l)
  PROVE  /\ SubSeq(l, 1, k) \in Seq(Block)
         /\ Len(SubSeq(l, 1, k)) = k
         /\ \A i \in 1 .. k : SubSeq(l, 1, k)[i] = l[i]
         /\ Segment(SubSeq(l, 1, k), 0, k) = Segment(l, 0, k)
<1> USE TreeAssumption
<1> DEFINE m == SubSeq(l, 1, k)
<1>1. m \in Seq(Block) /\ Len(m) = k /\ \A i \in 1 .. k : m[i] = l[i]
  OBVIOUS
<1> HIDE DEF m
<1>2. \A h \in CheckpointHeight + 0 + 1 .. CheckpointHeight + k :
        m[h - CheckpointHeight] = l[h - CheckpointHeight]
  <2> SUFFICES ASSUME NEW h \in CheckpointHeight + 0 + 1 .. CheckpointHeight + k
               PROVE  m[h - CheckpointHeight] = l[h - CheckpointHeight]
    OBVIOUS
  <2>1. h - CheckpointHeight \in 1 .. k
    OBVIOUS
  <2> QED
    BY <1>1, <2>1
<1>3. Segment(m, 0, k) = Segment(l, 0, k)
  BY <1>2 DEF Segment
<1> QED
  BY <1>1, <1>3 DEF m

(* db_get_block_by_hash on a whole segment: the height of a block with     *)
(* that hash, not below any other; the lowest block if there is none; zero *)
(* if there is no block at all.                                            *)
LEMMA SearchByHash ==
  ASSUME NEW l \in Seq(Block), NEW x
  PROVE  LET d == Segment(l, 0, Len(l))
             r == db_get_block_by_hash(d, x)
         IN  \/ /\ r - CheckpointHeight \in 1 .. Len(l)
                /\ r \in Nat
                /\ l[r - CheckpointHeight] = x
                /\ \A h \in DOMAIN d : d[h].hash = x => h <= r
             \/ /\ \A i \in 1 .. Len(l) : l[i] # x
                /\ l # <<>>
                /\ r = CheckpointHeight + 1
             \/ l = <<>> /\ r = 0
<1> USE TreeAssumption
<1> DEFINE d == Segment(l, 0, Len(l))
           r == db_get_block_by_hash(d, x)
           found == {h \in DOMAIN d : d[h].hash = x}
<1>1. /\ DOMAIN d = CheckpointHeight + 1 .. CheckpointHeight + Len(l)
      /\ \A h \in DOMAIN d : d[h].hash = l[h - CheckpointHeight]
      /\ Len(l) \in Nat
  <2>1. Len(l) \in Nat /\ Len(l) \in 0 .. Len(l)
    OBVIOUS
  <2>2. /\ DOMAIN d = CheckpointHeight + 1 .. CheckpointHeight + Len(l)
        /\ \A h \in DOMAIN d : d[h].hash = l[h - CheckpointHeight]
    BY <2>1, SegmentFacts
  <2> QED
    BY <2>1, <2>2
<1> HIDE DEF d
<1>2. CASE found # {}
  <2>1. r = Max(found)
    BY <1>2 DEF db_get_block_by_hash
  <2>2. /\ found \subseteq Nat
        /\ CheckpointHeight + Len(l) \in Nat
        /\ \A h \in found : h <= CheckpointHeight + Len(l)
    BY <1>1
  <2> HIDE DEF found, r
  <2>3. r \in found /\ \A h \in found : r >= h
    <3>1. Max(found) \in found /\ \A h \in found : Max(found) >= h
      BY <1>2, <2>2, MaxIsGreatest
    <3> QED
      BY <2>1, <3>1
  <2>4. r \in Nat /\ r - CheckpointHeight \in 1 .. Len(l) /\ l[r - CheckpointHeight] = x
    BY <1>1, <2>3 DEF found
  <2>5. \A h \in DOMAIN d : d[h].hash = x => h <= r
    <3> SUFFICES ASSUME NEW h \in DOMAIN d, d[h].hash = x PROVE h <= r
      OBVIOUS
    <3>1. h \in found /\ h \in Nat
      BY <1>1 DEF found
    <3> QED
      BY <2>3, <2>4, <3>1
  <2> QED
    BY <2>4, <2>5 DEF d, r
<1>3. CASE found = {} /\ DOMAIN d # {}
  <2>1. r = Min(DOMAIN d)
    BY <1>3 DEF db_get_block_by_hash
  <2>2. CheckpointHeight + 1 \in DOMAIN d /\ l # <<>>
    BY <1>1, <1>3
  <2>3. DOMAIN d \subseteq Nat
    BY <1>1
  <2>4. r \in DOMAIN d /\ \A h \in DOMAIN d : r <= h
    BY <1>3, <2>1, <2>3, MinIsLeast
  <2>5. r = CheckpointHeight + 1
    <3>1. r <= CheckpointHeight + 1
      BY <2>2, <2>4
    <3>2. r \in Nat /\ CheckpointHeight + 1 <= r
      BY <1>1, <2>4
    <3> QED
      BY <3>1, <3>2
  <2>6. \A i \in 1 .. Len(l) : l[i] # x
    <3> SUFFICES ASSUME NEW i \in 1 .. Len(l), l[i] = x PROVE FALSE
      OBVIOUS
    <3>1. CheckpointHeight + i \in DOMAIN d /\ (CheckpointHeight + i) - CheckpointHeight = i
      BY <1>1
    <3>2. CheckpointHeight + i \in found
      BY <1>1, <3>1
    <3> QED
      BY <1>3, <3>2
  <2> QED
    BY <2>2, <2>5, <2>6 DEF d
<1>4. CASE DOMAIN d = {}
  <2>1. Len(l) = 0
    <3> SUFFICES ASSUME Len(l) # 0 PROVE FALSE
      OBVIOUS
    <3>1. CheckpointHeight + 1 \in DOMAIN d
      BY <1>1
    <3> QED
      BY <1>4, <3>1
  <2>2. found = {}
    BY <1>4
  <2>3. r = 0
    BY <1>4, <2>2 DEF db_get_block_by_hash
  <2> QED
    BY <2>1, <2>3 DEF d
<1> QED
  BY <1>2, <1>3, <1>4

===============================================================================
