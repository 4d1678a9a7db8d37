--------------------------- MODULE RemoteNodeProofs ---------------------------
(***************************************************************************)
(* Proofs about RemoteNode, for every block tree, every batch capacity and *)
(* any number of pushes, rollbacks, recovered panics and crashes: Inv is   *)
(* inductive, one lemma per action, and the properties follow from it.     *)
(* Nothing is assumed of the order of the requests, nor of the previous    *)
(* hash a block is pushed with, except that it does not change.            *)
(***************************************************************************)
EXTENDS RemoteNode, NodeProofs

-------------------------------------------------------------------------------
(* Facts about the operators.                                              *)

(* The places that main and a handler move to.                             *)
LEMMA Places ==
  /\ {"down", "new", "open", "load", "idle", "legacy db", "corruption height 0"} \subseteq Mains
  /\ {"none", "ready", "process", "flush", "trace", "unload", "store", "full",
      "chain broken", "past checkpoint"} \subseteq Pcs
  BY DEF Mains, Pcs, PipelinePcs, ChainPanics, LoadPanics

(* A pushed block, with or without a hash, and what is stored of it.       *)
LEMMA PushedFacts ==
  ASSUME NEW b \in Pushed
  PROVE  /\ b # Empty
         /\ Prev[b] \in Block \cup {Checkpoint, Empty}
         /\ Entry(b) \in BlockEntry
         /\ Entry(b).previous = Prev[b]
         /\ b \in Block => Entry(b).hash = b
         /\ b \notin Block => Entry(b).hash = Empty
  BY TreeAssumption, RemoteNodeAssumption DEF Entry, BlockEntry

(* The hash of the last block.                                             *)
LEMMA TipFacts ==
  ASSUME NEW l \in Seq(Block)
  PROVE  /\ l = <<>> => Tip(l) = Checkpoint
         /\ l # <<>> => /\ Tip(l) = l[Len(l)] /\ Len(l) \in 1 .. Len(l)
                        /\ Tip(l) \in Block
  BY DEF Tip

(* What libcomb holds, stored: a database as the invariant has it.         *)
LEMMA StoredAsLinked ==
  ASSUME NEW l \in Seq(Block), LinkedOrRestarted(l), NEW k \in 0 .. Len(l),
         NEW h \in DOMAIN Segment(l, 0, k)
  PROVE  LET d == Segment(l, 0, k)
         IN  StoredAs(d, h)
<1> USE TreeAssumption
<1> DEFINE d == Segment(l, 0, k)
           i == h - CheckpointHeight
<1>1. /\ DOMAIN d = CheckpointHeight + 1 .. CheckpointHeight + k
      /\ \A g \in DOMAIN d : /\ g \in Nat
                             /\ d[g] = Entry(l[g - CheckpointHeight])
                             /\ d[g].hash = l[g - CheckpointHeight]
                             /\ d[g].previous = Prev[l[g - CheckpointHeight]]
  BY SegmentFacts
<1>2. i \in 1 .. Len(l) /\ i <= k /\ h \in Nat /\ h \in DOMAIN d
  BY <1>1
<1>3. Prev[l[i]] \in {Checkpoint, Empty} \/ (i > 1 /\ Prev[l[i]] = l[i - 1])
  BY <1>2 DEF LinkedOrRestarted
<1>4. ASSUME i > 1 PROVE h - 1 \in DOMAIN d /\ d[h - 1].hash = l[i - 1]
  <2>1. h - 1 \in DOMAIN d
    BY <1>1, <1>2, <1>4
  <2>2. d[h - 1].hash = l[(h - 1) - CheckpointHeight]
    BY <1>1, <2>1
  <2>3. (h - 1) - CheckpointHeight = i - 1
    BY <1>2
  <2> QED
    BY <2>1, <2>2, <2>3
<1>5. h > CheckpointHeight
  BY <1>1, <1>2
<1>6. d[h].previous = Prev[l[i]] /\ d[h] = Entry(d[h].hash) /\ d[h].hash # Empty
  BY <1>1, <1>2
<1> HIDE DEF d, i
<1> QED
  BY <1>3, <1>4, <1>5, <1>6 DEF d, StoredAs

(* The lower part of such blocks is such blocks.                           *)
LEMMA LinkedPrefix ==
  ASSUME NEW l \in Seq(Block), LinkedOrRestarted(l), NEW k \in 0 .. Len(l)
  PROVE  LinkedOrRestarted(SubSeq(l, 1, k))
<1> DEFINE m == SubSeq(l, 1, k)
<1>1. Len(m) = k /\ \A i \in 1 .. k : m[i] = l[i]
  BY UnloadedSegment
<1> HIDE DEF m
<1> SUFFICES ASSUME NEW i \in 1 .. Len(m)
             PROVE  \/ Prev[m[i]] \in {Checkpoint, Empty}
                    \/ i > 1 /\ Prev[m[i]] = m[i - 1]
  BY DEF LinkedOrRestarted, m
<1>2. i \in 1 .. Len(l) /\ m[i] = l[i]
  BY <1>1
<1>3. ASSUME i > 1 PROVE m[i - 1] = l[i - 1]
  <2>1. i - 1 \in 1 .. k
    BY <1>1, <1>3
  <2> QED
    BY <1>1, <2>1
<1> QED
  BY <1>2, <1>3 DEF LinkedOrRestarted

(* A block that follows the last one, the checkpoint or nothing may be     *)
(* added.                                                                  *)
LEMMA LinkedAppend ==
  ASSUME NEW l \in Seq(Block), LinkedOrRestarted(l), NEW b \in Block,
         Prev[b] \in {Tip(l), Checkpoint, Empty}
  PROVE  LinkedOrRestarted(Append(l, b))
<1> DEFINE m == Append(l, b)
<1>1. /\ Len(m) = Len(l) + 1 /\ Len(l) \in Nat
      /\ m[Len(l) + 1] = b
      /\ \A i \in 1 .. Len(l) : m[i] = l[i]
  BY AppendFacts
<1> HIDE DEF m
<1> SUFFICES ASSUME NEW i \in 1 .. Len(m)
             PROVE  \/ Prev[m[i]] \in {Checkpoint, Empty}
                    \/ i > 1 /\ Prev[m[i]] = m[i - 1]
  BY DEF LinkedOrRestarted, m
<1>2. CASE i \in 1 .. Len(l)
  <2>1. m[i] = l[i]
    BY <1>1, <1>2
  <2>2. ASSUME i > 1 PROVE m[i - 1] = l[i - 1]
    <3>1. i - 1 \in 1 .. Len(l)
      BY <1>1, <1>2, <2>2
    <3> QED
      BY <1>1, <3>1
  <2> QED
    BY <1>2, <2>1, <2>2 DEF LinkedOrRestarted
<1>3. CASE i = Len(l) + 1
  <2>1. m[i] = b
    BY <1>1, <1>3
  <2>2. CASE l = <<>>
    BY <2>1, <2>2, TipFacts
  <2>3. CASE l # <<>>
    <3>1. i > 1 /\ i - 1 = Len(l) /\ Len(l) \in 1 .. Len(l) /\ Tip(l) = l[Len(l)]
      BY <1>1, <1>3, <2>3, TipFacts
    <3>2. m[i - 1] = Tip(l)
      BY <1>1, <3>1
    <3> QED
      BY <2>1, <3>1, <3>2
  <2> QED
    BY <2>2, <2>3
<1> QED
  BY <1>1, <1>2, <1>3

(* A database that mirrors libcomb: its heights and its entries, the last  *)
(* of which may be one without a hash.                                     *)
LEMMA MirrorFacts ==
  ASSUME NEW l \in Seq(Block), NEW d, Mirrors(d, l)
  PROVE  /\ \/ d = Segment(l, 0, Len(l))
            \/ /\ DOMAIN d = CheckpointHeight + 1 .. CheckpointHeight + Len(l) + 1
               /\ d[CheckpointHeight + Len(l) + 1].hash = Empty
         /\ \A h \in CheckpointHeight + 1 .. CheckpointHeight + Len(l) :
              /\ h \in DOMAIN d
              /\ h - CheckpointHeight \in 1 .. Len(l)
              /\ d[h] = Entry(l[h - CheckpointHeight])
              /\ d[h].hash = l[h - CheckpointHeight]
              /\ d[h].hash # Empty
         /\ \A h \in DOMAIN d : /\ h \in Nat /\ h > CheckpointHeight
                                /\ h <= CheckpointHeight + Len(l) + 1
<1> USE TreeAssumption
<1> DEFINE s == Segment(l, 0, Len(l))
           n == CheckpointHeight + Len(l) + 1
<1>1. Len(l) \in Nat /\ Len(l) \in 0 .. Len(l) /\ n \in Nat
  OBVIOUS
<1>2. /\ DOMAIN s = CheckpointHeight + 1 .. CheckpointHeight + Len(l)
      /\ \A h \in DOMAIN s : /\ h - CheckpointHeight \in 1 .. Len(l)
                             /\ s[h] = Entry(l[h - CheckpointHeight])
                             /\ s[h].hash = l[h - CheckpointHeight]
                             /\ l[h - CheckpointHeight] \in Block
  BY <1>1, SegmentFacts
<1>3. Image(l) = s /\ LibHeight(l) + 1 = n
  BY <1>1, ImageIsSegment DEF LibHeight
<1> HIDE DEF s
<1>4. CASE d = s
  BY <1>1, <1>2, <1>4 DEF s
<1>5. CASE \E e \in BlockEntry : e.hash = Empty /\ d = Put(Image(l), LibHeight(l) + 1, e)
  <2>1. PICK e \in BlockEntry : e.hash = Empty /\ d = Put(s, n, e)
    BY <1>3, <1>5
  <2>2. /\ DOMAIN d = DOMAIN s \cup {n}
        /\ d[n] = e
        /\ \A h \in DOMAIN s \ {n} : d[h] = s[h]
    BY <2>1 DEF Put
  <2>3. n \notin DOMAIN s
    BY <1>1, <1>2
  <2>4. DOMAIN d = CheckpointHeight + 1 .. n
    BY <1>1, <1>2, <2>2
  <2>5. \A h \in DOMAIN s : d[h] = s[h]
    BY <2>2, <2>3
  <2>6. d[n].hash = Empty
    BY <2>1, <2>2
  <2> QED
    BY <1>1, <1>2, <2>2, <2>4, <2>5, <2>6
<1> QED
  BY <1>3, <1>4, <1>5 DEF Mirrors

(* Conversely, such heights and entries make a mirror of libcomb.          *)
LEMMA MirrorFrom ==
  ASSUME NEW l \in Seq(Block), NEW d, d \in [DOMAIN d -> BlockEntry],
         \A h \in CheckpointHeight + 1 .. CheckpointHeight + Len(l) :
           h \in DOMAIN d /\ d[h] = Entry(l[h - CheckpointHeight]),
         \A h \in DOMAIN d :
           \/ h \in CheckpointHeight + 1 .. CheckpointHeight + Len(l)
           \/ h = CheckpointHeight + Len(l) + 1 /\ d[h].hash = Empty
  PROVE  Mirrors(d, l)
<1> USE TreeAssumption
<1> DEFINE s == Segment(l, 0, Len(l))
           n == CheckpointHeight + Len(l) + 1
<1>1. Len(l) \in Nat /\ n \in Nat
  OBVIOUS
<1>2. s = [h \in CheckpointHeight + 1 .. CheckpointHeight + Len(l)
             |-> Entry(l[h - CheckpointHeight])]
  <2>1. CheckpointHeight + 0 + 1 = CheckpointHeight + 1
    OBVIOUS
  <2> QED
    BY <2>1 DEF Segment
<1>3. Image(l) = s /\ LibHeight(l) + 1 = n
  BY <1>1, ImageIsSegment DEF LibHeight
<1> HIDE DEF s
<1>4. CASE n \notin DOMAIN d
  <2>1. DOMAIN d = CheckpointHeight + 1 .. CheckpointHeight + Len(l)
    BY <1>1, <1>4
  <2>2. d = s
    BY <1>2, <2>1
  <2> QED
    BY <1>3, <2>2 DEF Mirrors
<1>5. CASE n \in DOMAIN d
  <2>1. n \notin CheckpointHeight + 1 .. CheckpointHeight + Len(l)
    BY <1>1
  <2>2. d[n] \in BlockEntry /\ d[n].hash = Empty
    BY <1>5, <2>1
  <2>3. DOMAIN d = DOMAIN s \cup {n}
    BY <1>2, <1>5
  <2>4. \A h \in DOMAIN d : d[h] = IF h = n THEN d[n] ELSE s[h]
    BY <1>2, <2>3
  <2>5. d = [h \in DOMAIN d |-> d[h]]
    OBVIOUS
  <2>6. d = Put(s, n, d[n])
    BY <2>3, <2>4, <2>5 DEF Put
  <2> QED
    BY <1>3, <2>2, <2>6 DEF Mirrors
<1> QED
  BY <1>4, <1>5

(* Nothing written on top of the database leaves it as it is.              *)
LEMMA WriteNothing ==
  ASSUME NEW d, d \in [DOMAIN d -> BlockEntry]
  PROVE  Write(NoBlocks, d) = d
  BY DEF Write, NoBlocks

(* What libcomb holds, stored without anything on top.                     *)
LEMMA SegmentMirrors ==
  ASSUME NEW l \in Seq(Block), LinkedOrRestarted(l)
  PROVE  LET d == Segment(l, 0, Len(l))
         IN  Mirrors(d, l) /\ WellStored(d) /\ Write(NoBlocks, d) = d
<1> DEFINE d == Segment(l, 0, Len(l))
<1>1. Len(l) \in 0 .. Len(l)
  OBVIOUS
<1>2. Gapless(d) /\ d \in [DOMAIN d -> BlockEntry]
  BY <1>1, SegmentFacts
<1>3. \A h \in DOMAIN d : StoredAs(d, h)
  BY <1>1, StoredAsLinked
<1>4. Mirrors(d, l)
  BY ImageIsSegment DEF Mirrors
<1> HIDE DEF d
<1> QED
  BY <1>2, <1>3, <1>4, WriteNothing DEF WellStored, d

(* A block stored above such a database, on the last block, the checkpoint *)
(* or nothing: libcomb takes it if it has a hash, else discards it.        *)
LEMMA StoredOnTop ==
  ASSUME NEW l \in Seq(Block), LinkedOrRestarted(l), NEW d, Mirrors(d, l),
         d \in [DOMAIN d -> BlockEntry],
         NEW b \in Pushed, Prev[b] \in {Tip(l), Checkpoint, Empty}
  PROVE  LET w == Write(Put(NoBlocks, LibHeight(l) + 1, Entry(b)), d)
         IN  /\ WellStored(w)
             /\ b \in Block => Mirrors(w, Append(l, b))
             /\ b \notin Block => Mirrors(w, l)
<1> USE TreeAssumption
<1> DEFINE n == CheckpointHeight + Len(l) + 1
           w == Write(Put(NoBlocks, n, Entry(b)), d)
<1>1. Len(l) \in Nat /\ n \in Nat /\ LibHeight(l) + 1 = n
  BY DEF LibHeight
<1>2. /\ \A h \in CheckpointHeight + 1 .. CheckpointHeight + Len(l) :
           /\ h \in DOMAIN d
           /\ h - CheckpointHeight \in 1 .. Len(l)
           /\ d[h] = Entry(l[h - CheckpointHeight])
           /\ d[h].hash = l[h - CheckpointHeight]
           /\ d[h].hash # Empty
      /\ \A h \in DOMAIN d : h \in Nat /\ h > CheckpointHeight /\ h <= n
  BY MirrorFacts
<1>3. /\ DOMAIN w = {n} \cup DOMAIN d
      /\ w[n] = Entry(b)
      /\ \A h \in DOMAIN d \ {n} : w[h] = d[h]
      /\ w = [h \in DOMAIN w |-> w[h]]
  BY DEF Write, Put, NoBlocks
<1> HIDE DEF w
<1>4. DOMAIN w = CheckpointHeight + 1 .. n
  BY <1>1, <1>2, <1>3
<1>5. \A h \in CheckpointHeight + 1 .. CheckpointHeight + Len(l) :
        /\ h \in DOMAIN w /\ h # n
        /\ w[h] = Entry(l[h - CheckpointHeight])
        /\ w[h].hash = l[h - CheckpointHeight]
        /\ w[h].hash # Empty
  BY <1>1, <1>2, <1>3
<1>6. w[n] \in BlockEntry /\ w[n].previous = Prev[b]
      /\ w[n].hash = (IF b \in Block THEN b ELSE Empty)
  BY <1>3, PushedFacts
<1>7. w \in [DOMAIN w -> BlockEntry]
  <2>1. \A h \in DOMAIN w : w[h] \in BlockEntry
    BY <1>3, <1>6
  <2> QED
    BY <1>3, <2>1
<1>8. Gapless(w)
  <2>1. n \in DOMAIN w
    BY <1>3
  <2> QED
    BY <1>4, <2>1 DEF Gapless
<1>9. ASSUME NEW h \in DOMAIN w PROVE StoredAs(w, h)
  <2>1. CASE h = n
    <3>1. n + 1 \notin DOMAIN w /\ n > CheckpointHeight
      BY <1>1, <1>4
    <3>2. w[n].hash = Empty \/ w[n] = Entry(w[n].hash)
      BY <1>3, <1>6
    <3>3. ASSUME Prev[b] \notin {Checkpoint, Empty}
          PROVE  n - 1 \in DOMAIN w /\ w[n - 1].hash = Prev[b]
      <4>1. l # <<>> /\ Prev[b] = l[Len(l)] /\ Len(l) \in 1 .. Len(l)
        BY <3>3, TipFacts
      <4>2. n - 1 \in CheckpointHeight + 1 .. CheckpointHeight + Len(l)
            /\ (n - 1) - CheckpointHeight = Len(l)
        BY <1>1, <4>1
      <4> QED
        BY <1>5, <4>1, <4>2
    <3> QED
      BY <1>6, <2>1, <3>1, <3>2, <3>3 DEF StoredAs
  <2>2. CASE h # n
    <3> DEFINE i == h - CheckpointHeight
    <3>1. h \in CheckpointHeight + 1 .. CheckpointHeight + Len(l) /\ h \in Nat
      BY <1>1, <1>4, <2>2
    <3>2. i \in 1 .. Len(l) /\ l[i] \in Block /\ h > CheckpointHeight
      BY <1>1, <3>1
    <3>3. /\ w[h] = Entry(w[h].hash) /\ w[h].hash # Empty
          /\ w[h].previous = Prev[l[i]]
      <4>1. w[h] = Entry(l[i]) /\ w[h].hash = l[i] /\ w[h].hash # Empty
        BY <1>5, <3>1
      <4>2. Entry(l[i]).previous = Prev[l[i]]
        BY DEF Entry
      <4> QED
        BY <4>1, <4>2
    <3>4. Prev[l[i]] \in {Checkpoint, Empty} \/ (i > 1 /\ Prev[l[i]] = l[i - 1])
      BY <3>2 DEF LinkedOrRestarted
    <3>5. ASSUME i > 1 PROVE h - 1 \in DOMAIN w /\ w[h - 1].hash = l[i - 1]
      <4>1. h - 1 \in CheckpointHeight + 1 .. CheckpointHeight + Len(l)
            /\ (h - 1) - CheckpointHeight = i - 1
        BY <1>1, <3>1, <3>5
      <4> QED
        BY <1>5, <4>1
    <3> HIDE DEF i
    <3> QED
      BY <3>2, <3>3, <3>4, <3>5 DEF StoredAs
  <2> QED
    BY <2>1, <2>2
<1>10. ASSUME b \in Block PROVE Mirrors(w, Append(l, b))
  <2> DEFINE m == Append(l, b)
  <2>1. /\ m \in Seq(Block) /\ Len(m) = Len(l) + 1 /\ m[Len(l) + 1] = b
        /\ \A i \in 1 .. Len(l) : m[i] = l[i]
    BY <1>10, AppendFacts
  <2> HIDE DEF m
  <2>2. CheckpointHeight + Len(m) = n
    BY <1>1, <2>1
  <2>3. ASSUME NEW h \in CheckpointHeight + 1 .. CheckpointHeight + Len(m)
        PROVE  h \in DOMAIN w /\ w[h] = Entry(m[h - CheckpointHeight])
    <3>1. CASE h = n
      <4>1. h - CheckpointHeight = Len(l) + 1
        BY <1>1, <3>1
      <4> QED
        BY <1>3, <2>1, <3>1, <4>1
    <3>2. CASE h # n
      <4>1. h \in CheckpointHeight + 1 .. CheckpointHeight + Len(l)
            /\ h - CheckpointHeight \in 1 .. Len(l)
        <5>1. h \in Nat /\ CheckpointHeight < h /\ h < n
          BY <1>1, <2>2, <3>2
        <5> QED
          BY <1>1, <5>1
      <4> QED
        BY <1>5, <2>1, <4>1
    <3> QED
      BY <3>1, <3>2
  <2>4. \A h \in DOMAIN w : h \in CheckpointHeight + 1 .. CheckpointHeight + Len(m)
    BY <1>4, <2>2
  <2>5. Mirrors(w, m)
    BY <1>7, <2>1, <2>3, <2>4, MirrorFrom
  <2> QED
    BY <2>5 DEF m
<1>11. ASSUME b \notin Block PROVE Mirrors(w, l)
  <2>1. w[n].hash = Empty
    BY <1>6, <1>11
  <2>2. \A h \in DOMAIN w : \/ h \in CheckpointHeight + 1 .. CheckpointHeight + Len(l)
                            \/ h = CheckpointHeight + Len(l) + 1 /\ w[h].hash = Empty
    BY <1>1, <1>4, <2>1
  <2> QED
    BY <1>5, <1>7, <2>2, MirrorFrom
<1>12. WellStored(w)
  BY <1>8, <1>9 DEF WellStored
<1> QED
  BY <1>1, <1>10, <1>11, <1>12 DEF w

(* db_get_block_by_hash on such a database: a height not below any block   *)
(* with that hash, which is that of the block in libcomb's branch if there *)
(* is one, else of another block of the branch or of the one without hash; *)
(* zero if there is no block at all.                                       *)
LEMMA SearchMirror ==
  ASSUME NEW l \in Seq(Block), NEW d, Mirrors(d, l), NEW x
  PROVE  LET r == db_get_block_by_hash(d, x)
         IN  /\ r \in Nat
             /\ \A h \in DOMAIN d : d[h].hash = x => h <= r
             /\ \/ /\ r - CheckpointHeight \in 1 .. Len(l)
                   /\ l[r - CheckpointHeight] = x \/ \A i \in 1 .. Len(l) : l[i] # x
                \/ l = <<>> /\ d = NoBlocks /\ r = 0
                \/ r = LibHeight(l) + 1
<1> USE TreeAssumption
<1> DEFINE n == CheckpointHeight + Len(l) + 1
           r == db_get_block_by_hash(d, x)
           found == {h \in DOMAIN d : d[h].hash = x}
<1>1. Len(l) \in Nat /\ n \in Nat /\ LibHeight(l) + 1 = n
  BY DEF LibHeight
<1>2. /\ \A h \in CheckpointHeight + 1 .. CheckpointHeight + Len(l) :
           /\ h \in DOMAIN d
           /\ d[h].hash = l[h - CheckpointHeight]
      /\ \A h \in DOMAIN d : h \in Nat /\ h > CheckpointHeight /\ h <= n
      /\ \/ d = Segment(l, 0, Len(l))
         \/ DOMAIN d = CheckpointHeight + 1 .. n
  BY MirrorFacts
<1>3. \A h \in DOMAIN d : \/ h = n
                         \/ /\ h - CheckpointHeight \in 1 .. Len(l)
                            /\ d[h].hash = l[h - CheckpointHeight]
  <2> SUFFICES ASSUME NEW h \in DOMAIN d, h # n
               PROVE  /\ h - CheckpointHeight \in 1 .. Len(l)
                      /\ d[h].hash = l[h - CheckpointHeight]
    OBVIOUS
  <2>1. h \in Nat /\ h > CheckpointHeight /\ h <= n
    BY <1>2
  <2>2. h - CheckpointHeight \in 1 .. Len(l)
        /\ h \in CheckpointHeight + 1 .. CheckpointHeight + Len(l)
    BY <1>1, <2>1
  <2> QED
    BY <1>2, <2>2
<1>4. CASE found # {}
  <2>1. r = Max(found)
    BY <1>4 DEF db_get_block_by_hash
  <2>2. found \subseteq Nat /\ \A h \in found : h <= n
    BY <1>2
  <2> HIDE DEF found, r
  <2>3. r \in found /\ \A h \in found : r >= h
    <3>1. Max(found) \in found /\ \A h \in found : Max(found) >= h
      BY <1>1, <1>4, <2>2, MaxIsGreatest
    <3> QED
      BY <2>1, <3>1
  <2>4. r \in Nat /\ r \in DOMAIN d /\ d[r].hash = x
    BY <2>2, <2>3 DEF found
  <2>5. \A h \in DOMAIN d : d[h].hash = x => h <= r
    <3> SUFFICES ASSUME NEW h \in DOMAIN d, d[h].hash = x PROVE h <= r
      OBVIOUS
    <3>1. h \in found /\ h \in Nat
      BY <1>2 DEF found
    <3> QED
      BY <2>3, <2>4, <3>1
  <2> QED
    BY <1>1, <1>3, <2>4, <2>5 DEF r
<1>5. CASE found = {} /\ DOMAIN d # {}
  <2>1. r = Min(DOMAIN d)
    BY <1>5 DEF db_get_block_by_hash
  <2>2. DOMAIN d \subseteq Nat
    BY <1>2
  <2>3. r \in DOMAIN d
    BY <1>5, <2>1, <2>2, MinIsLeast
  <2>4. \A i \in 1 .. Len(l) : l[i] # x
    <3> SUFFICES ASSUME NEW i \in 1 .. Len(l), l[i] = x PROVE FALSE
      OBVIOUS
    <3>1. /\ CheckpointHeight + i \in CheckpointHeight + 1 .. CheckpointHeight + Len(l)
          /\ (CheckpointHeight + i) - CheckpointHeight = i
      BY <1>1
    <3>2. CheckpointHeight + i \in found
      BY <1>2, <3>1
    <3> QED
      BY <1>5, <3>2
  <2>5. \A h \in DOMAIN d : d[h].hash # x
    BY <1>5
  <2> HIDE DEF r
  <2> QED
    BY <1>1, <1>3, <2>2, <2>3, <2>4, <2>5 DEF r
<1>6. CASE DOMAIN d = {}
  <2>1. Len(l) = 0 /\ d = Segment(l, 0, Len(l))
    <3>1. n \in CheckpointHeight + 1 .. n
      BY <1>1
    <3>2. d = Segment(l, 0, Len(l))
      BY <1>2, <1>6, <3>1
    <3>3. ~(CheckpointHeight + 1 \in CheckpointHeight + 1 .. CheckpointHeight + Len(l))
      BY <1>2, <1>6
    <3> QED
      BY <1>1, <3>2, <3>3
  <2>2. d = NoBlocks
    BY <2>1, EmptySegment
  <2>3. r = 0
    BY <1>6 DEF db_get_block_by_hash
  <2>4. l = <<>>
    BY <2>1
  <2> QED
    BY <1>6, <2>2, <2>3, <2>4
<1> QED
  BY <1>4, <1>5, <1>6

(* db_remove_blocks_after cuts such a database to the lower part of the    *)
(* branch, or leaves it as it is.                                          *)
LEMMA CutMirror ==
  ASSUME NEW l \in Seq(Block), NEW d, Mirrors(d, l), d \in [DOMAIN d -> BlockEntry],
         NEW m \in Nat, NEW c, c \in [DOMAIN c -> BlockEntry],
         \A j \in DOMAIN c : j \in DOMAIN d /\ j < m + 1 /\ c[j] = d[j],
         \A j \in DOMAIN d : j < m + 1 => j \in DOMAIN c
  PROVE  /\ m - CheckpointHeight \in 1 .. Len(l) =>
              c = Segment(l, 0, m - CheckpointHeight)
         /\ m = LibHeight(l) + 1 => c = d
<1> USE TreeAssumption
<1> DEFINE n == CheckpointHeight + Len(l) + 1
<1>1. Len(l) \in Nat /\ n \in Nat /\ LibHeight(l) + 1 = n
  BY DEF LibHeight
<1>2. /\ \A h \in CheckpointHeight + 1 .. CheckpointHeight + Len(l) :
           h \in DOMAIN d /\ d[h] = Entry(l[h - CheckpointHeight])
      /\ \A h \in DOMAIN d : h \in Nat /\ h > CheckpointHeight /\ h <= n
  BY MirrorFacts
<1>3. c = [h \in DOMAIN c |-> c[h]] /\ d = [h \in DOMAIN d |-> d[h]]
  OBVIOUS
<1>4. ASSUME m - CheckpointHeight \in 1 .. Len(l)
      PROVE  c = Segment(l, 0, m - CheckpointHeight)
  <2>0. /\ CheckpointHeight + 0 + 1 = CheckpointHeight + 1
        /\ CheckpointHeight + (m - CheckpointHeight) = m
        /\ \A h \in CheckpointHeight + 1 .. m :
             h \in CheckpointHeight + 1 .. CheckpointHeight + Len(l) /\ h < m + 1
        /\ \A h \in Nat : h > CheckpointHeight /\ h < m + 1 => h \in CheckpointHeight + 1 .. m
    BY <1>1, <1>4
  <2>1. DOMAIN c = CheckpointHeight + 1 .. m
    BY <1>2, <2>0
  <2>2. \A h \in CheckpointHeight + 1 .. m : c[h] = Entry(l[h - CheckpointHeight])
    BY <1>2, <2>0, <2>1
  <2> QED
    BY <1>3, <2>0, <2>1, <2>2 DEF Segment
<1>5. ASSUME m = n PROVE c = d
  <2>1. DOMAIN c = DOMAIN d
    BY <1>1, <1>2, <1>5
  <2> QED
    BY <1>3, <2>1
<1> QED
  BY <1>1, <1>4, <1>5

-------------------------------------------------------------------------------
(* The invariant holds at the start, and through starts and ends.          *)

(* A process that has nothing in memory, on a database as the invariant    *)
(* has it.                                                                 *)
Down ==
  /\ DOMAIN disk \subseteq Nat /\ disk \in [DOMAIN disk -> BlockEntry]
  /\ dbfile \in {"missing", "created", "unversioned", "current"}
  /\ DiskInv
  /\ arg \in 0 .. MaxHeight
  /\ crashes \in 0 .. MaxCrashes
  /\ batch = NoBlocks /\ cached = 0
  /\ height = CheckpointHeight /\ hash = Checkpoint
  /\ chain = Put(NoBlocks, Checkpoint, Empty)
  /\ lib = <<>>
  /\ main = "down" /\ pending = {}
  /\ pc = "none" /\ block = Empty /\ target = Empty /\ meta = 0

(* Such a process satisfies the invariant.                                 *)
LEMMA DownInv == Down => Inv
<1> SUFFICES ASSUME Down PROVE Inv
  OBVIOUS
<1> USE DEF Down
<1> USE TreeAssumption, CapacityAssumption, RemoteNodeAssumption
<1>1. TypeOK
  <2>1. DOMAIN batch \subseteq Nat /\ batch \in [DOMAIN batch -> BlockEntry]
    BY DEF NoBlocks
  <2>2. /\ DOMAIN chain \subseteq Block \cup {Checkpoint}
        /\ chain \in [DOMAIN chain -> Block \cup {Checkpoint, Empty}]
    BY DEF NoBlocks, Put
  <2>3. main \in Mains /\ pc \in Pcs
    BY Places
  <2> QED
    BY <2>1, <2>2, <2>3 DEF TypeOK
<1>2. PanicsStoreNothing /\ FailsOnlyIfMisplaced
  BY DEF PanicsStoreNothing, FailsOnlyIfMisplaced, ChainPanics
<1>3. ChainInv
  BY DEF ChainInv, NoBlocks, Put
<1>4. LibInv
  BY EmptyLibHeight DEF LibInv, LinkedOrRestarted, Tip
<1>5. MirrorInv /\ LoadInv /\ HandlerInv
  BY DEF MirrorInv, LoadInv, HandlerInv
<1> QED
  BY <1>1, <1>2, <1>3, <1>4, <1>5 DEF Inv

(* Init: a node that was never started.                                    *)
LEMMA InitInv == Init => Inv
<1> SUFFICES ASSUME Init PROVE Inv
  OBVIOUS
<1> USE RemoteNodeAssumption DEF Init, NodeInit
<1>1. DiskInv
  BY DEF DiskInv, WellStored, Gapless, NoBlocks
<1>2. DOMAIN disk \subseteq Nat /\ disk \in [DOMAIN disk -> BlockEntry]
  BY DEF NoBlocks
<1>3. Down
  BY <1>1, <1>2 DEF Down
<1> QED
  BY <1>3, DownInv

(* The process ends, by a panic at the start or by a crash.                *)
LEMMA HaltInv == ASSUME Inv, Die \/ Crash PROVE Inv'
<1>1. /\ UNCHANGED <<disk, dbfile, arg>>
      /\ height' = CheckpointHeight /\ hash' = Checkpoint
      /\ chain' = Put(NoBlocks, Checkpoint, Empty)
      /\ lib' = <<>> /\ batch' = NoBlocks /\ cached' = 0
      /\ main' = "down" /\ pending' = {} /\ pc' = "none"
      /\ block' = Empty /\ target' = Empty /\ meta' = 0
  BY DEF Die, Crash, Halt, combcore_init, durable
<1>2. crashes' \in 0 .. MaxCrashes
  BY RemoteNodeAssumption DEF Die, Crash, Inv, TypeOK
<1>3. /\ DOMAIN disk' \subseteq Nat /\ disk' \in [DOMAIN disk' -> BlockEntry]
      /\ dbfile' \in {"missing", "created", "unversioned", "current"}
      /\ arg' \in 0 .. MaxHeight
  BY <1>1 DEF Inv, TypeOK
<1>4. DiskInv'
  BY <1>1 DEF Inv, DiskInv
<1>5. Down'
  BY <1>1, <1>2, <1>3, <1>4 DEF Down
<1> QED
  BY <1>5, DownInv, PTL

(* db_open.                                                                *)
LEMMA StartInv == ASSUME Inv, Start, UNCHANGED <<arg, crashes>> PROVE Inv'
<1> USE DEF Start, neo, info, call, Inv
<1>1. TypeOK'
  BY Places DEF TypeOK
<1>2. PanicsStoreNothing' /\ FailsOnlyIfMisplaced' /\ ChainInv' /\ LibInv'
  BY DEF PanicsStoreNothing, FailsOnlyIfMisplaced, ChainInv, LibInv
<1>3. DiskInv' /\ MirrorInv'
  BY DEF DiskInv, MirrorInv
<1>4. LoadInv'
  BY DEF LoadInv
<1>5. HandlerInv'
  BY DEF HandlerInv, LoadInv
<1> QED
  BY <1>1, <1>2, <1>3, <1>4, <1>5

(* db_new.                                                                 *)
LEMMA DbNewInv == ASSUME Inv, DbNew, UNCHANGED <<arg, crashes>> PROVE Inv'
<1> USE DEF DbNew, neo, info, call, Inv
<1>1. TypeOK'
  BY Places DEF TypeOK
<1>2. PanicsStoreNothing' /\ FailsOnlyIfMisplaced' /\ ChainInv' /\ LibInv'
  BY DEF PanicsStoreNothing, FailsOnlyIfMisplaced, ChainInv, LibInv
<1>3. DiskInv'
  BY DEF DiskInv
<1>4. MirrorInv'
  <2>1. lib' = <<>> /\ cached' = 0 /\ disk' = NoBlocks /\ batch' = NoBlocks /\ pc' = "none"
    BY DEF LoadInv, DiskInv, MirrorInv
  <2>2. /\ Segment(<<>>, 0, Len(<<>>)) = NoBlocks
        /\ <<>> \in Seq(Block) /\ LinkedOrRestarted(<<>>)
    BY EmptySegment DEF LinkedOrRestarted
  <2>3. Mirrors(NoBlocks, <<>>) /\ WellStored(NoBlocks) /\ Write(NoBlocks, NoBlocks) = NoBlocks
    BY <2>2, SegmentMirrors
  <2> QED
    BY <2>1, <2>3 DEF MirrorInv
<1>5. LoadInv'
  BY DEF LoadInv
<1>6. HandlerInv'
  BY DEF HandlerInv, LoadInv
<1> QED
  BY <1>1, <1>2, <1>3, <1>4, <1>5, <1>6

(* db_get_version, and the start of db_load.                               *)
LEMMA DbVersionInv == ASSUME Inv, DbVersion, UNCHANGED <<arg, crashes>> PROVE Inv'
<1>version. db_get_version = 2 <=> dbfile = "current"
  BY DEF db_get_version
<1>1. /\ \/ dbfile = "current" /\ main' = "load" /\ pending' = DOMAIN disk
         \/ main' = "legacy db" /\ pending' = {}
      /\ main = "open"
      /\ UNCHANGED <<disk, dbfile, batch, cached, height, hash, chain, lib, pc,
                     block, target, meta, arg, crashes>>
  BY <1>version DEF DbVersion, durable, neo, info, call
<1>2. pc = "none" /\ batch = NoBlocks /\ lib = <<>> /\ hash = Checkpoint
  BY <1>1 DEF Inv, LoadInv
<1>3. TypeOK'
  <2>1. main' \in Mains /\ pending' \subseteq DOMAIN disk'
    BY <1>1, Places
  <2> QED
    BY <1>1, <2>1 DEF TypeOK, Inv
<1>4. PanicsStoreNothing' /\ FailsOnlyIfMisplaced' /\ ChainInv' /\ LibInv'
  BY <1>1 DEF PanicsStoreNothing, FailsOnlyIfMisplaced, ChainInv, LibInv, Inv
<1>5. DiskInv' /\ MirrorInv'
  BY <1>1 DEF DiskInv, MirrorInv, Inv
<1>6. HandlerInv'
  BY <1>1, <1>2 DEF HandlerInv
<1>7. LoadInv'
  <2>1. LibHeight(lib') = CheckpointHeight /\ Len(lib') = 0 /\ hash' = Tip(lib')
    BY <1>1, <1>2, EmptyLibHeight DEF Tip
  <2>2. \A h \in DOMAIN disk' : h > CheckpointHeight
    BY <1>1 DEF Inv, DiskInv, WellStored, StoredAs
  <2>3. \A i \in 1 .. Len(lib') :
          CheckpointHeight + i \in DOMAIN disk'
            /\ disk'[CheckpointHeight + i].hash = lib'[i]
    BY <2>1, SMTT(30)
  <2>4. DOMAIN disk' = {h \in DOMAIN disk' : h > LibHeight(lib')}
    BY <2>1, <2>2
  <2> QED
    BY <1>1, <1>2, <2>1, <2>3, <2>4 DEF LoadInv
<1> QED
  BY <1>3, <1>4, <1>5, <1>6, <1>7 DEF Inv

(* combcore_process_block of a block that follows COMBInfo.Hash, filed     *)
(* under the next height, loads it.                                        *)
LEMMA LoadedBlock ==
  ASSUME Inv, NEW b \in Block, Prev[b] = hash, hash \in {Tip(lib), Checkpoint, Empty},
         combcore_process_block(Entry(b), LibHeight(lib) + 1)
  PROVE  /\ Verdict(Entry(b), LibHeight(lib) + 1) = "loaded"
         /\ lib' = Append(lib, b)
         /\ lib' \in Seq(Block)
         /\ Len(lib') = Len(lib) + 1
         /\ height' = LibHeight(lib')
         /\ height' \in Nat
         /\ hash' = b
         /\ hash' = Tip(lib')
         /\ LinkedOrRestarted(lib')
         /\ \A i \in 1 .. Len(lib') : lib'[i] \in DOMAIN chain'
         /\ DOMAIN chain' \subseteq Block \cup {Checkpoint}
         /\ chain' \in [DOMAIN chain' -> Block \cup {Checkpoint, Empty}]
         /\ ChainInv'
<1> USE TreeAssumption
<1>1. /\ lib \in Seq(Block) /\ Len(lib) \in Nat
      /\ DOMAIN chain \subseteq Block \cup {Checkpoint}
      /\ chain \in [DOMAIN chain -> Block \cup {Checkpoint, Empty}]
      /\ LinkedOrRestarted(lib)
      /\ \A i \in 1 .. Len(lib) : lib[i] \in DOMAIN chain
      /\ ChainInv
  BY DEF Inv, TypeOK, LibInv
<1>2. Verdict(Entry(b), LibHeight(lib) + 1) = "loaded"
  BY DEF Verdict, Entry
<1>3. /\ lib' = Append(lib, b)
      /\ height' = LibHeight(lib) + 1
      /\ hash' = b
      /\ chain' = Put(chain, b, hash)
  BY <1>2 DEF combcore_process_block, Entry
<1>4. /\ lib' \in Seq(Block)
      /\ Len(lib') = Len(lib) + 1
      /\ lib'[Len(lib) + 1] = b
      /\ \A i \in 1 .. Len(lib) : lib'[i] = lib[i]
  BY <1>1, <1>3, AppendFacts
<1>5. height' = LibHeight(lib') /\ height' \in Nat
  <2>1. LibHeight(lib') = CheckpointHeight + (Len(lib) + 1)
    BY <1>4 DEF LibHeight
  <2>2. height' = (CheckpointHeight + Len(lib)) + 1
    BY <1>3 DEF LibHeight
  <2> QED
    BY <1>1, <2>1, <2>2
<1>6. hash' = Tip(lib')
  BY <1>1, <1>3, <1>4 DEF Tip
<1>7. LinkedOrRestarted(lib')
  BY <1>1, <1>3, LinkedAppend
<1>8. /\ DOMAIN chain' = DOMAIN chain \cup {b}
      /\ chain'[b] = Prev[b]
      /\ \A x \in DOMAIN chain \ {b} : chain'[x] = chain[x]
  BY <1>3 DEF Put
<1>9. \A i \in 1 .. Len(lib') : lib'[i] \in DOMAIN chain'
  <2> SUFFICES ASSUME NEW i \in 1 .. Len(lib') PROVE lib'[i] \in DOMAIN chain'
    OBVIOUS
  <2>1. i \in 1 .. Len(lib) \/ i = Len(lib) + 1
    BY <1>1, <1>4
  <2> QED
    BY <1>1, <1>4, <1>8, <2>1
<1>10. /\ DOMAIN chain' \subseteq Block \cup {Checkpoint}
       /\ chain' \in [DOMAIN chain' -> Block \cup {Checkpoint, Empty}]
  BY <1>1, <1>3 DEF Put
<1>11. ChainInv'
  BY <1>1, <1>8 DEF ChainInv
<1> QED
  BY <1>2, <1>3, <1>4, <1>5, <1>6, <1>7, <1>9, <1>10, <1>11

(* The initial load delivers a block: one without a hash, which it         *)
(* discards, the next of the branch, which it loads, or one that was       *)
(* stored above a block it does not follow, at which it panics.            *)
LEMMA LoadNextInv == ASSUME Inv, LoadNext, UNCHANGED <<arg, crashes>> PROVE Inv'
<1> USE TreeAssumption
<1> DEFINE k == Min(pending)
           b == disk[k].hash
<1>1. /\ main = "load" /\ pending # {} /\ pending' = pending \ {k}
      /\ combcore_process_block(disk[k], k)
      /\ main' = IF Verdict(disk[k], k) \in ChainPanics
                 THEN "corruption height 0" ELSE "load"
      /\ UNCHANGED <<disk, dbfile, batch, cached, pc, block, target, meta, arg, crashes>>
  BY DEF LoadNext, durable, neo, call
<1>2. /\ pending = {h \in DOMAIN disk : h > LibHeight(lib)}
      /\ pc = "none" /\ batch = NoBlocks /\ dbfile = "current"
      /\ hash = Tip(lib)
      /\ lib \in Seq(Block) /\ Len(lib) \in Nat
      /\ DOMAIN disk \subseteq Nat /\ pending \subseteq DOMAIN disk
      /\ disk \in [DOMAIN disk -> BlockEntry]
  <2>1. /\ pending = {h \in DOMAIN disk : h > LibHeight(lib)}
        /\ pc = "none" /\ batch = NoBlocks /\ dbfile = "current"
        /\ hash = Tip(lib)
    BY <1>1 DEF Inv, LoadInv
  <2>2. /\ lib \in Seq(Block) /\ Len(lib) \in Nat
        /\ DOMAIN disk \subseteq Nat /\ pending \subseteq DOMAIN disk
        /\ disk \in [DOMAIN disk -> BlockEntry]
    BY DEF Inv, TypeOK
  <2> QED
    BY <2>1, <2>2
<1>height. LibHeight(lib) = CheckpointHeight + Len(lib) /\ LibHeight(lib) \in Nat
  BY <1>2 DEF LibHeight
<1>3. PICK m \in DOMAIN disk : DOMAIN disk = CheckpointHeight + 1 .. m
  <2>1. disk # NoBlocks
    BY <1>1, <1>2 DEF NoBlocks
  <2> QED
    BY <2>1 DEF Inv, DiskInv, WellStored, Gapless
<1>4. k = LibHeight(lib) + 1 /\ k \in DOMAIN disk /\ k \in pending
  <2>1. \A h \in pending : h \in Nat /\ LibHeight(lib) + 1 <= h /\ h <= m
    BY <1>2, <1>3, <1>height
  <2>2. PICK h \in pending : TRUE
    BY <1>1
  <2>3. LibHeight(lib) + 1 \in DOMAIN disk
    BY <1>2, <1>3, <1>height, <2>1, <2>2, SMTT(30)
  <2>4. LibHeight(lib) + 1 \in pending
    BY <1>2, <1>height, <2>3
  <2>5. pending \subseteq Nat
    BY <1>2
  <2>6. k \in pending /\ \A j \in pending : k <= j
    BY <1>1, <2>5, MinIsLeast
  <2> HIDE DEF k
  <2>7. k = LibHeight(lib) + 1
    <3>1. k <= LibHeight(lib) + 1 /\ LibHeight(lib) + 1 <= k /\ k \in Nat
      BY <2>1, <2>4, <2>6
    <3> QED
      BY <1>height, <3>1
  <2> QED
    BY <2>3, <2>6, <2>7
<1>stored. StoredAs(disk, k)
  BY <1>4 DEF Inv, DiskInv, WellStored
<1>5. b # Empty => b \in Block /\ disk[k] = Entry(b) /\ disk[k].previous = Prev[b]
  <2>1. disk[k] \in BlockEntry /\ (b # Empty => disk[k] = Entry(b))
    BY <1>2, <1>4, <1>stored DEF StoredAs
  <2> QED
    BY <2>1 DEF Entry, BlockEntry
<1> HIDE DEF k, b
<1>6. DiskInv' /\ HandlerInv' /\ MirrorInv'
  <2>1. main' # "idle"
    BY <1>1
  <2> QED
    BY <1>1, <1>2, <2>1 DEF Inv, DiskInv, HandlerInv, MirrorInv
<1>7. PanicsStoreNothing'
  BY <1>1, <1>2 DEF PanicsStoreNothing, ChainPanics
<1>8. pending' \subseteq DOMAIN disk'
  BY <1>1, <1>2
<1>9. CASE b # Empty /\ Prev[b] = hash
  <2>1. /\ Verdict(disk[k], k) = "loaded"
        /\ lib' = Append(lib, b)
        /\ lib' \in Seq(Block)
        /\ Len(lib') = Len(lib) + 1
        /\ height' = LibHeight(lib')
        /\ height' \in Nat
        /\ hash' = b
        /\ hash' = Tip(lib')
        /\ LinkedOrRestarted(lib')
        /\ \A i \in 1 .. Len(lib') : lib'[i] \in DOMAIN chain'
        /\ DOMAIN chain' \subseteq Block \cup {Checkpoint}
        /\ chain' \in [DOMAIN chain' -> Block \cup {Checkpoint, Empty}]
        /\ ChainInv'
    <3>1. combcore_process_block(Entry(b), LibHeight(lib) + 1)
      BY <1>1, <1>4, <1>5, <1>9
    <3> QED
      BY <1>2, <1>4, <1>5, <1>9, <3>1, LoadedBlock
  <2>2. main' = "load"
    BY <1>1, <2>1 DEF ChainPanics
  <2>3. TypeOK'
    <3>1. main' \in Mains /\ hash' \in Block
      BY <1>5, <1>9, <2>1, <2>2, Places
    <3> QED
      BY <1>1, <1>8, <2>1, <3>1 DEF Inv, TypeOK
  <2>4. LibInv' /\ FailsOnlyIfMisplaced'
    BY <2>1, <2>2 DEF LibInv, FailsOnlyIfMisplaced
  <2>5. LoadInv'
    <3>1. LibHeight(lib') = k
      <4>1. LibHeight(lib') = CheckpointHeight + (Len(lib) + 1)
        BY <2>1 DEF LibHeight
      <4> QED
        BY <1>2, <1>4, <1>height, <4>1
    <3>2. pending' = {h \in DOMAIN disk' : h > LibHeight(lib')}
      <4>1. \A h \in DOMAIN disk : h > k <=> h > LibHeight(lib) /\ h # k
        BY <1>2, <1>4, <1>height
      <4> QED
        BY <1>1, <1>2, <3>1, <4>1
    <3>3. \A i \in 1 .. Len(lib') : CheckpointHeight + i \in DOMAIN disk'
                                      /\ disk'[CheckpointHeight + i].hash = lib'[i]
      <4> SUFFICES ASSUME NEW i \in 1 .. Len(lib')
                   PROVE  CheckpointHeight + i \in DOMAIN disk
                            /\ disk[CheckpointHeight + i].hash = lib'[i]
        BY <1>1
      <4>1. lib'[Len(lib) + 1] = b /\ \A j \in 1 .. Len(lib) : lib'[j] = lib[j]
        <5>1. /\ Append(lib, b)[Len(lib) + 1] = b
              /\ \A j \in 1 .. Len(lib) : Append(lib, b)[j] = lib[j]
          BY <1>2, <1>5, AppendFacts
        <5> QED
          BY <2>1, <5>1
      <4>2. CASE i \in 1 .. Len(lib)
        <5>1. disk[CheckpointHeight + i].hash = lib[i] /\ CheckpointHeight + i \in DOMAIN disk
          BY <1>1, <4>2 DEF Inv, LoadInv
        <5> QED
          BY <4>1, <4>2, <5>1
      <4>3. CASE i = Len(lib) + 1
        <5>1. CheckpointHeight + i = k
          BY <1>2, <1>4, <1>height, <4>3
        <5> QED
          BY <1>4, <4>1, <4>3, <5>1 DEF b
      <4>4. i \in 1 .. Len(lib) \/ i = Len(lib) + 1
        <5>1. Len(lib') = Len(lib) + 1 /\ Len(lib) \in Nat
          BY <1>2, <2>1
        <5> QED
          BY <5>1
      <4> QED
        BY <4>2, <4>3, <4>4
    <3> QED
      BY <1>1, <1>2, <2>1, <2>2, <3>2, <3>3 DEF LoadInv
  <2> QED
    BY <1>6, <1>7, <2>1, <2>3, <2>4, <2>5 DEF Inv
<1>10. CASE b # Empty /\ Prev[b] # hash
  <2>1. Verdict(disk[k], k) = "chain is broken"
    BY <1>5, <1>10 DEF Verdict, Entry
  <2>2. main' = "corruption height 0" /\ UNCHANGED <<lib, height, chain, hash>>
    BY <1>1, <2>1 DEF combcore_process_block, ChainPanics
  <2>3. TypeOK'
    BY <1>1, <1>8, <2>2, Places DEF Inv, TypeOK
  <2>4. ChainInv' /\ LibInv' /\ LoadInv'
    BY <1>1, <1>2, <2>2 DEF Inv, ChainInv, LibInv, LoadInv
  <2>5. FailsOnlyIfMisplaced'
    <3>1. disk[k].previous \in {Checkpoint, Empty}
      <4> SUFFICES ASSUME k - 1 \in DOMAIN disk, disk[k].previous = disk[k - 1].hash
                   PROVE  FALSE
        BY <1>stored DEF StoredAs
      <4>1. k - 1 >= CheckpointHeight + 1
        BY <1>2, <1>3
      <4>2. lib # <<>>
        BY <1>4, <4>1, EmptyLibHeight
      <4>3. /\ Len(lib) \in 1 .. Len(lib) /\ hash = lib[Len(lib)]
            /\ k - 1 = CheckpointHeight + Len(lib)
        BY <1>2, <1>4, <1>height, <4>2, TipFacts
      <4>4. disk[k - 1].hash = hash
        BY <1>1, <4>3 DEF Inv, LoadInv
      <4> QED
        BY <1>5, <1>10, <4>4
    <3>2. disk[k].previous = Checkpoint => k > CheckpointHeight + 1
      <4> SUFFICES ASSUME disk[k].previous = Checkpoint, ~(k > CheckpointHeight + 1)
                   PROVE  FALSE
        OBVIOUS
      <4>1. Len(lib) = 0
        BY <1>2, <1>4, <1>height
      <4>2. hash = Checkpoint
        BY <1>2, <4>1 DEF Tip
      <4> QED
        BY <1>5, <1>10, <4>2
    <3>3. \E h \in DOMAIN disk :
            \/ disk[h].previous = Empty
            \/ disk[h].previous = Checkpoint /\ h > CheckpointHeight + 1
      BY <1>4, <3>1, <3>2
    <3> QED
      BY <1>1, <3>3 DEF FailsOnlyIfMisplaced
  <2> QED
    BY <1>6, <1>7, <2>3, <2>4, <2>5 DEF Inv
<1>11. CASE b = Empty
  <2>1. Verdict(disk[k], k) = "discarded"
    BY <1>11 DEF Verdict, b
  <2>2. main' = "load" /\ UNCHANGED <<lib, height, chain, hash>>
    BY <1>1, <2>1 DEF combcore_process_block, ChainPanics
  <2>3. \A h \in DOMAIN disk : h > LibHeight(lib) => h = k
    <3>1. k + 1 \notin DOMAIN disk
      BY <1>11, <1>stored DEF StoredAs, b
    <3>2. k \in Nat /\ m \in Nat /\ k <= m /\ ~(k + 1 <= m)
      BY <1>2, <1>3, <1>4, <3>1
    <3> QED
      BY <1>2, <1>3, <1>4, <1>height, <3>2
  <2>4. pending' = {} /\ \A h \in DOMAIN disk : h > LibHeight(lib) => disk[h].hash = Empty
    BY <1>1, <1>2, <1>11, <2>3 DEF b
  <2>5. TypeOK'
    BY <1>1, <1>8, <2>2, Places DEF Inv, TypeOK
  <2>6. ChainInv' /\ LibInv' /\ FailsOnlyIfMisplaced'
    BY <1>1, <2>2 DEF Inv, ChainInv, LibInv, FailsOnlyIfMisplaced
  <2>7. LoadInv'
    <3>1. \A i \in 1 .. Len(lib) : CheckpointHeight + i \in DOMAIN disk
                                     /\ disk[CheckpointHeight + i].hash = lib[i]
      BY <1>1 DEF Inv, LoadInv
    <3> QED
      BY <1>1, <1>2, <2>2, <2>4, <3>1 DEF LoadInv
  <2> QED
    BY <1>6, <1>7, <2>5, <2>6, <2>7 DEF Inv
<1> QED
  BY <1>9, <1>10, <1>11

(* When nothing is pending, libcomb holds what the database stores.        *)
LEMMA LoadDoneInv == ASSUME Inv, LoadDone, UNCHANGED <<arg, crashes>> PROVE Inv'
<1> USE TreeAssumption DEF LoadDone, durable, neo, info, call, Inv
<1>1. TypeOK'
  BY Places DEF TypeOK
<1>2. PanicsStoreNothing' /\ FailsOnlyIfMisplaced' /\ ChainInv' /\ LibInv'
  BY DEF PanicsStoreNothing, FailsOnlyIfMisplaced, ChainInv, LibInv
<1>3. DiskInv'
  BY DEF DiskInv
<1>4. LoadInv' /\ HandlerInv'
  BY DEF LoadInv, HandlerInv
<1>5. MirrorInv'
  <2>1. /\ lib \in Seq(Block) /\ Len(lib) \in Nat
        /\ disk \in [DOMAIN disk -> BlockEntry]
        /\ batch = NoBlocks /\ cached = 0 /\ pc = "none"
    BY DEF TypeOK, LoadInv, MirrorInv
  <2>2. \A h \in DOMAIN disk : h \in Nat /\ StoredAs(disk, h) /\ h > CheckpointHeight
    BY DEF TypeOK, DiskInv, WellStored, StoredAs
  <2>3. \A h \in DOMAIN disk : h > CheckpointHeight + Len(lib) => disk[h].hash = Empty
    BY DEF LoadInv, LibHeight
  <2>4. \A i \in 1 .. Len(lib) : /\ CheckpointHeight + i \in DOMAIN disk
                                /\ disk[CheckpointHeight + i].hash = lib[i]
                                /\ lib[i] \in Block
    BY <2>1 DEF LoadInv
  <2> HIDE DEF LoadDone, Inv
  <2>5. ASSUME NEW h \in CheckpointHeight + 1 .. CheckpointHeight + Len(lib)
        PROVE  h \in DOMAIN disk /\ disk[h] = Entry(lib[h - CheckpointHeight])
    <3>1. /\ h - CheckpointHeight \in 1 .. Len(lib)
          /\ CheckpointHeight + (h - CheckpointHeight) = h
      BY <2>1
    <3>2. h \in DOMAIN disk /\ disk[h].hash = lib[h - CheckpointHeight] /\ disk[h].hash # Empty
      BY <2>4, <3>1
    <3> QED
      BY <2>2, <3>2 DEF StoredAs
  <2>6. ASSUME NEW h \in DOMAIN disk
        PROVE  \/ h \in CheckpointHeight + 1 .. CheckpointHeight + Len(lib)
               \/ h = CheckpointHeight + Len(lib) + 1 /\ disk[h].hash = Empty
    <3> SUFFICES ASSUME ~(h <= CheckpointHeight + Len(lib) + 1) PROVE FALSE
      <4>1. Len(lib) \in Nat /\ h \in Nat /\ h > CheckpointHeight
        BY <2>1, <2>2
      <4>2. h = CheckpointHeight + Len(lib) + 1 => disk[h].hash = Empty
        BY <2>3, <4>1
      <4>3. h <= CheckpointHeight + Len(lib) + 1
              => \/ h \in CheckpointHeight + 1 .. CheckpointHeight + Len(lib)
                 \/ h = CheckpointHeight + Len(lib) + 1
        BY <4>1
      <4> QED
        BY <4>2, <4>3
    <3>1. PICK m \in DOMAIN disk : DOMAIN disk = CheckpointHeight + 1 .. m
      <4>1. disk # NoBlocks
        BY DEF NoBlocks
      <4> QED
        BY <4>1 DEF Inv, DiskInv, WellStored, Gapless
    <3> DEFINE g == CheckpointHeight + Len(lib) + 1
    <3>2. g \in DOMAIN disk /\ g + 1 \in DOMAIN disk /\ g > CheckpointHeight + Len(lib)
      BY <2>1, <2>2, <3>1
    <3> HIDE DEF g
    <3>3. disk[g].hash = Empty /\ StoredAs(disk, g)
      BY <2>2, <2>3, <3>2
    <3> QED
      BY <3>2, <3>3 DEF StoredAs
  <2>7. Mirrors(disk, lib)
    BY <2>1, <2>5, <2>6, MirrorFrom
  <2>8. Write(batch, disk) = disk /\ WellStored(disk)
    BY <2>1, WriteNothing DEF Inv, DiskInv
  <2>9. UNCHANGED <<disk, batch, cached, lib, pc, block>>
    BY DEF LoadDone, durable, neo, call
  <2> QED
    BY <2>1, <2>7, <2>8, <2>9 DEF MirrorInv
<1> QED
  BY <1>1, <1>2, <1>3, <1>4, <1>5

-------------------------------------------------------------------------------
(* The handlers.                                                           *)

(* api_db_push_block.                                                      *)
LEMMA PushBlockInv == ASSUME Inv, PushBlock PROVE Inv'
<1>1. /\ main = "idle" /\ pc = "none" /\ pc' = "process"
      /\ block' \in Pushed
      /\ UNCHANGED <<disk, dbfile, batch, cached, height, hash, chain, lib, main,
                     pending, target, meta, arg, crashes>>
  BY DEF PushBlock, durable, neo, info
<1>2. TypeOK'
  <2>1. pc' \in Pcs
    BY <1>1, Places
  <2> QED
    BY <1>1, <2>1 DEF Inv, TypeOK
<1>3. PanicsStoreNothing' /\ FailsOnlyIfMisplaced'
  BY <1>1 DEF PanicsStoreNothing, FailsOnlyIfMisplaced, ChainPanics
<1>4. ChainInv' /\ LibInv'
  BY <1>1 DEF Inv, ChainInv, LibInv
<1>5. DiskInv' /\ LoadInv'
  BY <1>1 DEF Inv, DiskInv, LoadInv
<1>6. MirrorInv'
  <2>1. cached = 0
    BY <1>1 DEF Inv, MirrorInv
  <2> QED
    BY <1>1, <2>1 DEF Inv, MirrorInv
<1>7. HandlerInv'
  BY <1>1 DEF HandlerInv
<1> QED
  BY <1>2, <1>3, <1>4, <1>5, <1>6, <1>7 DEF Inv

(* When no block is on its way, the database mirrors libcomb.              *)
LEMMA IdleMirror ==
  ASSUME Inv, main = "idle", pc # "unload", cached = 0
  PROVE  /\ lib \in Seq(Block) /\ Len(lib) \in Nat /\ LinkedOrRestarted(lib)
         /\ DOMAIN disk \subseteq Nat /\ disk \in [DOMAIN disk -> BlockEntry]
         /\ Mirrors(disk, lib) /\ WellStored(disk)
         /\ batch = NoBlocks /\ Write(batch, disk) = disk
<1>1. /\ lib \in Seq(Block) /\ LinkedOrRestarted(lib)
      /\ DOMAIN disk \subseteq Nat /\ disk \in [DOMAIN disk -> BlockEntry]
  BY DEF Inv, TypeOK, LibInv
<1>2. /\ Mirrors(Write(batch, disk), lib) /\ WellStored(Write(batch, disk))
      /\ batch = NoBlocks
  BY DEF Inv, MirrorInv
<1>3. Write(batch, disk) = disk
  BY <1>1, <1>2, WriteNothing
<1>4. Mirrors(disk, lib) /\ WellStored(disk)
  BY <1>2, <1>3
<1>5. Len(lib) \in Nat
  BY <1>1
<1> QED
  BY <1>1, <1>2, <1>3, <1>4, <1>5

(* db_get_block_by_height returns a stored hash or the all-zero one.       *)
LEMMA HashByHeight ==
  ASSUME DOMAIN disk \subseteq Nat, disk \in [DOMAIN disk -> BlockEntry], NEW h \in Nat
  PROVE  \/ /\ db_get_block_by_height(h) = Empty
            /\ \A k \in DOMAIN disk : ~(k >= h)
         \/ \E k \in DOMAIN disk :
              /\ k >= h
              /\ db_get_block_by_height(h) = disk[k].hash
              /\ disk[k].hash \in Block \cup {Empty}
<1> DEFINE above == {k \in DOMAIN disk : k >= h}
<1>1. CASE above = {}
  BY <1>1 DEF db_get_block_by_height
<1>2. CASE above # {}
  <2>1. db_get_block_by_height(h) = disk[Min(above)].hash
    BY <1>2 DEF db_get_block_by_height
  <2>2. above \subseteq Nat
    OBVIOUS
  <2> HIDE DEF above
  <2>3. Min(above) \in above
    BY <1>2, <2>2, MinIsLeast
  <2>4. Min(above) \in DOMAIN disk /\ Min(above) >= h
    BY <2>3 DEF above
  <2>5. disk[Min(above)].hash \in Block \cup {Empty}
    BY <2>4 DEF BlockEntry
  <2> QED
    BY <2>1, <2>4, <2>5
<1> QED
  BY <1>1, <1>2

(* api_db_remove_blocks_after_height, up to the search in combcore_reorg.  *)
LEMMA RemoveAfterHeightInv == ASSUME Inv, RemoveAfterHeight PROVE Inv'
<1> USE TreeAssumption, RemoteNodeAssumption
<1>1. /\ main = "idle" /\ pc = "none" /\ pc' = "trace" /\ block' = Empty
      /\ arg' \in 0 .. MaxHeight
      /\ target' = db_get_block_by_height(arg')
      /\ meta' = db_get_block_by_hash(disk, target')
      /\ UNCHANGED <<disk, dbfile, batch, cached, height, hash, chain, lib, main,
                     pending, crashes>>
  BY DEF RemoveAfterHeight, durable, neo, info
<1>2. cached = 0 /\ lib \in Seq(Block) /\ Len(lib) \in Nat
  BY <1>1 DEF Inv, MirrorInv, TypeOK
<1>3. Mirrors(disk, lib) /\ batch = NoBlocks
  BY <1>1, <1>2, IdleMirror
<1>4. target' \in Block \cup {Empty}
  <2>1. DOMAIN disk \subseteq Nat /\ disk \in [DOMAIN disk -> BlockEntry] /\ arg' \in Nat
    BY <1>1 DEF Inv, TypeOK
  <2> QED
    BY <1>1, <2>1, HashByHeight
<1>5. meta' \in Nat
  BY <1>1, <1>2, <1>3, SearchMirror
<1>6. TypeOK'
  <2>1. pc' \in Pcs
    BY <1>1, Places
  <2> QED
    BY <1>1, <1>4, <1>5, <2>1 DEF Inv, TypeOK
<1>7. PanicsStoreNothing' /\ FailsOnlyIfMisplaced'
  BY <1>1 DEF PanicsStoreNothing, FailsOnlyIfMisplaced, ChainPanics
<1>8. ChainInv' /\ LibInv'
  BY <1>1 DEF Inv, ChainInv, LibInv
<1>9. DiskInv' /\ LoadInv' /\ MirrorInv'
  BY <1>1, <1>2 DEF Inv, DiskInv, LoadInv, MirrorInv
<1>10. HandlerInv'
  <2>1. hash \in {Checkpoint, Empty} \/ \E k \in 1 .. Len(lib) : hash = lib[k]
    BY <1>1, <1>2, TipFacts DEF Inv, LibInv
  <2>2. target' = db_get_block_by_height(arg)'
    BY <1>1 DEF db_get_block_by_height
  <2>3. target' # Checkpoint
    BY <1>4
  <2> QED
    BY <1>1, <1>3, <2>1, <2>2, <2>3 DEF HandlerInv
<1> QED
  BY <1>6, <1>7, <1>8, <1>9, <1>10 DEF Inv

(* neominer_write: afterwards the database mirrors libcomb.                *)
LEMMA Written ==
  ASSUME Inv, main = "idle", pc # "unload", neominer_write, dbfile' = dbfile
  PROVE  /\ Mirrors(disk', lib) /\ WellStored(disk')
         /\ Write(batch', disk') = disk'
         /\ batch' = NoBlocks /\ cached' = 0
         /\ DOMAIN disk' \subseteq Nat /\ disk' \in [DOMAIN disk' -> BlockEntry]
         /\ DOMAIN batch' \subseteq Nat /\ batch' \in [DOMAIN batch' -> BlockEntry]
         /\ DOMAIN disk \subseteq DOMAIN disk'
         /\ DiskInv'
<1>1. disk' = Write(batch, disk) /\ batch' = NoBlocks /\ cached' = 0
  BY DEF neominer_write
<1>2. Mirrors(disk', lib) /\ WellStored(disk')
  BY <1>1 DEF Inv, MirrorInv
<1>3. /\ DOMAIN disk' \subseteq Nat /\ disk' \in [DOMAIN disk' -> BlockEntry]
      /\ DOMAIN disk \subseteq DOMAIN disk'
  <2>1. /\ DOMAIN disk \subseteq Nat /\ disk \in [DOMAIN disk -> BlockEntry]
        /\ DOMAIN batch \subseteq Nat /\ batch \in [DOMAIN batch -> BlockEntry]
    BY DEF Inv, TypeOK
  <2> QED
    BY <1>1, <2>1 DEF Write
<1>4. DOMAIN batch' \subseteq Nat /\ batch' \in [DOMAIN batch' -> BlockEntry]
  BY <1>1 DEF NoBlocks
<1>5. Write(batch', disk') = disk'
  BY <1>1, <1>3, WriteNothing
<1>6. DiskInv'
  <2>1. dbfile' \notin {"missing", "created"}
    BY DEF Inv, LoadInv
  <2> QED
    BY <1>2, <2>1 DEF DiskInv
<1> QED
  BY <1>1, <1>2, <1>3, <1>4, <1>5, <1>6

(* A handler returns, after a push with the batch written.                 *)
LEMMA ReturnInv == ASSUME Inv, Return PROVE Inv'
<1> USE RemoteNodeAssumption
<1>1. /\ pc = "ready" /\ pc' = "none"
      /\ \/ block = Empty /\ UNCHANGED <<disk, batch, cached>>
         \/ neominer_write
      /\ UNCHANGED <<dbfile, height, hash, chain, lib, main, pending, block, target,
                     meta, arg, crashes>>
  BY DEF Return, neo, info, call
<1>2. main = "idle"
  BY <1>1 DEF Inv, LoadInv
<1>3. /\ Mirrors(disk', lib) /\ WellStored(disk')
      /\ Write(batch', disk') = disk'
      /\ batch' = NoBlocks /\ cached' = 0
      /\ DOMAIN disk' \subseteq Nat /\ disk' \in [DOMAIN disk' -> BlockEntry]
      /\ DOMAIN batch' \subseteq Nat /\ batch' \in [DOMAIN batch' -> BlockEntry]
      /\ DOMAIN disk \subseteq DOMAIN disk'
      /\ DiskInv'
  <2>1. CASE block = Empty /\ UNCHANGED <<disk, batch, cached>>
    <3>1. cached = 0
      BY <2>1 DEF Inv, MirrorInv, TypeOK
    <3>2. /\ DOMAIN disk \subseteq Nat /\ disk \in [DOMAIN disk -> BlockEntry]
          /\ Mirrors(disk, lib) /\ WellStored(disk)
          /\ batch = NoBlocks /\ Write(batch, disk) = disk
      BY <1>1, <1>2, <3>1, IdleMirror
    <3>3. DOMAIN batch \subseteq Nat /\ batch \in [DOMAIN batch -> BlockEntry]
      BY DEF Inv, TypeOK
    <3>4. DiskInv'
      BY <1>1, <2>1 DEF Inv, DiskInv
    <3> QED
      BY <2>1, <3>1, <3>2, <3>3, <3>4
  <2>2. CASE neominer_write
    BY <1>1, <1>2, <2>2, Written
  <2> QED
    BY <1>1, <2>1, <2>2
<1>4. TypeOK'
  <2>1. pc' \in Pcs /\ pending' \subseteq DOMAIN disk'
    BY <1>1, <1>3, Places DEF Inv, TypeOK
  <2> QED
    BY <1>1, <1>3, <2>1 DEF Inv, TypeOK
<1>5. PanicsStoreNothing' /\ FailsOnlyIfMisplaced'
  BY <1>1, <1>2 DEF PanicsStoreNothing, FailsOnlyIfMisplaced, ChainPanics
<1>6. ChainInv' /\ LibInv'
  BY <1>1 DEF Inv, ChainInv, LibInv
<1>7. MirrorInv'
  BY <1>1, <1>3 DEF MirrorInv
<1>8. LoadInv' /\ HandlerInv'
  BY <1>1, <1>2 DEF Inv, LoadInv, HandlerInv
<1> QED
  BY <1>3, <1>4, <1>5, <1>6, <1>7, <1>8 DEF Inv

(* net/http recovers a panic: what was changed in memory stays changed.    *)
LEMMA RecoverInv == ASSUME Inv, Recover PROVE Inv'
<1>1. /\ pc \in {"chain broken", "past checkpoint"} /\ pc' = "none"
      /\ UNCHANGED <<disk, dbfile, batch, cached, height, hash, chain, lib, main,
                     pending, block, target, meta, arg, crashes>>
  BY DEF Recover, durable, neo, info, call, Inv, PanicsStoreNothing
<1>2. TypeOK'
  BY <1>1, Places DEF Inv, TypeOK
<1>3. PanicsStoreNothing' /\ FailsOnlyIfMisplaced'
  BY <1>1 DEF Inv, PanicsStoreNothing, FailsOnlyIfMisplaced, ChainPanics
<1>4. ChainInv' /\ LibInv'
  BY <1>1 DEF Inv, ChainInv, LibInv
<1>5. DiskInv' /\ MirrorInv'
  BY <1>1 DEF Inv, DiskInv, MirrorInv
<1>6. LoadInv' /\ HandlerInv'
  BY <1>1 DEF Inv, LoadInv, HandlerInv
<1> QED
  BY <1>2, <1>3, <1>4, <1>5, <1>6 DEF Inv

-------------------------------------------------------------------------------
(* The pipeline.                                                           *)

(* neominer_process_block looks at the previous block.                     *)
LEMMA DetectInv == ASSUME Inv, Detect, UNCHANGED <<arg, crashes>> PROVE Inv'
<1>1. /\ pc = "process"
      /\ pc' = IF Prev[block] = hash THEN "store"
               ELSE IF Prev[block] \in DOMAIN chain THEN "flush"
               ELSE "chain broken"
      /\ UNCHANGED <<disk, dbfile, batch, cached, height, hash, chain, lib, main,
                     pending, block, target, meta, arg, crashes>>
  BY DEF Detect, durable, neo, info, call
<1>2. /\ main = "idle" /\ cached = 0 /\ block \in Pushed
      /\ hash \in {Tip(lib), Checkpoint, Empty}
  BY <1>1 DEF Inv, LoadInv, MirrorInv, HandlerInv, LibInv
<1>3. \/ pc' = "store" /\ Prev[block] = hash
      \/ pc' = "flush"
      \/ pc' = "chain broken"
  BY <1>1
<1>4. TypeOK'
  <2>1. pc' \in Pcs
    BY <1>3, Places
  <2> QED
    BY <1>1, <2>1 DEF Inv, TypeOK
<1>5. PanicsStoreNothing' /\ FailsOnlyIfMisplaced'
  BY <1>1, <1>2, <1>3 DEF PanicsStoreNothing, FailsOnlyIfMisplaced, ChainPanics
<1>6. ChainInv' /\ LibInv'
  BY <1>1, <1>2 DEF Inv, ChainInv, LibInv
<1>7. DiskInv' /\ LoadInv'
  BY <1>1, <1>2 DEF Inv, DiskInv, LoadInv
<1>8. MirrorInv'
  BY <1>1, <1>2, <1>3 DEF Inv, MirrorInv
<1>9. HandlerInv'
  BY <1>1, <1>2, <1>3 DEF HandlerInv
<1> QED
  BY <1>4, <1>5, <1>6, <1>7, <1>8, <1>9 DEF Inv

(* The batch is written, and combcore_reorg searches for its target.       *)
LEMMA FlushForReorgInv == ASSUME Inv, FlushForReorg, UNCHANGED <<arg, crashes>> PROVE Inv'
<1>1. /\ pc = "flush" /\ pc' = "trace"
      /\ neominer_write
      /\ target' = Prev[block]
      /\ meta' = db_get_block_by_hash(disk', target')
      /\ UNCHANGED <<dbfile, height, hash, chain, lib, main, pending, block, arg, crashes>>
  BY DEF FlushForReorg, info
<1>2. main = "idle" /\ block \in Pushed /\ hash \in {Tip(lib), Checkpoint, Empty}
  BY <1>1 DEF Inv, LoadInv, HandlerInv, LibInv
<1>3. /\ Mirrors(disk', lib) /\ WellStored(disk')
      /\ Write(batch', disk') = disk'
      /\ batch' = NoBlocks /\ cached' = 0
      /\ DOMAIN disk' \subseteq Nat /\ disk' \in [DOMAIN disk' -> BlockEntry]
      /\ DOMAIN batch' \subseteq Nat /\ batch' \in [DOMAIN batch' -> BlockEntry]
      /\ DOMAIN disk \subseteq DOMAIN disk'
      /\ DiskInv'
  BY <1>1, <1>2, Written
<1>4. lib \in Seq(Block) /\ Len(lib) \in Nat
  BY DEF Inv, TypeOK
<1>5. meta' \in Nat
  BY <1>1, <1>3, <1>4, SearchMirror
<1>6. TypeOK'
  <2>1. pc' \in Pcs /\ pending' \subseteq DOMAIN disk' /\ target' \in Block \cup {Checkpoint, Empty}
    BY <1>1, <1>2, <1>3, Places, PushedFacts DEF Inv, TypeOK
  <2> QED
    BY <1>1, <1>3, <1>5, <2>1 DEF Inv, TypeOK
<1>7. PanicsStoreNothing' /\ FailsOnlyIfMisplaced'
  BY <1>1, <1>2 DEF PanicsStoreNothing, FailsOnlyIfMisplaced, ChainPanics
<1>8. ChainInv' /\ LibInv'
  BY <1>1 DEF Inv, ChainInv, LibInv
<1>9. MirrorInv'
  BY <1>1, <1>3 DEF MirrorInv
<1>10. LoadInv'
  BY <1>1, <1>2 DEF Inv, LoadInv
<1>11. HandlerInv'
  <2>1. hash \in {Checkpoint, Empty} \/ \E k \in 1 .. Len(lib) : hash = lib[k]
    BY <1>2, <1>4, TipFacts
  <2>2. block # Empty
    BY <1>2, PushedFacts
  <2> QED
    BY <1>1, <1>2, <1>3, <2>1, <2>2 DEF HandlerInv
<1> QED
  BY <1>3, <1>6, <1>7, <1>8, <1>9, <1>10, <1>11 DEF Inv

(* COMBInfo.Hash goes back by one block, or past the checkpoint.           *)
LEMMA TraceBackInv == ASSUME Inv, TraceBack, UNCHANGED <<arg, crashes>> PROVE Inv'
<1> USE TreeAssumption
<1>1. /\ pc = "trace"
      /\ \/ hash \in DOMAIN chain /\ hash' = chain[hash] /\ pc' = "trace"
         \/ hash' = Empty /\ pc' = "past checkpoint"
      /\ UNCHANGED <<disk, dbfile, batch, cached, height, chain, lib, main, pending,
                     block, target, meta, arg, crashes>>
  BY DEF TraceBack, durable, neo, call
<1>2. /\ main = "idle" /\ cached = 0 /\ batch = NoBlocks
      /\ hash \in {Checkpoint, Empty} \/ \E k \in 1 .. Len(lib) : hash = lib[k]
  BY <1>1 DEF Inv, LoadInv, MirrorInv, HandlerInv
<1>3. /\ lib \in Seq(Block)
      /\ DOMAIN chain \subseteq Block \cup {Checkpoint}
      /\ chain \in [DOMAIN chain -> Block \cup {Checkpoint, Empty}]
  BY DEF Inv, TypeOK
<1>4. hash' \in {Checkpoint, Empty} \/ \E k \in 1 .. Len(lib) : hash' = lib[k]
  <2>1. CASE hash' = Empty
    BY <2>1
  <2>2. CASE hash \in DOMAIN chain /\ hash' = chain[hash]
    <3>1. CASE hash = Checkpoint
      BY <2>2, <3>1 DEF Inv, ChainInv
    <3>2. CASE hash # Checkpoint
      <4>1. hash # Empty
        BY <1>3, <2>2
      <4>2. PICK k \in 1 .. Len(lib) : hash = lib[k]
        BY <1>2, <3>2, <4>1
      <4>3. hash' = Prev[lib[k]]
        BY <2>2, <3>2, <4>2 DEF Inv, ChainInv
      <4>4. Prev[lib[k]] \in {Checkpoint, Empty} \/ (k > 1 /\ Prev[lib[k]] = lib[k - 1])
        BY DEF Inv, LibInv, LinkedOrRestarted
      <4>5. k > 1 => k - 1 \in 1 .. Len(lib)
        BY <1>3
      <4> QED
        BY <4>3, <4>4, <4>5
    <3> QED
      BY <3>1, <3>2
  <2> QED
    BY <1>1, <2>1, <2>2
<1>5. TypeOK'
  <2>1. pc' \in Pcs
    BY <1>1, Places
  <2>2. hash' \in Block \cup {Checkpoint, Empty}
    BY <1>3, <1>4
  <2> QED
    BY <1>1, <2>1, <2>2 DEF Inv, TypeOK
<1>6. PanicsStoreNothing' /\ FailsOnlyIfMisplaced'
  BY <1>1, <1>2 DEF PanicsStoreNothing, FailsOnlyIfMisplaced, ChainPanics
<1>7. ChainInv' /\ LibInv'
  BY <1>1 DEF Inv, ChainInv, LibInv
<1>8. DiskInv' /\ LoadInv'
  BY <1>1, <1>2 DEF Inv, DiskInv, LoadInv
<1>9. MirrorInv'
  BY <1>1, <1>2 DEF Inv, MirrorInv
<1>10. HandlerInv'
  <2>1. /\ IF block = Empty THEN target # Checkpoint
           ELSE block \in Pushed /\ target = Prev[block]
        /\ meta = db_get_block_by_hash(disk, target)
        /\ block = Empty => target = db_get_block_by_height(arg)
    BY <1>1 DEF Inv, HandlerInv
  <2>2. db_get_block_by_height(arg)' = db_get_block_by_height(arg)
    BY <1>1 DEF db_get_block_by_height
  <2> QED
    BY <1>1, <1>2, <1>4, <2>1, <2>2 DEF HandlerInv
<1> QED
  BY <1>5, <1>6, <1>7, <1>8, <1>9, <1>10 DEF Inv

(* combcore_reorg has reached its target: where the database is cut.       *)
LEMMA CutFacts ==
  ASSUME Inv, RemoveBlocks
  PROVE  /\ main = "idle" /\ cached = 0 /\ batch = NoBlocks
         /\ lib \in Seq(Block) /\ Len(lib) \in Nat /\ LinkedOrRestarted(lib)
         /\ meta \in Nat
         /\ DOMAIN disk' \subseteq Nat /\ disk' \in [DOMAIN disk' -> BlockEntry]
         /\ WellStored(disk')
         /\ \/ /\ meta - CheckpointHeight \in 1 .. Len(lib)
               /\ hash \in {Checkpoint, Empty, lib[meta - CheckpointHeight]}
               /\ disk' = Segment(lib, 0, meta - CheckpointHeight)
            \/ lib = <<>> /\ disk' = NoBlocks /\ meta = 0 /\ hash \in {Checkpoint, Empty}
            \/ meta = LibHeight(lib) + 1
<1> USE TreeAssumption
<1>1. /\ pc = "trace" /\ hash = target
      /\ disk' = [h \in {j \in DOMAIN disk : j < meta + 1} |-> disk[h]]
  BY DEF RemoveBlocks, db_remove_blocks_after
<1>2. /\ main = "idle" /\ cached = 0 /\ meta \in Nat
      /\ hash \in {Checkpoint, Empty} \/ \E k \in 1 .. Len(lib) : hash = lib[k]
      /\ meta = db_get_block_by_hash(disk, hash)
  BY <1>1 DEF Inv, TypeOK, LoadInv, MirrorInv, HandlerInv
<1>3. /\ lib \in Seq(Block) /\ Len(lib) \in Nat /\ LinkedOrRestarted(lib)
      /\ DOMAIN disk \subseteq Nat /\ disk \in [DOMAIN disk -> BlockEntry]
      /\ Mirrors(disk, lib) /\ WellStored(disk) /\ batch = NoBlocks
  BY <1>1, <1>2, IdleMirror
<1>4. \/ /\ meta - CheckpointHeight \in 1 .. Len(lib)
         /\ lib[meta - CheckpointHeight] = hash \/ \A i \in 1 .. Len(lib) : lib[i] # hash
      \/ lib = <<>> /\ disk = NoBlocks /\ meta = 0
      \/ meta = LibHeight(lib) + 1
  BY <1>2, <1>3, SearchMirror
<1>cut. /\ meta - CheckpointHeight \in 1 .. Len(lib) =>
             disk' = Segment(lib, 0, meta - CheckpointHeight)
        /\ meta = LibHeight(lib) + 1 => disk' = disk
  <2>1. /\ lib \in Seq(Block) /\ meta \in Nat /\ Mirrors(disk, lib)
        /\ disk \in [DOMAIN disk -> BlockEntry]
    BY <1>2, <1>3
  <2>2. /\ \A j \in DOMAIN disk' : j \in DOMAIN disk /\ j < meta + 1 /\ disk'[j] = disk[j]
        /\ \A j \in DOMAIN disk : j < meta + 1 => j \in DOMAIN disk'
        /\ disk' = [j \in DOMAIN disk' |-> disk'[j]]
    BY <1>1
  <2>3. disk' \in [DOMAIN disk' -> BlockEntry]
    BY <2>1, <2>2
  <2> QED
    BY <2>1, <2>2, <2>3, CutMirror
<1>5. CASE /\ meta - CheckpointHeight \in 1 .. Len(lib)
           /\ lib[meta - CheckpointHeight] = hash \/ \A i \in 1 .. Len(lib) : lib[i] # hash
  <2> DEFINE k == meta - CheckpointHeight
  <2>1. disk' = Segment(lib, 0, k)
    BY <1>5, <1>cut
  <2>2. hash \in {Checkpoint, Empty, lib[k]}
    <3>1. CASE \E j \in 1 .. Len(lib) : hash = lib[j]
      BY <1>5, <3>1
    <3> QED
      BY <1>2, <3>1
  <2>3. k \in 0 .. Len(lib)
    BY <1>3, <1>5
  <2> HIDE DEF k
  <2>4. /\ DOMAIN disk' \subseteq Nat /\ disk' \in [DOMAIN disk' -> BlockEntry]
        /\ Gapless(disk')
    BY <1>3, <2>1, <2>3, SegmentFacts
  <2>5. \A h \in DOMAIN disk' : StoredAs(disk', h)
    BY <1>3, <2>1, <2>3, StoredAsLinked
  <2>6. WellStored(disk')
    BY <2>4, <2>5 DEF WellStored
  <2> QED
    BY <1>2, <1>3, <1>5, <2>1, <2>2, <2>4, <2>6 DEF k
<1>6. CASE lib = <<>> /\ disk = NoBlocks /\ meta = 0
  <2>1. disk' = disk
    BY <1>1, <1>6 DEF NoBlocks
  <2>2. hash \in {Checkpoint, Empty}
    BY <1>2, <1>6
  <2>3. WellStored(disk') /\ disk' = NoBlocks
    BY <1>3, <1>6, <2>1
  <2> QED
    BY <1>2, <1>3, <1>6, <2>1, <2>2, <2>3
<1>7. CASE meta = LibHeight(lib) + 1
  <2>1. disk' = disk
    BY <1>7, <1>cut
  <2>2. WellStored(disk')
    BY <1>3, <2>1
  <2> QED
    BY <1>2, <1>3, <1>7, <2>1, <2>2
<1> QED
  BY <1>4, <1>5, <1>6, <1>7

(* db_remove_blocks_after.                                                 *)
LEMMA RemoveBlocksInv == ASSUME Inv, RemoveBlocks, UNCHANGED <<arg, crashes>> PROVE Inv'
<1> USE TreeAssumption
<1>1. /\ pc = "trace" /\ hash = target /\ pc' = "unload"
      /\ UNCHANGED <<dbfile, batch, cached, height, hash, chain, lib, main, pending,
                     block, target, meta, arg, crashes>>
  BY DEF RemoveBlocks, neo, info, call
<1>2. /\ main = "idle" /\ cached = 0 /\ batch = NoBlocks
      /\ DOMAIN disk' \subseteq Nat /\ disk' \in [DOMAIN disk' -> BlockEntry]
      /\ WellStored(disk')
      /\ \/ /\ meta - CheckpointHeight \in 1 .. Len(lib)
            /\ hash \in {Checkpoint, Empty, lib[meta - CheckpointHeight]}
            /\ disk' = Segment(lib, 0, meta - CheckpointHeight)
         \/ lib = <<>> /\ disk' = NoBlocks /\ meta = 0 /\ hash \in {Checkpoint, Empty}
         \/ meta = LibHeight(lib) + 1
  BY CutFacts
<1>3. DiskInv'
  <2>1. dbfile' \notin {"missing", "created"}
    BY <1>1, <1>2 DEF Inv, LoadInv
  <2> QED
    BY <1>2, <2>1 DEF DiskInv
<1>4. TypeOK'
  <2>1. pc' \in Pcs
    BY <1>1, Places
  <2>2. pending' \subseteq DOMAIN disk'
    BY <1>1, <1>2 DEF Inv, LoadInv
  <2> QED
    BY <1>1, <1>2, <2>1, <2>2 DEF Inv, TypeOK
<1>5. PanicsStoreNothing' /\ FailsOnlyIfMisplaced'
  BY <1>1, <1>2 DEF PanicsStoreNothing, FailsOnlyIfMisplaced, ChainPanics
<1>6. ChainInv' /\ LibInv'
  BY <1>1 DEF Inv, ChainInv, LibInv
<1>7. LoadInv' /\ MirrorInv'
  BY <1>1, <1>2 DEF Inv, LoadInv, MirrorInv
<1>8. HandlerInv'
  <2>1. IF block = Empty THEN target # Checkpoint
        ELSE block \in Pushed /\ target = Prev[block]
    BY <1>1 DEF Inv, HandlerInv
  <2> QED
    BY <1>1, <1>2, <2>1 DEF HandlerInv, LibHeight
<1> QED
  BY <1>3, <1>4, <1>5, <1>6, <1>7, <1>8 DEF Inv

(* The UnloadBlock loop.                                                   *)
LEMMA UnloadBlocksInv == ASSUME Inv, UnloadBlocks, UNCHANGED <<arg, crashes>> PROVE Inv'
<1> USE TreeAssumption
<1> DEFINE k == meta - CheckpointHeight
<1>1. /\ pc = "unload" /\ meta \in CheckpointHeight .. height
      /\ lib' = SubSeq(lib, 1, Len(lib) - (height - meta))
      /\ height' = meta
      /\ pc' = IF block = Empty THEN "ready" ELSE "store"
      /\ UNCHANGED <<disk, dbfile, batch, cached, hash, chain, main, pending, block,
                     target, meta, arg, crashes>>
  BY DEF UnloadBlocks, durable, neo, call
<1>2. /\ main = "idle" /\ cached = 0 /\ batch = NoBlocks
      /\ IF block = Empty THEN target # Checkpoint
         ELSE block \in Pushed /\ target = Prev[block]
      /\ hash = target
  BY <1>1 DEF Inv, LoadInv, MirrorInv, HandlerInv
<1>3. /\ lib \in Seq(Block) /\ Len(lib) \in Nat /\ meta \in Nat
      /\ height = CheckpointHeight + Len(lib)
      /\ LinkedOrRestarted(lib)
      /\ \A i \in 1 .. Len(lib) : lib[i] \in DOMAIN chain
  BY DEF Inv, TypeOK, LibInv, LibHeight
<1>4. k \in 0 .. Len(lib) /\ lib' = SubSeq(lib, 1, k) /\ meta = CheckpointHeight + k
  BY <1>1, <1>3
<1>5. \/ /\ k \in 1 .. Len(lib)
         /\ hash \in {Checkpoint, Empty, lib[k]}
         /\ disk = Segment(lib, 0, k)
      \/ lib = <<>> /\ disk = NoBlocks /\ hash \in {Checkpoint, Empty}
  <2>1. meta # LibHeight(lib) + 1
    BY <1>1, <1>3 DEF LibHeight
  <2> QED
    BY <1>1, <2>1 DEF Inv, HandlerInv
<1> HIDE DEF k
<1>6. /\ lib' \in Seq(Block) /\ Len(lib') = k
      /\ \A i \in 1 .. k : lib'[i] = lib[i]
      /\ Segment(lib', 0, k) = Segment(lib, 0, k)
      /\ LinkedOrRestarted(lib')
  BY <1>3, <1>4, UnloadedSegment, LinkedPrefix
<1>7. disk' = Segment(lib', 0, k)
  <2>1. CASE lib = <<>> /\ disk = NoBlocks
    <3>1. k = 0
      BY <1>4, <2>1
    <3> QED
      BY <1>1, <2>1, <3>1, EmptySegment
  <2> QED
    BY <1>1, <1>5, <1>6, <2>1
<1>8. hash \in {Checkpoint, Empty, Tip(lib')}
  <2>1. CASE k \in 1 .. Len(lib) /\ hash = lib[k]
    <3>1. Tip(lib') = lib'[k] /\ lib'[k] = lib[k]
      BY <1>6, <2>1 DEF Tip
    <3> QED
      BY <2>1, <3>1
  <2> QED
    BY <1>5, <2>1
<1>9. \/ pc' = "ready" /\ block = Empty
      \/ pc' = "store" /\ block \in Pushed /\ hash = Prev[block]
  BY <1>1, <1>2
<1>10. TypeOK'
  <2>1. pc' \in Pcs
    BY <1>9, Places
  <2> QED
    BY <1>1, <1>6, <2>1 DEF Inv, TypeOK
<1>11. PanicsStoreNothing' /\ FailsOnlyIfMisplaced'
  BY <1>1, <1>2, <1>9 DEF PanicsStoreNothing, FailsOnlyIfMisplaced, ChainPanics
<1>12. ChainInv' /\ DiskInv' /\ LoadInv'
  BY <1>1, <1>2 DEF Inv, ChainInv, DiskInv, LoadInv
<1>13. LibInv'
  <2>1. height' = LibHeight(lib')
    BY <1>1, <1>4, <1>6 DEF LibHeight
  <2>2. \A i \in 1 .. Len(lib') : lib'[i] \in DOMAIN chain'
    BY <1>1, <1>3, <1>4, <1>6
  <2> QED
    BY <1>1, <1>6, <1>8, <1>9, <2>1, <2>2 DEF LibInv
<1>14. MirrorInv'
  <2>1. Mirrors(disk', lib') /\ WellStored(disk') /\ Write(NoBlocks, disk') = disk'
    BY <1>6, <1>7, SegmentMirrors
  <2> QED
    BY <1>1, <1>2, <2>1 DEF MirrorInv
<1>15. HandlerInv'
  BY <1>1, <1>8, <1>9 DEF HandlerInv
<1> QED
  BY <1>10, <1>11, <1>12, <1>13, <1>14, <1>15 DEF Inv

(* The block is put in the batch and loaded.                               *)
LEMMA StoreInv == ASSUME Inv, Store, UNCHANGED <<arg, crashes>> PROVE Inv'
<1> USE TreeAssumption
<1> DEFINE e == Entry(block)
           n == LibHeight(lib) + 1
<1>1. pc = "store" /\ UNCHANGED <<disk, dbfile, main, pending, block, target, meta, arg, crashes>>
  BY DEF Store, durable, call
<1>2. /\ main = "idle" /\ cached = 0 /\ block \in Pushed
      /\ Prev[block] = hash /\ hash \in {Tip(lib), Checkpoint, Empty}
  BY <1>1 DEF Inv, LoadInv, MirrorInv, HandlerInv
<1>3. block # Empty /\ e \in BlockEntry
  BY <1>2, PushedFacts
<1>4. /\ lib \in Seq(Block) /\ Len(lib) \in Nat /\ LinkedOrRestarted(lib)
      /\ disk \in [DOMAIN disk -> BlockEntry]
      /\ Mirrors(disk, lib) /\ batch = NoBlocks
  BY <1>1, <1>2, IdleMirror
<1>5. height = LibHeight(lib) /\ n \in Nat
  BY <1>4 DEF Inv, LibInv, LibHeight
<1>6. /\ batch' = Put(batch, n, e)
      /\ cached' = cached + 1
      /\ combcore_process_block(e, n)
      /\ pc' = IF Verdict(e, n) \in ChainPanics THEN Verdict(e, n)
               ELSE IF cached' >= BatchCapacity THEN "full" ELSE "ready"
  BY <1>2, <1>5 DEF Store, db_process_block
<1>7. /\ WellStored(Write(batch', disk'))
      /\ block \in Block => Mirrors(Write(batch', disk'), Append(lib, block))
      /\ block \notin Block => Mirrors(Write(batch', disk'), lib)
  <2>1. batch' = Put(NoBlocks, LibHeight(lib) + 1, Entry(block)) /\ disk' = disk
    BY <1>1, <1>4, <1>6
  <2> QED
    BY <1>2, <1>4, <2>1, StoredOnTop
<1>8. /\ Verdict(e, n) \in {"loaded", "discarded"}
      /\ Mirrors(Write(batch', disk'), lib')
      /\ lib' \in Seq(Block)
      /\ height' \in Nat
      /\ hash' \in Block \cup {Checkpoint, Empty}
      /\ DOMAIN chain' \subseteq Block \cup {Checkpoint}
      /\ chain' \in [DOMAIN chain' -> Block \cup {Checkpoint, Empty}]
      /\ ChainInv'
      /\ height' = LibHeight(lib')
      /\ LinkedOrRestarted(lib')
      /\ \A i \in 1 .. Len(lib') : lib'[i] \in DOMAIN chain'
      /\ hash' \in {Tip(lib'), Checkpoint, Empty}
  <2>1. CASE block \in Block
    <3>1. /\ Verdict(e, n) = "loaded"
          /\ lib' = Append(lib, block)
          /\ lib' \in Seq(Block)
          /\ height' = LibHeight(lib')
          /\ height' \in Nat
          /\ hash' = block
          /\ hash' = Tip(lib')
          /\ LinkedOrRestarted(lib')
          /\ \A i \in 1 .. Len(lib') : lib'[i] \in DOMAIN chain'
          /\ DOMAIN chain' \subseteq Block \cup {Checkpoint}
          /\ chain' \in [DOMAIN chain' -> Block \cup {Checkpoint, Empty}]
          /\ ChainInv'
      BY <1>2, <1>6, <2>1, LoadedBlock
    <3> HIDE DEF e, n
    <3> QED
      BY <1>7, <2>1, <3>1
  <2>2. CASE block \notin Block
    <3>1. Verdict(e, n) = "discarded"
      BY <1>2, <2>2, PushedFacts DEF Verdict
    <3>2. UNCHANGED <<lib, height, chain, hash>>
      BY <1>6, <3>1 DEF combcore_process_block
    <3>3. Mirrors(Write(batch', disk'), lib')
      BY <1>7, <2>2, <3>2
    <3>4. ChainInv'
      BY <3>2 DEF Inv, ChainInv
    <3> QED
      BY <1>2, <3>1, <3>2, <3>3, <3>4 DEF Inv, TypeOK, LibInv
  <2> QED
    BY <2>1, <2>2
<1>9. pc' \in {"full", "ready"} /\ cached' = 1
  <2>1. Verdict(e, n) \notin ChainPanics
    BY <1>8 DEF ChainPanics
  <2>2. cached' = 0 + 1
    BY <1>2, <1>6
  <2> QED
    BY <1>6, <2>1, <2>2
<1> HIDE DEF e, n
<1>10. DOMAIN batch' \subseteq Nat /\ batch' \in [DOMAIN batch' -> BlockEntry]
  BY <1>3, <1>4, <1>5, <1>6 DEF Put, NoBlocks
<1>11. TypeOK'
  <2>1. pc' \in Pcs /\ cached' \in Nat
    BY <1>9, Places
  <2> QED
    BY <1>1, <1>8, <1>10, <2>1 DEF Inv, TypeOK
<1>12. PanicsStoreNothing' /\ FailsOnlyIfMisplaced'
  BY <1>1, <1>2, <1>9 DEF PanicsStoreNothing, FailsOnlyIfMisplaced, ChainPanics
<1>13. LibInv'
  BY <1>8 DEF LibInv
<1>14. DiskInv' /\ LoadInv'
  BY <1>1, <1>2 DEF Inv, DiskInv, LoadInv
<1>15. MirrorInv'
  BY <1>1, <1>3, <1>7, <1>8, <1>9 DEF MirrorInv
<1>16. HandlerInv'
  BY <1>9 DEF HandlerInv
<1> QED
  BY <1>8, <1>11, <1>12, <1>13, <1>14, <1>15, <1>16 DEF Inv

(* The batch is full and is written.                                       *)
LEMMA FlushFullInv == ASSUME Inv, FlushFull, UNCHANGED <<arg, crashes>> PROVE Inv'
<1>1. /\ pc = "full" /\ pc' = "ready" /\ neominer_write
      /\ UNCHANGED <<dbfile, height, hash, chain, lib, main, pending, block, target,
                     meta, arg, crashes>>
  BY DEF FlushFull, info, call
<1>2. main = "idle"
  BY <1>1 DEF Inv, LoadInv
<1>3. /\ Mirrors(disk', lib) /\ WellStored(disk')
      /\ Write(batch', disk') = disk'
      /\ batch' = NoBlocks /\ cached' = 0
      /\ DOMAIN disk' \subseteq Nat /\ disk' \in [DOMAIN disk' -> BlockEntry]
      /\ DOMAIN batch' \subseteq Nat /\ batch' \in [DOMAIN batch' -> BlockEntry]
      /\ DOMAIN disk \subseteq DOMAIN disk'
      /\ DiskInv'
  BY <1>1, <1>2, Written
<1>4. TypeOK'
  <2>1. pc' \in Pcs /\ pending' \subseteq DOMAIN disk'
    BY <1>1, <1>3, Places DEF Inv, TypeOK
  <2> QED
    BY <1>1, <1>3, <2>1 DEF Inv, TypeOK
<1>5. PanicsStoreNothing' /\ FailsOnlyIfMisplaced'
  BY <1>1, <1>2 DEF PanicsStoreNothing, FailsOnlyIfMisplaced, ChainPanics
<1>6. ChainInv' /\ LibInv'
  BY <1>1 DEF Inv, ChainInv, LibInv
<1>7. MirrorInv'
  BY <1>1, <1>3 DEF MirrorInv
<1>8. LoadInv' /\ HandlerInv'
  BY <1>1, <1>2 DEF Inv, LoadInv, HandlerInv
<1> QED
  BY <1>3, <1>4, <1>5, <1>6, <1>7, <1>8 DEF Inv

-------------------------------------------------------------------------------
(* The theorems.                                                           *)

(* Every step preserves the invariant.                                     *)
LEMMA NextInv == Inv /\ [Next]_vars => Inv'
<1> SUFFICES ASSUME Inv, [Next]_vars PROVE Inv'
  OBVIOUS
<1>1. CASE PushBlock
  BY <1>1, PushBlockInv
<1>2. CASE RemoveAfterHeight
  BY <1>2, RemoveAfterHeightInv
<1>3. CASE Return
  BY <1>3, ReturnInv
<1>4. CASE Recover
  BY <1>4, RecoverInv
<1>5. CASE Die \/ Crash
  BY <1>5, HaltInv
<1>6. CASE Ingest /\ UNCHANGED <<arg, crashes>>
  BY <1>6, DetectInv, FlushForReorgInv, TraceBackInv, RemoveBlocksInv, UnloadBlocksInv,
     StoreInv, FlushFullInv DEF Ingest
<1>7. CASE Startup /\ UNCHANGED <<arg, crashes>>
  BY <1>7, StartInv, DbNewInv, DbVersionInv, LoadNextInv, LoadDoneInv DEF Startup
<1>8. CASE UNCHANGED vars
  <2> USE <1>8 DEF vars, nodeVars, Inv
  <2>1. TypeOK' /\ PanicsStoreNothing' /\ FailsOnlyIfMisplaced'
    BY DEF TypeOK, PanicsStoreNothing, FailsOnlyIfMisplaced
  <2>2. ChainInv' /\ LibInv' /\ DiskInv'
    BY DEF ChainInv, LibInv, DiskInv
  <2>3. MirrorInv' /\ LoadInv' /\ HandlerInv'
    BY DEF MirrorInv, LoadInv, HandlerInv, db_get_block_by_height
  <2> QED
    BY <2>1, <2>2, <2>3
<1>9. CASE Sleep
  BY <1>8, <1>9 DEF Sleep
<1> QED
  BY <1>1, <1>2, <1>3, <1>4, <1>5, <1>6, <1>7, <1>8, <1>9 DEF Next, NodeStep

(* The invariant holds of every reachable state of a remote node.          *)
THEOREM Invariance == Spec => []Inv
<1>1. Init => Inv
  BY InitInv
<1>2. Inv /\ [Next]_vars => Inv'
  BY NextInv
<1> QED
  BY <1>1, <1>2, PTL DEF Spec

(* Every variable has its type, in particular after a recovered panic.     *)
THEOREM TypeCorrect == Spec => []TypeOK
<1>1. Inv => TypeOK
  BY DEF Inv
<1> QED
  BY <1>1, Invariance, PTL

(* Whatever was pushed, repeated, rolled back or panicked before, when no  *)
(* handler runs the database holds block for block what libcomb has        *)
(* loaded, and at most one block without a hash above it, and nothing is   *)
(* pending (api_db_push_block, api_db_remove_blocks_after_height).         *)
THEOREM MirrorsLib == Spec => []DatabaseMirrorsLib
<1>1. Inv => DatabaseMirrorsLib
  <2> SUFFICES ASSUME Inv, main = "idle", pc = "none"
               PROVE  /\ Mirrors(disk, lib)
                      /\ height = LibHeight(lib)
                      /\ batch = NoBlocks
    BY DEF DatabaseMirrorsLib
  <2>1. cached = 0
    BY DEF Inv, MirrorInv
  <2>2. Mirrors(disk, lib) /\ batch = NoBlocks
    BY <2>1, IdleMirror
  <2>3. height = LibHeight(lib)
    BY DEF Inv, LibInv
  <2> QED
    BY <2>2, <2>3
<1> QED
  BY <1>1, Invariance, PTL

(* The panics a handler can meet come before anything is stored.           *)
THEOREM PanicsAreEarly == Spec => []PanicsStoreNothing
<1>1. Inv => PanicsStoreNothing
  BY DEF Inv
<1> QED
  BY <1>1, Invariance, PTL

(* A start fails only on a database that stores a second block following   *)
(* the checkpoint, or a block following nothing (db_load after any history *)
(* of pushes and crashes).                                                 *)
THEOREM StartsUnlessMisplaced == Spec => []FailsOnlyIfMisplaced
<1>1. Inv => FailsOnlyIfMisplaced
  BY DEF Inv
<1> QED
  BY <1>1, Invariance, PTL

(* What a step can do to the database: a write adds blocks that are stored *)
(* on their parents, a rollback cuts, and everything else leaves it alone. *)
LEMMA DiskSteps ==
  ASSUME Inv, [Next]_vars
  PROVE  \/ disk' = disk
         \/ DOMAIN disk \subseteq DOMAIN disk' /\ DiskInv'
         \/ RemoveBlocks
<1>1. CASE Return
  <2>1. CASE neominer_write
    <3>1. main = "idle" /\ pc # "unload" /\ dbfile' = dbfile
      BY <1>1 DEF Return, Inv, LoadInv
    <3> QED
      BY <2>1, <3>1, Written
  <2> QED
    BY <1>1, <2>1 DEF Return
<1>2. CASE FlushForReorg \/ FlushFull
  <2>1. main = "idle" /\ pc # "unload" /\ neominer_write /\ dbfile' = dbfile
    BY <1>2 DEF FlushForReorg, FlushFull, Inv, LoadInv
  <2> QED
    BY <2>1, Written
<1>3. CASE Detect \/ TraceBack \/ UnloadBlocks \/ Store
  BY <1>3 DEF Detect, TraceBack, UnloadBlocks, Store, durable
<1>4. CASE Startup
  BY <1>4 DEF Startup, Start, DbNew, DbVersion, LoadNext, LoadDone, durable
<1>5. CASE PushBlock \/ RemoveAfterHeight \/ Recover
  BY <1>5 DEF PushBlock, RemoveAfterHeight, Recover, durable
<1>6. CASE Die \/ Crash
  BY <1>6 DEF Die, Crash, Halt, durable
<1>7. CASE Sleep \/ UNCHANGED vars
  BY <1>7 DEF Sleep, vars, nodeVars
<1> QED
  BY <1>1, <1>2, <1>3, <1>4, <1>5, <1>6, <1>7 DEF Next, NodeStep, Ingest

(* No push, in whatever order, stores a block above one that is not its    *)
(* parent; only blocks that follow the checkpoint or nothing are exempt    *)
(* (neominer_process_block).                                               *)
THEOREM PushesOnParent == Spec => StoredOnParent
<1> DEFINE A == \A h \in DOMAIN disk' :
                  \/ h \in DOMAIN disk /\ disk'[h] = disk[h]
                  \/ disk'[h].previous \in {Checkpoint, Empty}
                  \/ h - 1 \in DOMAIN disk' /\ disk'[h].previous = disk'[h - 1].hash
<1>1. Inv /\ [Next]_vars => A
  <2> SUFFICES ASSUME Inv, [Next]_vars PROVE A
    OBVIOUS
  <2>1. CASE disk' = disk
    BY <2>1
  <2>2. CASE DiskInv'
    BY <2>2 DEF DiskInv, WellStored, StoredAs
  <2>3. CASE RemoveBlocks
    BY <2>3 DEF RemoveBlocks, db_remove_blocks_after
  <2> QED
    BY <2>1, <2>2, <2>3, DiskSteps
<1>2. Inv /\ [Next]_vars => [A]_vars
  BY <1>1
<1> QED
  BY <1>2, Invariance, PTL DEF Spec, StoredOnParent

(* A rollback to a height that is not above the tip deletes only blocks    *)
(* after that height (api_db_remove_blocks_after_height).                  *)
THEOREM RollbackKeepsLower == Spec => RemovesOnlyAfterHeight
<1> DEFINE A == \A h \in DOMAIN disk \ DOMAIN disk' :
                  block = Empty /\ arg <= Max(DOMAIN disk) => h > arg
<1>1. Inv /\ [Next]_vars => A
  <2> SUFFICES ASSUME Inv, [Next]_vars,
                      NEW h \in DOMAIN disk \ DOMAIN disk',
                      block = Empty, arg <= Max(DOMAIN disk)
               PROVE  h > arg
    OBVIOUS
  <2>1. RemoveBlocks
    BY DiskSteps
  <2>2. /\ disk' = [k \in {j \in DOMAIN disk : j < meta + 1} |-> disk[k]]
        /\ target = db_get_block_by_height(arg)
        /\ meta = db_get_block_by_hash(disk, target)
        /\ DOMAIN disk \subseteq Nat /\ disk \in [DOMAIN disk -> BlockEntry]
        /\ arg \in Nat /\ meta \in Nat
    BY <2>1, RemoteNodeAssumption
       DEF RemoveBlocks, db_remove_blocks_after, Inv, HandlerInv, TypeOK
  <2>3. lib \in Seq(Block) /\ Len(lib) \in Nat /\ Mirrors(disk, lib)
    <3>1. main = "idle" /\ cached = 0 /\ pc # "unload"
      BY <2>1, CutFacts DEF RemoveBlocks
    <3> QED
      BY <3>1, IdleMirror
  <2>4. h \in Nat /\ h > meta
    BY <2>2
  <2>5. Max(DOMAIN disk) \in DOMAIN disk
    <3>1. \A k \in DOMAIN disk : k <= CheckpointHeight + Len(lib) + 1
      BY <2>3, MirrorFacts
    <3>2. CheckpointHeight + Len(lib) + 1 \in Nat
      BY <2>3, TreeAssumption
    <3>3. DOMAIN disk # {}
      OBVIOUS
    <3> QED
      BY <2>2, <3>1, <3>2, <3>3, MaxIsGreatest
  <2>6. PICK k \in DOMAIN disk : k >= arg /\ target = disk[k].hash
    BY <2>2, <2>5, HashByHeight
  <2>7. k <= meta
    BY <2>2, <2>3, <2>6, SearchMirror
  <2> QED
    BY <2>2, <2>4, <2>6, <2>7
<1>2. Inv /\ [Next]_vars => [A]_vars
  BY <1>1
<1> QED
  BY <1>2, Invariance, PTL DEF Spec, RemovesOnlyAfterHeight

===============================================================================
