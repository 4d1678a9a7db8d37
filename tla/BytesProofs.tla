----------------------------- MODULE BytesProofs -----------------------------
(***************************************************************************)
(* Proofs about bytes: the block parser reads every block of Bitcoin's,    *)
(* whole or cut short anywhere, as it should (BtcParse), words survive     *)
(* their conversions, and the keys of the database are in the order of the *)
(* blocks (Hex).                                                           *)
(***************************************************************************)
EXTENDS BtcParse, Hex, SequenceTheorems, WellFoundedInduction, TLAPS

-------------------------------------------------------------------------------
(* Joined sequences.                                                       *)

(* Induction, over a set: the numbers that have the property.              *)
LEMMA InductionOverSet ==
  ASSUME NEW T \in SUBSET Nat, 0 \in T, \A n \in T : n + 1 \in T
  PROVE  T = Nat
<1> SUFFICES ASSUME Nat \ T # {} PROVE FALSE
  OBVIOUS
<1>1. PICK x \in Nat \ T : \A y \in Nat \ T : ~(<<y, x>> \in OpToRel(<, Nat))
  BY NatLessThanWellFounded, WFMin, Zenon
<1>2. x # 0 /\ x - 1 \in Nat /\ x - 1 < x /\ (x - 1) + 1 = x
  OBVIOUS
<1>3. x - 1 \in T
  BY <1>1, <1>2 DEF OpToRel
<1>4. (x - 1) + 1 \in T
  BY <1>3
<1> QED
  BY <1>1, <1>2, <1>4

IsFlat(f, ss, m) ==
  f = [k \in 1 .. m |-> IF k = 1 THEN ss[k] ELSE f[k - 1] \o ss[k]]

(* The recursive function in FlattenSeq exists.                            *)
LEMMA FlatExists ==
  ASSUME NEW ss, NEW m \in Nat PROVE \E f : IsFlat(f, ss, m)
<1> DEFINE T == {n \in Nat : \E f : IsFlat(f, ss, n)}
<1>1. 0 \in T
  <2> DEFINE e == [k \in 1 .. 0 |-> 0]
  <2>1. e = [k \in 1 .. 0 |-> IF k = 1 THEN ss[k] ELSE e[k - 1] \o ss[k]]
    OBVIOUS
  <2> HIDE DEF e
  <2>2. IsFlat(e, ss, 0)
    BY <2>1 DEF IsFlat
  <2> QED
    BY <2>2
<1>2. ASSUME NEW n \in T PROVE n + 1 \in T
  <2>1. PICK f : IsFlat(f, ss, n)
    OBVIOUS
  <2> DEFINE g == [k \in 1 .. n + 1 |-> IF k = 1 THEN ss[k] ELSE f[k - 1] \o ss[k]]
  <2>2. n \in Nat
    OBVIOUS
  <2>3. \A k \in 1 .. n : f[k] = IF k = 1 THEN ss[k] ELSE f[k - 1] \o ss[k]
    BY <2>1, Zenon DEF IsFlat
  <2>4. \A k \in 1 .. n : g[k] = f[k]
    BY <2>2, <2>3
  <2>5. ASSUME NEW k \in 1 .. n + 1, k # 1 PROVE g[k - 1] = f[k - 1]
    <3> HIDE DEF g
    <3>1. k - 1 \in 1 .. n
      BY <2>2, <2>5
    <3> QED
      BY <2>4, <3>1
  <2>6. g = [k \in 1 .. n + 1 |-> IF k = 1 THEN ss[k] ELSE g[k - 1] \o ss[k]]
    BY <2>5
  <2> HIDE DEF g
  <2>7. IsFlat(g, ss, n + 1)
    BY <2>6 DEF IsFlat
  <2> QED
    BY <2>2, <2>7
<1> HIDE DEF T
<1>3. T \in SUBSET Nat
  BY DEF T
<1>4. T = Nat
  BY <1>1, <1>2, <1>3, InductionOverSet
<1> QED
  BY <1>4 DEF T

(* FlattenSeq is the last value of it.                                     *)
LEMMA FlattenIsFlat ==
  ASSUME NEW ss, Len(ss) \in Nat \ {0}
  PROVE  \E f : IsFlat(f, ss, Len(ss)) /\ FlattenSeq(ss) = f[Len(ss)]
<1> DEFINE F == CHOOSE f : IsFlat(f, ss, Len(ss))
<1>1. IsFlat(F, ss, Len(ss))
  BY FlatExists, Zenon
<1>2. FlattenSeq(ss) = F[Len(ss)]
  BY DEF FlattenSeq, IsFlat
<1> QED
  BY <1>1, <1>2

Grows(f, ss, S) ==
  /\ \A k \in 1 .. Len(ss) : f[k] \in Seq(S)
  /\ Len(ss) > 0 => f[1] = ss[1]
  /\ \A k \in 1 .. Len(ss) - 1 : f[k + 1] = f[k] \o ss[k + 1]

(* The recursive function gives sequences, and each is one piece longer.   *)
LEMMA FlatSteps ==
  ASSUME NEW S, NEW ss \in Seq(Seq(S)), NEW f, IsFlat(f, ss, Len(ss))
  PROVE  Grows(f, ss, S)
<1>1. Len(ss) \in Nat /\ \A k \in 1 .. Len(ss) : ss[k] \in Seq(S)
  OBVIOUS
<1>2. \A k \in 1 .. Len(ss) : f[k] = IF k = 1 THEN ss[k] ELSE f[k - 1] \o ss[k]
  BY Zenon DEF IsFlat
<1>3. Len(ss) > 0 => f[1] = ss[1]
  BY <1>1, <1>2
<1>4. ASSUME NEW k \in 1 .. Len(ss) - 1 PROVE f[k + 1] = f[k] \o ss[k + 1]
  <2>1. k + 1 \in 1 .. Len(ss) /\ k + 1 # 1 /\ (k + 1) - 1 = k
    BY <1>1
  <2> QED
    BY <1>2, <2>1
<1> DEFINE T == {n \in Nat : n < Len(ss) => f[n + 1] \in Seq(S)}
<1>5. 0 \in T
  BY <1>1, <1>3
<1>6. ASSUME NEW n \in T PROVE n + 1 \in T
  <2> SUFFICES ASSUME n + 1 < Len(ss) PROVE f[(n + 1) + 1] \in Seq(S)
    OBVIOUS
  <2>1. n + 1 \in 1 .. Len(ss) - 1 /\ f[n + 1] \in Seq(S)
    BY <1>1
  <2>2. ss[(n + 1) + 1] \in Seq(S)
    BY <1>1, <2>1
  <2> QED
    BY <1>4, <2>1, <2>2, ConcatProperties
<1>7. T = Nat
  <2>1. T \in SUBSET Nat
    OBVIOUS
  <2> HIDE DEF T
  <2> QED
    BY <1>5, <1>6, <2>1, InductionOverSet
<1> HIDE DEF T
<1>8. ASSUME NEW k \in 1 .. Len(ss) PROVE f[k] \in Seq(S)
  <2>1. k - 1 \in Nat /\ k - 1 < Len(ss) /\ (k - 1) + 1 = k
    BY <1>1
  <2>2. f[(k - 1) + 1] \in Seq(S)
    BY <1>7, <2>1 DEF T
  <2> QED
    BY <2>1, <2>2
<1> QED
  BY <1>3, <1>4, <1>8 DEF Grows

(* Joining is the first piece, then the others joined.                     *)
LEMMA FlattenHead ==
  ASSUME NEW S, NEW ss \in Seq(Seq(S))
  PROVE  /\ FlattenSeq(ss) \in Seq(S)
         /\ ss = <<>> => FlattenSeq(ss) = <<>>
         /\ ss # <<>> => FlattenSeq(ss) = ss[1] \o FlattenSeq(Tail(ss))
<1>1. CASE ss = <<>>
  <2>1. FlattenSeq(ss) = <<>>
    BY <1>1 DEF FlattenSeq
  <2>2. <<>> \in Seq(S)
    BY EmptySeq
  <2> QED
    BY <1>1, <2>1, <2>2, Zenon
<1>2. CASE ss # <<>>
  <2> DEFINE tt == Tail(ss)
  <2>1. /\ Len(ss) \in Nat \ {0} /\ tt \in Seq(Seq(S)) /\ Len(tt) = Len(ss) - 1
        /\ \A k \in 1 .. Len(tt) : tt[k] = ss[k + 1]
        /\ ss[1] \in Seq(S)
        /\ \A k \in 1 .. Len(tt) : tt[k] \in Seq(S)
    BY <1>2, HeadTailProperties, EmptySeq
  <2> HIDE DEF tt
  <2>0. Len(ss) \in Nat \ {0} /\ Len(tt) = Len(ss) - 1
    BY <2>1
  <2>2. PICK f : IsFlat(f, ss, Len(ss)) /\ FlattenSeq(ss) = f[Len(ss)]
    BY <2>1, FlattenIsFlat
  <2>3. /\ \A k \in 1 .. Len(ss) : f[k] \in Seq(S)
        /\ f[1] = ss[1]
        /\ \A k \in 1 .. Len(ss) - 1 : f[k + 1] = f[k] \o ss[k + 1]
    <3>1. Grows(f, ss, S)
      BY <2>2, FlatSteps
    <3>2. Len(ss) > 0
      BY <2>0
    <3> QED
      BY <3>1, <3>2, Zenon DEF Grows
  <2>4. CASE Len(tt) = 0
    <3>1. tt = <<>> /\ Len(ss) = 1
      BY <2>1, <2>4, EmptySeq
    <3>2. FlattenSeq(tt) = <<>>
      BY <3>1 DEF FlattenSeq
    <3>3. FlattenSeq(ss) = ss[1] /\ ss[1] \o <<>> = ss[1]
      BY <2>1, <2>2, <2>3, <3>1, ConcatEmptySeq
    <3> QED
      BY <1>2, <2>1, <3>2, <3>3 DEF tt
  <2>5. CASE Len(tt) # 0
    <3>1. Len(tt) \in Nat \ {0}
      BY <2>1, <2>5
    <3>2. PICK g : IsFlat(g, tt, Len(tt)) /\ FlattenSeq(tt) = g[Len(tt)]
      BY <3>1, FlattenIsFlat
    <3>3. /\ \A k \in 1 .. Len(tt) : g[k] \in Seq(S)
          /\ g[1] = tt[1]
          /\ \A k \in 1 .. Len(tt) - 1 : g[k + 1] = g[k] \o tt[k + 1]
      <4>1. Grows(g, tt, S)
        BY <2>1, <3>2, FlatSteps
      <4>2. Len(tt) > 0
        BY <3>1
      <4> QED
        BY <4>1, <4>2, Zenon DEF Grows
    <3> DEFINE T == {n \in Nat : n < Len(tt) => f[n + 2] = ss[1] \o g[n + 1]}
    <3>4. 0 \in T
      <4>1. 1 \in 1 .. Len(ss) - 1 /\ 1 + 1 = 2 /\ 1 \in 1 .. Len(tt)
        BY <2>1, <3>1
      <4>2. f[2] = ss[1] \o tt[1]
        <5>1. f[1 + 1] = f[1] \o ss[1 + 1]
          BY <2>3, <4>1
        <5>2. tt[1] = ss[1 + 1]
          BY <2>1, <4>1
        <5> QED
          BY <2>3, <4>1, <5>1, <5>2, Zenon
      <4>3. f[0 + 2] = ss[1] \o g[0 + 1]
        <5>1. 0 + 2 = 2 /\ 0 + 1 = 1
          OBVIOUS
        <5> QED
          BY <3>3, <4>2, <5>1, Zenon
      <4> QED
        BY <4>3
    <3>5. ASSUME NEW n \in T PROVE n + 1 \in T
      <4>0. n \in Nat /\ n + 1 \in Nat
        OBVIOUS
      <4> SUFFICES ASSUME n + 1 < Len(tt)
                   PROVE  f[(n + 1) + 2] = ss[1] \o g[(n + 1) + 1]
        BY <4>0
      <4> HIDE DEF T
      <4>1. /\ n \in Nat /\ n + 2 \in 1 .. Len(ss) - 1 /\ n + 1 \in 1 .. Len(tt) - 1
            /\ (n + 1) + 1 \in 1 .. Len(tt) /\ (n + 2) + 1 = (n + 1) + 2
            /\ ((n + 1) + 1) + 1 = (n + 2) + 1 /\ n + 1 \in 1 .. Len(tt) /\ n < Len(tt)
        BY <2>0, <3>1, <4>0
      <4>2. f[(n + 1) + 2] = (ss[1] \o g[n + 1]) \o tt[(n + 1) + 1]
        <5>1. f[n + 2] = ss[1] \o g[n + 1]
          BY <4>1 DEF T
        <5>2. f[(n + 2) + 1] = f[n + 2] \o ss[(n + 2) + 1]
          BY <2>3, <4>1
        <5>3. ss[(n + 2) + 1] = tt[(n + 1) + 1]
          <6> DEFINE x == (n + 1) + 1
          <6>1. x \in 1 .. Len(tt) /\ x + 1 = (n + 2) + 1
            BY <4>1
          <6> HIDE DEF x
          <6>2. tt[x] = ss[x + 1]
            BY <2>1, <6>1, Zenon
          <6> QED
            BY <6>1, <6>2, Zenon DEF x
        <5> QED
          BY <4>1, <5>1, <5>2, <5>3, Zenon
      <4>3. g[(n + 1) + 1] = g[n + 1] \o tt[(n + 1) + 1]
        BY <3>3, <4>1
      <4>4. g[n + 1] \in Seq(S) /\ tt[(n + 1) + 1] \in Seq(S) /\ ss[1] \in Seq(S)
        BY <2>1, <3>3, <4>1
      <4>5. (ss[1] \o g[n + 1]) \o tt[(n + 1) + 1] = ss[1] \o (g[n + 1] \o tt[(n + 1) + 1])
        <5> DEFINE x == ss[1]
        <5> DEFINE y == g[n + 1]
        <5> DEFINE z == tt[(n + 1) + 1]
        <5>1. x \in Seq(S) /\ y \in Seq(S) /\ z \in Seq(S)
          BY <4>4
        <5> HIDE DEF x, y, z
        <5>2. (x \o y) \o z = x \o (y \o z)
          BY <5>1, ConcatAssociative
        <5> QED
          BY <5>2, Zenon DEF x, y, z
      <4> QED
        BY <4>2, <4>3, <4>5, Zenon
    <3>6. T = Nat
      <4>1. T \in SUBSET Nat
        OBVIOUS
      <4> HIDE DEF T
      <4> QED
        BY <3>4, <3>5, <4>1, InductionOverSet
    <3> HIDE DEF T
    <3>7. /\ Len(tt) - 1 \in Nat /\ Len(tt) - 1 < Len(tt)
          /\ (Len(tt) - 1) + 2 = Len(ss) /\ (Len(tt) - 1) + 1 = Len(tt)
      BY <2>1, <3>1
    <3>8. f[Len(ss)] = ss[1] \o g[Len(tt)]
      <4>1. f[(Len(tt) - 1) + 2] = ss[1] \o g[(Len(tt) - 1) + 1]
        BY <3>6, <3>7 DEF T
      <4> QED
        BY <3>7, <4>1
    <3>9. f[Len(ss)] \in Seq(S)
      BY <2>1, <2>3
    <3> QED
      BY <1>2, <2>2, <3>2, <3>8, <3>9 DEF tt
  <2> QED
    BY <2>4, <2>5
<1> QED
  BY <1>1, <1>2

(* What is left of joined pieces after n of them.                          *)
After(ss, n) == FlattenSeq(SubSeq(ss, n + 1, Len(ss)))

(* Nothing after the last; before it, the next piece and what is left      *)
(* after that.                                                             *)
LEMMA AfterStep ==
  ASSUME NEW S, NEW ss \in Seq(Seq(S)), NEW n \in 0 .. Len(ss)
  PROVE  /\ After(ss, n) \in Seq(S)
         /\ After(ss, 0) = FlattenSeq(ss)
         /\ n = Len(ss) => After(ss, n) = <<>>
         /\ n < Len(ss) => After(ss, n) = ss[n + 1] \o After(ss, n + 1)
<1> DEFINE tt == SubSeq(ss, n + 1, Len(ss))
<1>1. /\ tt \in Seq(Seq(S)) /\ Len(tt) = Len(ss) - n /\ Len(ss) \in Nat
      /\ \A k \in 1 .. Len(tt) : tt[k] = ss[n + k]
  <2>1. Len(ss) \in Nat /\ n + 1 \in Int /\ \A k \in n + 1 .. Len(ss) : ss[k] \in Seq(S)
    OBVIOUS
  <2>2. /\ tt \in Seq(Seq(S))
        /\ Len(tt) = IF n + 1 <= Len(ss) THEN Len(ss) - (n + 1) + 1 ELSE 0
        /\ \A k \in 1 .. Len(ss) - (n + 1) + 1 : tt[k] = ss[n + 1 + k - 1]
    BY <2>1, SubSeqProperties
  <2> HIDE DEF tt
  <2>3. Len(tt) = Len(ss) - n
    BY <2>1, <2>2
  <2>4. ASSUME NEW k \in 1 .. Len(tt) PROVE tt[k] = ss[n + k]
    <3>1. k \in 1 .. Len(ss) - (n + 1) + 1 /\ n + 1 + k - 1 = n + k
      BY <2>1, <2>3
    <3> QED
      BY <2>2, <3>1
  <2> QED
    BY <2>1, <2>2, <2>3, <2>4
<1>2. SubSeq(ss, 0 + 1, Len(ss)) = ss
  BY SubSeqFull
<1>3. After(ss, n) \in Seq(S)
  BY <1>1, FlattenHead DEF After
<1>4. ASSUME n = Len(ss) PROVE After(ss, n) = <<>>
  <2>1. tt = <<>>
    BY <1>1, <1>4, EmptySeq
  <2> QED
    BY <1>1, <2>1, FlattenHead DEF After
<1>5. ASSUME n < Len(ss) PROVE After(ss, n) = ss[n + 1] \o After(ss, n + 1)
  <2>1. tt # <<>> /\ tt[1] = ss[n + 1]
    <3> HIDE DEF tt
    <3>1. Len(tt) # 0 /\ 1 \in 1 .. Len(tt)
      BY <1>1, <1>5
    <3> QED
      BY <1>1, <3>1
  <2>2. n + 1 \in 1 .. Len(ss) /\ Len(ss) \in n + 1 .. Len(ss)
    BY <1>1, <1>5
  <2>3. Tail(tt) = SubSeq(ss, (n + 1) + 1, Len(ss))
    BY <2>2, HeadTailOfSubSeq
  <2> HIDE DEF tt
  <2>4. FlattenSeq(tt) = tt[1] \o FlattenSeq(Tail(tt))
    BY <1>1, <2>1, FlattenHead
  <2> QED
    BY <2>1, <2>3, <2>4 DEF After, tt
<1> QED
  BY <1>2, <1>3, <1>4, <1>5 DEF After

-------------------------------------------------------------------------------
(* What the parser has still to read, and what it has collected.           *)

(* d is r without its last c bytes.                                        *)
Reads(d, r, c) ==
  /\ d \in Seq(Byte)
  /\ r \in Seq(Byte)
  /\ Len(r) = Len(d) + c
  /\ \A k \in 1 .. Len(d) : d[k] = r[k]

(* The pieces of a block, and what follows the first n of them.            *)
InPieces(tx) == [k \in DOMAIN tx.ins |-> TxIn(tx.ins[k])]
OutPieces(tx) == [k \in DOMAIN tx.outs |-> TxOut(tx.outs[k])]
WitPieces(tx) == [k \in DOMAIN tx.witness |-> Witness(tx.witness[k])]
ItemPieces(items) == [k \in DOMAIN items |-> Sized(items[k])]
TxPieces(b) == [k \in DOMAIN b.txs |-> Transaction(b.txs[k])]

CommitPieces(tx) ==
  [k \in DOMAIN tx.outs |->
     IF IsCommit(tx.outs[k]) THEN <<SubSeq(tx.outs[k], 3, 34)>> ELSE <<>>]
TxCommitPieces(b) == [k \in DOMAIN b.txs |-> CommitsOfTx(b.txs[k])]

AfterWits(b, n) == Fill(4) \o After(TxPieces(b), n)
AfterOuts(b, n) == After(WitPieces(b.txs[n]), 0) \o AfterWits(b, n)
AfterIns(b, n) ==
  CompactSize(Len(b.txs[n].outs)) \o (After(OutPieces(b.txs[n]), 0) \o AfterOuts(b, n))

(* rest is what is left to read, more the commits left to collect.         *)
Left(rest, more) ==
  /\ Reads(data, rest, input.cut)
  /\ commits \in Seq(Seq(Byte))
  /\ commits \o more = CommitsOf(input.block)

InBlock ==
  /\ tx_count = Len(input.block.txs)
  /\ t \in 0 .. tx_count
  /\ previous = Reverse(input.block.previous)

(* Inside transaction t + 1.                                               *)
InTx(tx) ==
  /\ InBlock
  /\ t < tx_count
  /\ tx = input.block.txs[t + 1]
  /\ in_count = Len(tx.ins)
  /\ segwit = (tx.witness # <<>>)

(* The loop invariant of every place.                                      *)
AtHeader ==
  /\ pc = "header"
  /\ t = 0
  /\ Left(Serialize(input.block), CommitsOf(input.block))

AtTx ==
  /\ pc = "tx"
  /\ InBlock
  /\ Left(After(TxPieces(input.block), t), After(TxCommitPieces(input.block), t))

AtIn(tx) ==
  /\ pc = "in"
  /\ InTx(tx)
  /\ i \in 0 .. in_count
  /\ Left(After(InPieces(tx), i) \o AfterIns(input.block, t + 1),
          After(TxCommitPieces(input.block), t))

AtOut(tx) ==
  /\ pc = "out"
  /\ InTx(tx)
  /\ out_count = Len(tx.outs)
  /\ i \in 0 .. out_count
  /\ Left(After(OutPieces(tx), i) \o AfterOuts(input.block, t + 1),
          After(CommitPieces(tx), i) \o After(TxCommitPieces(input.block), t + 1))

AtWitness(tx) ==
  /\ pc = "witness"
  /\ InTx(tx)
  /\ segwit
  /\ i \in 0 .. in_count
  /\ Left(After(WitPieces(tx), i) \o AfterWits(input.block, t + 1),
          After(TxCommitPieces(input.block), t + 1))

AtItem(tx) ==
  /\ pc = "item"
  /\ InTx(tx)
  /\ segwit
  /\ i \in 0 .. in_count - 1
  /\ witness_count = Len(tx.witness[i + 1])
  /\ w \in 0 .. witness_count
  /\ Left(After(ItemPieces(tx.witness[i + 1]), w)
            \o (After(WitPieces(tx), i + 1) \o AfterWits(input.block, t + 1)),
          After(TxCommitPieces(input.block), t + 1))

AtLockTime(tx) ==
  /\ pc = "locktime"
  /\ InTx(tx)
  /\ Left(AfterWits(input.block, t + 1), After(TxCommitPieces(input.block), t + 1))

AtDone ==
  /\ pc = "done"
  /\ InBlock
  /\ Left(<<>>, <<>>)

AtPanic ==
  /\ pc = "panic"
  /\ input.cut > 0
  /\ IsPrefix(commits, CommitsOf(input.block))

ParseInv ==
  /\ input \in [block : Blocks, cut : Nat]
  /\ \/ AtHeader
     \/ AtTx
     \/ \E tx \in Range(input.block.txs) :
          AtIn(tx) \/ AtOut(tx) \/ AtWitness(tx) \/ AtItem(tx) \/ AtLockTime(tx)
     \/ AtDone
     \/ AtPanic

-------------------------------------------------------------------------------
(* The pieces are sequences of bytes.                                      *)

(* A byte is a number.                                                     *)
LEMMA ByteNat == \A x \in Byte : x \in Nat
  BY SMT DEF Byte

(* The bytes of a skipped field.                                           *)
LEMMA FillBytes ==
  ASSUME NEW n \in Nat
  PROVE  Fill(n) \in Seq(Byte) /\ Len(Fill(n)) = n
<1>1. \A k \in 1 .. n : 170 \in Byte
  BY DEF Byte
<1> QED
  BY <1>1 DEF Fill

(* The length of the longest block.                                        *)
LEMMA MaxLengthIs == MaxLength = 4000000
  BY SMT DEF MaxLength

(* CompactSize is one byte, or a mark and the bytes, lowest first.         *)
LEMMA CompactSizeBytes ==
  ASSUME NEW n \in Nat, n <= MaxLength
  PROVE  /\ CompactSize(n) \in Seq(Byte)
         /\ n < 253 => Len(CompactSize(n)) = 1 /\ CompactSize(n)[1] = n
         /\ n >= 253 /\ n < 65536 =>
              /\ Len(CompactSize(n)) = 3
              /\ CompactSize(n)[1] = 253
              /\ CompactSize(n)[2] + 256 * CompactSize(n)[3] = n
         /\ n >= 65536 =>
              /\ Len(CompactSize(n)) = 5
              /\ CompactSize(n)[1] = 254
              /\ CompactSize(n)[2] + 256 * CompactSize(n)[3]
                   + 65536 * (CompactSize(n)[4] + 256 * CompactSize(n)[5]) = n
<1>1. n \in Nat /\ n <= 4000000
  BY SMT, MaxLengthIs
<1>2. CASE n < 253
  <2>1. CompactSize(n) = <<n>> /\ n \in Byte
    BY SMT, <1>1, <1>2 DEF CompactSize, Byte
  <2> QED
    BY SMT, <1>1, <1>2, <2>1
<1>3. CASE n >= 253 /\ n < 65536
  <2> DEFINE a == n % 256
  <2> DEFINE b == n \div 256
  <2>1. CompactSize(n) = <<253, a, b>>
    BY SMT, <1>1, <1>3 DEF CompactSize
  <2>2. a \in Byte /\ b \in Byte /\ 253 \in Byte /\ a + 256 * b = n
    BY SMT, <1>1, <1>3 DEF Byte
  <2> HIDE DEF a, b
  <2>3. <<253, a, b>> \in Seq(Byte)
    BY SMT, <2>2
  <2> QED
    BY SMT, <1>1, <1>3, <2>1, <2>2, <2>3
<1>4. CASE n >= 65536
  <2> DEFINE a == n % 256
  <2> DEFINE b == (n \div 256) % 256
  <2> DEFINE c == (n \div 65536) % 256
  <2> DEFINE d == n \div 16777216
  <2>1. CompactSize(n) = <<254, a, b, c, d>>
    BY SMT, <1>1, <1>4 DEF CompactSize
  <2>2. a \in Byte /\ b \in Byte /\ c \in Byte /\ d \in Byte /\ 254 \in Byte
    BY SMT, <1>1, <1>4 DEF Byte
  <2>3. a + 256 * b + 65536 * (c + 256 * d) = n
    BY SMT, <1>1, <1>4
  <2> HIDE DEF a, b, c, d
  <2>4. <<254, a, b, c, d>> \in Seq(Byte)
    BY SMT, <2>2
  <2> QED
    BY SMT, <1>1, <1>4, <2>1, <2>2, <2>3, <2>4
<1> QED
  BY SMT, <1>1, <1>2, <1>3, <1>4

(* A field with its length before it.                                      *)
LEMMA SizedBytes ==
  ASSUME NEW s \in Bytes
  PROVE  /\ s \in Seq(Byte) /\ Len(s) \in Nat /\ Len(s) <= MaxLength
         /\ Sized(s) \in Seq(Byte)
         /\ Len(Sized(s)) = Len(CompactSize(Len(s))) + Len(s)
<1>1. s \in Seq(Byte) /\ Len(s) \in Nat /\ Len(s) <= MaxLength
  BY DEF Bytes
<1>2. CompactSize(Len(s)) \in Seq(Byte)
  BY <1>1, CompactSizeBytes
<1> QED
  BY <1>1, <1>2, ConcatProperties DEF Sized

(* Concatenation, of bytes.                                                *)
LEMMA ByteConcat == \A a, b \in Seq(Byte) : a \o b \in Seq(Byte)
  BY ConcatProperties

(* Its length.                                                             *)
LEMMA ByteLen ==
  \A a, b \in Seq(Byte) : Len(a) \in Nat /\ Len(b) \in Nat /\ Len(a \o b) = Len(a) + Len(b)
  BY ConcatProperties

Assoc(a, b, c) == (a \o b) \o c = a \o (b \o c)

(* Its brackets do not matter.                                             *)
LEMMA ByteAssoc == \A a, b, c \in Seq(Byte) : (a \o b) \o c = a \o (b \o c)
  BY ConcatAssociative

(* A part of some bytes.                                                   *)
LEMMA Part ==
  ASSUME NEW s \in Seq(Byte), NEW m \in Nat \ {0}, NEW n \in Nat, m <= n, n <= Len(s)
  PROVE  /\ SubSeq(s, m, n) \in Seq(Byte)
         /\ Len(SubSeq(s, m, n)) = n - m + 1
         /\ \A k \in 1 .. n - m + 1 : SubSeq(s, m, n)[k] = s[m + k - 1]
<1>1. Len(s) \in Nat /\ m \in Int /\ n \in Int /\ \A k \in m .. n : s[k] \in Byte
  OBVIOUS
<1> QED
  BY <1>1, SubSeqProperties

(* A sized field, an input and an output, before other bytes.              *)
LEMMA FieldBytes ==
  ASSUME NEW s \in Bytes, NEW q \in Seq(Byte)
  PROVE  /\ Sized(s) \in Seq(Byte) /\ TxIn(s) \in Seq(Byte) /\ TxOut(s) \in Seq(Byte)
         /\ Len(TxIn(s)) = 36 + Len(CompactSize(Len(s))) + Len(s) + 4
         /\ Len(TxOut(s)) = 8 + Len(CompactSize(Len(s))) + Len(s)
         /\ Sized(s) \o q = CompactSize(Len(s)) \o (s \o q)
         /\ TxIn(s) \o q = Fill(36) \o (CompactSize(Len(s)) \o (s \o (Fill(4) \o q)))
         /\ TxOut(s) \o q = Fill(8) \o (CompactSize(Len(s)) \o (s \o q))
<1> DEFINE c == CompactSize(Len(s))
<1> DEFINE m == Sized(s)
<1> DEFINE f4 == Fill(4)
<1> DEFINE f8 == Fill(8)
<1> DEFINE f36 == Fill(36)
<1>1. /\ s \in Seq(Byte) /\ Len(s) \in Nat /\ Len(s) <= MaxLength
      /\ m \in Seq(Byte) /\ Len(m) = Len(c) + Len(s)
  BY SizedBytes
<1>2. c \in Seq(Byte) /\ Len(c) \in Nat
  BY <1>1, CompactSizeBytes
<1>3. /\ f4 \in Seq(Byte) /\ f8 \in Seq(Byte) /\ f36 \in Seq(Byte)
      /\ Len(f4) = 4 /\ Len(f8) = 8 /\ Len(f36) = 36
  BY FillBytes
<1>4. m = c \o s /\ TxIn(s) = (f36 \o m) \o f4 /\ TxOut(s) = f8 \o m
  BY DEF Sized, TxIn, TxOut
<1> HIDE DEF c, m, f4, f8, f36
<1> DEFINE g == f4 \o q
<1>5. /\ c \in Seq(Byte) /\ s \in Seq(Byte) /\ m \in Seq(Byte) /\ f4 \in Seq(Byte)
      /\ f8 \in Seq(Byte) /\ f36 \in Seq(Byte) /\ g \in Seq(Byte)
  BY <1>1, <1>2, <1>3, ByteConcat, Zenon
<1> HIDE DEF g
<1>6. f36 \o m \in Seq(Byte) /\ f8 \o m \in Seq(Byte)
      /\ Len(f36 \o m) = 36 + Len(m) /\ Len(f8 \o m) = 8 + Len(m)
  <2>1. f36 \o m \in Seq(Byte) /\ f8 \o m \in Seq(Byte)
    BY <1>1, <1>3, ByteConcat, Zenon
  <2>2. Len(f36 \o m) = Len(f36) + Len(m) /\ Len(f8 \o m) = Len(f8) + Len(m)
    BY <1>1, <1>3, ByteLen, Zenon
  <2> QED
    BY <1>3, <2>1, <2>2, Zenon
<1>7. (f36 \o m) \o f4 \in Seq(Byte) /\ Len((f36 \o m) \o f4) = Len(f36 \o m) + 4
  <2> DEFINE x == f36 \o m
  <2>1. x \in Seq(Byte)
    BY <1>6, Zenon
  <2> HIDE DEF x
  <2>2. x \o f4 \in Seq(Byte)
    BY <1>3, <2>1, ByteConcat, Zenon
  <2>3. Len(x \o f4) = Len(x) + Len(f4)
    BY <1>3, <2>1, ByteLen, Zenon
  <2> QED
    BY <1>3, <2>2, <2>3, Zenon DEF x
<1>8. m \o q = c \o (s \o q) /\ m \o (f4 \o q) = c \o (s \o (f4 \o q))
  <2>1. c \in Seq(Byte) /\ s \in Seq(Byte)
    BY <1>5
  <2>2. g \in Seq(Byte)
    BY <1>5
  <2>3. (c \o s) \o q = c \o (s \o q)
    BY <2>1, ByteAssoc, Zenon
  <2>4. (c \o s) \o g = c \o (s \o g)
    BY <2>1, <2>2, ByteAssoc, Zenon
  <2> QED
    BY <1>4, <2>3, <2>4, Zenon DEF g
<1>9. ((f36 \o m) \o f4) \o q = f36 \o (m \o (f4 \o q)) /\ (f8 \o m) \o q = f8 \o (m \o q)
  <2>1. ((f36 \o m) \o f4) \o q = (f36 \o m) \o (f4 \o q)
    <3> DEFINE x == f36 \o m
    <3>1. x \in Seq(Byte)
      BY <1>6, Zenon
    <3> HIDE DEF x
    <3>2. (x \o f4) \o q = x \o (f4 \o q)
      BY <1>3, <3>1, ByteAssoc, Zenon
    <3> QED
      BY <3>2, Zenon DEF x
  <2>2. (f36 \o m) \o (f4 \o q) = f36 \o (m \o (f4 \o q))
    <3>1. f36 \in Seq(Byte) /\ m \in Seq(Byte) /\ g \in Seq(Byte)
      BY <1>5
    <3>2. (f36 \o m) \o g = f36 \o (m \o g)
      BY <3>1, ByteAssoc, Zenon
    <3> QED
      BY <3>2, Zenon DEF g
  <2>3. (f8 \o m) \o q = f8 \o (m \o q)
    <3>1. f8 \in Seq(Byte) /\ m \in Seq(Byte)
      BY <1>5
    <3> QED
      BY <3>1, ByteAssoc, Zenon
  <2> QED
    BY <2>1, <2>2, <2>3, Zenon
<1>10. Len(TxIn(s)) = 36 + Len(c) + Len(s) + 4 /\ Len(TxOut(s)) = 8 + Len(c) + Len(s)
  BY <1>1, <1>2, <1>4, <1>6, <1>7
<1>11. TxIn(s) \in Seq(Byte) /\ TxOut(s) \in Seq(Byte)
  BY <1>4, <1>6, <1>7, Zenon
<1> QED
  BY <1>1, <1>4, <1>8, <1>9, <1>10, <1>11, Zenon DEF c, m, f4, f8, f36

-------------------------------------------------------------------------------
(* Reading.                                                                *)

(* A piece is read and dropped, or bytes are missing.                      *)
LEMMA Drop ==
  ASSUME NEW d, NEW c \in Nat, NEW p \in Seq(Byte), NEW q \in Seq(Byte),
         Reads(d, p \o q, c)
  PROVE  /\ d \in Seq(Byte) /\ Len(d) \in Nat
         /\ \A k \in 1 .. Len(p) : k <= Len(d) => d[k] = p[k]
         /\ Len(p) <= Len(d) => Reads(SubSeq(d, Len(p) + 1, Len(d)), q, c)
         /\ Len(p) > Len(d) => c > 0
<1> DEFINE r == p \o q
<1> DEFINE e == SubSeq(d, Len(p) + 1, Len(d))
<1>1. /\ r \in Seq(Byte) /\ Len(r) = Len(p) + Len(q)
      /\ \A k \in 1 .. Len(p) + Len(q) : r[k] = IF k <= Len(p) THEN p[k] ELSE q[k - Len(p)]
  BY ConcatProperties
<1> HIDE DEF r
<1>2. d \in Seq(Byte) /\ Len(r) = Len(d) + c /\ \A k \in 1 .. Len(d) : d[k] = r[k]
  BY DEF Reads, r
<1>3. Len(d) \in Nat /\ Len(p) \in Nat /\ Len(q) \in Nat
  BY <1>2
<1>4. ASSUME NEW k \in 1 .. Len(p), k <= Len(d) PROVE d[k] = p[k]
  <2>1. k \in 1 .. Len(d) /\ k \in 1 .. Len(p) + Len(q) /\ k <= Len(p)
    BY <1>3, <1>4
  <2> QED
    BY <1>1, <1>2, <2>1
<1>5. ASSUME Len(p) <= Len(d) PROVE Reads(e, q, c)
  <2>1. /\ Len(p) + 1 \in Int /\ Len(d) \in Int
        /\ \A k \in Len(p) + 1 .. Len(d) : d[k] \in Byte
    BY <1>2, <1>3
  <2>2. /\ e \in Seq(Byte)
        /\ Len(e) = IF Len(p) + 1 <= Len(d) THEN Len(d) - (Len(p) + 1) + 1 ELSE 0
        /\ \A k \in 1 .. Len(d) - (Len(p) + 1) + 1 : e[k] = d[Len(p) + 1 + k - 1]
    BY <2>1, SubSeqProperties
  <2> HIDE DEF e
  <2>3. Len(e) = Len(d) - Len(p) /\ Len(q) = Len(e) + c
    <3>1. Len(r) = Len(p) + Len(q) /\ Len(r) = Len(d) + c
      BY <1>1, <1>2
    <3>2. Len(e) = IF Len(p) + 1 <= Len(d) THEN Len(d) - (Len(p) + 1) + 1 ELSE 0
      BY <2>2
    <3> QED
      BY <1>3, <1>5, <3>1, <3>2
  <2>4. ASSUME NEW k \in 1 .. Len(e) PROVE e[k] = q[k]
    <3>1. /\ k \in 1 .. Len(d) - (Len(p) + 1) + 1 /\ Len(p) + 1 + k - 1 = Len(p) + k
          /\ Len(p) + k \in 1 .. Len(d) /\ Len(p) + k \in 1 .. Len(p) + Len(q)
          /\ ~(Len(p) + k <= Len(p)) /\ (Len(p) + k) - Len(p) = k
      BY <1>3, <1>5, <2>3
    <3>2. e[k] = d[Len(p) + k]
      BY <2>2, <3>1
    <3>3. d[Len(p) + k] = r[Len(p) + k]
      BY <1>2, <3>1
    <3>4. r[Len(p) + k] = q[k]
      BY <1>1, <3>1
    <3> QED
      BY <3>2, <3>3, <3>4
  <2> QED
    BY <2>2, <2>3, <2>4 DEF Reads
<1>6. Len(p) > Len(d) => c > 0
  BY <1>1, <1>2, <1>3
<1> QED
  BY <1>2, <1>3, <1>4, <1>5, <1>6

(* The bytes in the middle.                                                *)
LEMMA At ==
  ASSUME NEW d, NEW c \in Nat, NEW p \in Seq(Byte), NEW e \in Seq(Byte), NEW q \in Seq(Byte),
         Reads(d, p \o (e \o q), c)
  PROVE  /\ d \in Seq(Byte) /\ Len(d) \in Nat /\ Len(p) \in Nat /\ Len(e) \in Nat
         /\ \A j \in 1 .. Len(e) : Len(p) + j <= Len(d) => d[Len(p) + j] = e[j]
         /\ Len(p) + Len(e) > Len(d) => c > 0
<1> DEFINE m == p \o e
<1>1. /\ m \in Seq(Byte) /\ Len(m) = Len(p) + Len(e)
      /\ \A k \in 1 .. Len(p) + Len(e) : m[k] = IF k <= Len(p) THEN p[k] ELSE e[k - Len(p)]
  BY ConcatProperties
<1>2. p \o (e \o q) = m \o q
  BY ByteAssoc, Zenon
<1> HIDE DEF m
<1>3. Reads(d, m \o q, c)
  BY <1>2, Zenon
<1>4. /\ d \in Seq(Byte) /\ Len(d) \in Nat
      /\ \A k \in 1 .. Len(m) : k <= Len(d) => d[k] = m[k]
      /\ Len(m) > Len(d) => c > 0
  BY <1>1, <1>3, Drop
<1>5. Len(p) \in Nat /\ Len(e) \in Nat
  OBVIOUS
<1>6. ASSUME NEW j \in 1 .. Len(e), Len(p) + j <= Len(d) PROVE d[Len(p) + j] = e[j]
  <2>1. /\ Len(p) + j \in 1 .. Len(p) + Len(e) /\ ~(Len(p) + j <= Len(p))
        /\ (Len(p) + j) - Len(p) = j
    BY <1>5
  <2>2. m[Len(p) + j] = e[j]
    BY <1>1, <2>1
  <2>3. d[Len(p) + j] = m[Len(p) + j]
    BY <1>1, <1>4, <1>6, <2>1
  <2> QED
    BY <2>2, <2>3
<1> QED
  BY <1>1, <1>4, <1>5, <1>6

InMiddle(d, p, e, c) ==
  /\ d \in Seq(Byte) /\ Len(d) \in Nat /\ Len(p) \in Nat /\ Len(e) \in Nat
  /\ \A j \in 1 .. Len(e) : Len(p) + j <= Len(d) => d[Len(p) + j] = e[j]
  /\ Len(p) + Len(e) > Len(d) => c > 0

(* The same, under a name.                                                 *)
LEMMA AtMiddle ==
  ASSUME NEW d, NEW c \in Nat, NEW p \in Seq(Byte), NEW e \in Seq(Byte), NEW q \in Seq(Byte),
         Reads(d, p \o (e \o q), c)
  PROVE  InMiddle(d, p, e, c)
  BY At DEF InMiddle

(* btc_parse_varint, by the first byte.                                    *)
LEMMA VarintCases ==
  ASSUME NEW k \in Nat, data \in Seq(Byte)
  PROVE  /\ btc_parse_varint(k).next > k /\ btc_parse_varint(k).next \in Nat
         /\ btc_parse_varint(k).next > Len(data) => btc_parse_varint(k).value \in Nat
         /\ k < Len(data) /\ data[k + 1] < 253 =>
              btc_parse_varint(k).value = data[k + 1] /\ btc_parse_varint(k).next = k + 1
         /\ k < Len(data) /\ data[k + 1] = 253 =>
              /\ btc_parse_varint(k).next = k + 3
              /\ k + 3 <= Len(data) => btc_parse_varint(k).value = Uint16(k + 1)
         /\ k < Len(data) /\ data[k + 1] = 254 =>
              /\ btc_parse_varint(k).next = k + 5
              /\ k + 5 <= Len(data) => btc_parse_varint(k).value = Uint32(k + 1)
<1>1. Len(data) \in Nat /\ \A j \in 1 .. Len(data) : data[j] \in Nat
  BY ByteNat
<1>2. btc_parse_varint(k).next > k /\ btc_parse_varint(k).next \in Nat
  BY <1>1, SMT DEF btc_parse_varint
<1>3. ASSUME btc_parse_varint(k).next > Len(data) PROVE btc_parse_varint(k).value \in Nat
  BY <1>1, <1>3, SMT DEF btc_parse_varint
<1>4. ASSUME k < Len(data), data[k + 1] < 253
      PROVE  btc_parse_varint(k).value = data[k + 1] /\ btc_parse_varint(k).next = k + 1
  <2>1. data[k + 1] \in Nat
    BY <1>1, <1>4
  <2>2. data[k + 1] # 253 /\ data[k + 1] # 254 /\ data[k + 1] # 255
    BY <1>4, <2>1, SMT
  <2> QED
    BY <1>1, <1>4, <2>1, <2>2, SMT DEF btc_parse_varint
<1>5. ASSUME k < Len(data), data[k + 1] = 253
      PROVE  /\ btc_parse_varint(k).next = k + 3
             /\ k + 3 <= Len(data) => btc_parse_varint(k).value = Uint16(k + 1)
  BY <1>1, <1>5, SMT DEF btc_parse_varint
<1>6. ASSUME k < Len(data), data[k + 1] = 254
      PROVE  /\ btc_parse_varint(k).next = k + 5
             /\ k + 5 <= Len(data) => btc_parse_varint(k).value = Uint32(k + 1)
  BY <1>1, <1>6, SMT DEF btc_parse_varint
<1> QED
  BY <1>2, <1>3, <1>4, <1>5, <1>6

(* The result x of btc_parse_varint is v and the offset n, or bytes are    *)
(* missing.                                                                *)
Finds(x, v, n, c) ==
  /\ x.next \in Nat
  /\ x.next <= Len(data) => x.value = v /\ x.next = n
  /\ x.next > Len(data) => x.value \in Nat /\ c > 0

(* Where a CompactSize stands, btc_parse_varint finds its number.          *)
LEMMA VarintFinds ==
  ASSUME NEW c \in Nat, NEW p \in Seq(Byte), NEW q \in Seq(Byte),
         NEW v \in Nat, v <= MaxLength,
         Reads(data, p \o (CompactSize(v) \o q), c)
  PROVE  Finds(btc_parse_varint(Len(p)), v, Len(p) + Len(CompactSize(v)), c)
<1> DEFINE e == CompactSize(v)
<1> DEFINE k == Len(p)
<1> DEFINE x == btc_parse_varint(k)
<1>1. /\ e \in Seq(Byte)
      /\ v < 253 => Len(e) = 1 /\ e[1] = v
      /\ v >= 253 /\ v < 65536 => Len(e) = 3 /\ e[1] = 253 /\ e[2] + 256 * e[3] = v
      /\ v >= 65536 => /\ Len(e) = 5 /\ e[1] = 254
                       /\ e[2] + 256 * e[3] + 65536 * (e[4] + 256 * e[5]) = v
  BY SMT, CompactSizeBytes
<1> HIDE DEF e
<1>2. /\ data \in Seq(Byte) /\ Len(data) \in Nat /\ k \in Nat /\ Len(e) \in Nat
      /\ \A j \in 1 .. Len(e) : k + j <= Len(data) => data[k + j] = e[j]
      /\ k + Len(e) > Len(data) => c > 0
  BY <1>1, At DEF e
<1> HIDE DEF k
<1>3. /\ x.next > k /\ x.next \in Nat
      /\ x.next > Len(data) => x.value \in Nat
      /\ k < Len(data) /\ data[k + 1] < 253 => x.value = data[k + 1] /\ x.next = k + 1
      /\ k < Len(data) /\ data[k + 1] = 253 =>
           x.next = k + 3 /\ (k + 3 <= Len(data) => x.value = Uint16(k + 1))
      /\ k < Len(data) /\ data[k + 1] = 254 =>
           x.next = k + 5 /\ (k + 5 <= Len(data) => x.value = Uint32(k + 1))
  BY <1>2, VarintCases
<1> HIDE DEF x
<1>4. Len(e) >= 1
  BY SMT, <1>1, <1>2
<1>5. CASE k >= Len(data)
  <2>1. c > 0
    BY <1>2, <1>4, <1>5
  <2>2. x.next > Len(data) /\ ~(x.next <= Len(data))
    BY <1>2, <1>3, <1>5
  <2> QED
    BY <1>3, <2>1, <2>2 DEF Finds, k, x, e
<1>6. CASE k < Len(data)
  <2>1. data[k + 1] = e[1]
    BY <1>2, <1>4, <1>6
  <2>2. CASE v < 253
    <3>1. Len(e) = 1 /\ data[k + 1] < 253 /\ data[k + 1] = v
      BY SMT, <1>1, <2>1, <2>2
    <3>2. x.value = v /\ x.next = k + Len(e)
      BY SMT, <1>3, <1>6, <3>1
    <3> QED
      BY SMT, <1>2, <1>3, <3>1, <3>2 DEF Finds, k, x, e
  <2>3. CASE v >= 253 /\ v < 65536
    <3>1. Len(e) = 3 /\ data[k + 1] = 253 /\ e[2] + 256 * e[3] = v
      BY SMT, <1>1, <2>1, <2>3
    <3>2. x.next = k + 3
      BY SMT, <1>3, <1>6, <3>1
    <3>3. ASSUME k + 3 <= Len(data) PROVE x.value = v
      <4>1. data[k + 2] = e[2] /\ data[k + 3] = e[3]
        BY SMT, <1>2, <3>1, <3>3
      <4>2. x.value = Uint16(k + 1)
        BY SMT, <1>3, <1>6, <3>1, <3>3
      <4>3. (k + 1) + 1 = k + 2 /\ (k + 1) + 2 = k + 3
        BY <1>2
      <4> QED
        BY SMT, <3>1, <4>1, <4>2, <4>3 DEF Uint16
    <3> QED
      BY SMT, <1>2, <1>3, <3>1, <3>2, <3>3 DEF Finds, k, x, e
  <2>4. CASE v >= 65536
    <3>1. Len(e) = 5 /\ data[k + 1] = 254
          /\ e[2] + 256 * e[3] + 65536 * (e[4] + 256 * e[5]) = v
      BY SMT, <1>1, <2>1, <2>4
    <3>2. x.next = k + 5
      BY SMT, <1>3, <1>6, <3>1
    <3>3. ASSUME k + 5 <= Len(data) PROVE x.value = v
      <4>1. data[k + 2] = e[2] /\ data[k + 3] = e[3] /\ data[k + 4] = e[4] /\ data[k + 5] = e[5]
        BY SMT, <1>2, <3>1, <3>3
      <4>2. x.value = Uint32(k + 1)
        BY SMT, <1>3, <1>6, <3>1, <3>3
      <4>3. /\ (k + 1) + 1 = k + 2 /\ (k + 1) + 2 = k + 3
            /\ ((k + 1) + 2) + 1 = k + 4 /\ ((k + 1) + 2) + 2 = k + 5
        BY <1>2
      <4> QED
        BY SMT, <3>1, <4>1, <4>2, <4>3 DEF Uint16, Uint32
    <3> QED
      BY SMT, <1>2, <1>3, <3>1, <3>2, <3>3 DEF Finds, k, x, e
  <2> QED
    BY SMT, <2>2, <2>3, <2>4
<1> QED
  BY SMT, <1>2, <1>5, <1>6

-------------------------------------------------------------------------------
(* The parts of a block.                                                   *)

(* Sequences given by their elements.                                      *)
LEMMA SeqByElements ==
  ASSUME NEW S, NEW f, NEW n \in Nat, f \in [1 .. n -> S]
  PROVE  f \in Seq(S) /\ Len(f) = n
  OBVIOUS

(* The items of a witness.                                                 *)
LEMMA ItemsAre ==
  ASSUME NEW items \in Seq(Bytes)
  PROVE  /\ ItemPieces(items) \in Seq(Seq(Byte))
         /\ Len(ItemPieces(items)) = Len(items) /\ Len(items) \in Nat
         /\ \A k \in 1 .. Len(items) : items[k] \in Bytes /\ ItemPieces(items)[k] = Sized(items[k])
<1>1. /\ Len(items) \in Nat /\ DOMAIN items = 1 .. Len(items)
      /\ \A k \in 1 .. Len(items) : items[k] \in Bytes
  OBVIOUS
<1>2. \A k \in 1 .. Len(items) : Sized(items[k]) \in Seq(Byte)
  BY <1>1, SizedBytes
<1>3. ItemPieces(items) \in [1 .. Len(items) -> Seq(Byte)]
  BY <1>1, <1>2 DEF ItemPieces
<1>4. \A k \in 1 .. Len(items) : ItemPieces(items)[k] = Sized(items[k])
  BY <1>1 DEF ItemPieces
<1> QED
  BY <1>1, <1>3, <1>4, SeqByElements

(* A witness, before other bytes.                                          *)
LEMMA WitnessBytes ==
  ASSUME NEW items \in Seq(Bytes), Len(items) <= MaxLength, NEW q \in Seq(Byte)
  PROVE  /\ Witness(items) \in Seq(Byte)
         /\ Witness(items) \o q =
              CompactSize(Len(items)) \o (After(ItemPieces(items), 0) \o q)
<1> DEFINE c == CompactSize(Len(items))
<1> DEFINE r == After(ItemPieces(items), 0)
<1>1. ItemPieces(items) \in Seq(Seq(Byte)) /\ Len(items) \in Nat
  BY ItemsAre
<1>2. c \in Seq(Byte)
  BY <1>1, CompactSizeBytes
<1>3. r = FlattenSeq(ItemPieces(items)) /\ r \in Seq(Byte)
  <2>1. 0 \in 0 .. Len(ItemPieces(items))
    BY <1>1
  <2> QED
    BY <1>1, <2>1, AfterStep
<1>4. Witness(items) = c \o r
  BY <1>3, Zenon DEF Witness, ItemPieces
<1> HIDE DEF c, r
<1>5. c \o r \in Seq(Byte)
  BY <1>2, <1>3, ByteConcat, Zenon
<1>6. (c \o r) \o q = c \o (r \o q)
  <2>1. c \in Seq(Byte) /\ r \in Seq(Byte)
    BY <1>2, <1>3
  <2> QED
    BY <2>1, ByteAssoc, Zenon
<1> QED
  BY <1>4, <1>5, <1>6, Zenon DEF c, r

(* A transaction's parts.                                                  *)
TxParts(tx) ==
  /\ tx.ins \in Seq(Bytes) /\ Len(tx.ins) \in Nat \ {0} /\ Len(tx.ins) <= MaxLength
  /\ tx.outs \in Seq(Bytes) /\ Len(tx.outs) \in Nat /\ Len(tx.outs) <= MaxLength
  /\ Len(tx.witness) \in Nat
  /\ tx.witness = <<>> => Len(tx.witness) = 0
  /\ tx.witness # <<>> => Len(tx.witness) = Len(tx.ins)
  /\ \A k \in 1 .. Len(tx.ins) : tx.ins[k] \in Bytes
  /\ \A k \in 1 .. Len(tx.outs) : tx.outs[k] \in Bytes
  /\ \A k \in 1 .. Len(tx.witness) :
       tx.witness[k] \in Seq(Bytes) /\ Len(tx.witness[k]) <= MaxLength

(* And their bytes.                                                        *)
TxPiecesAre(tx) ==
  /\ InPieces(tx) \in Seq(Seq(Byte)) /\ Len(InPieces(tx)) = Len(tx.ins)
  /\ \A k \in 1 .. Len(tx.ins) : InPieces(tx)[k] = TxIn(tx.ins[k])
  /\ OutPieces(tx) \in Seq(Seq(Byte)) /\ Len(OutPieces(tx)) = Len(tx.outs)
  /\ \A k \in 1 .. Len(tx.outs) : OutPieces(tx)[k] = TxOut(tx.outs[k])
  /\ WitPieces(tx) \in Seq(Seq(Byte)) /\ Len(WitPieces(tx)) = Len(tx.witness)
  /\ \A k \in 1 .. Len(tx.witness) : WitPieces(tx)[k] = Witness(tx.witness[k])

(* What Bitcoin's rules say of a transaction gives these.                  *)
LEMMA TxHasParts ==
  ASSUME NEW tx, IsTransaction(tx)
  PROVE  TxParts(tx)
<1>1. /\ tx.ins \in Seq(Bytes) /\ tx.outs \in Seq(Bytes) /\ tx.witness \in Seq(Seq(Bytes))
      /\ tx.ins # <<>> /\ Len(tx.ins) <= MaxLength /\ Len(tx.outs) <= MaxLength
      /\ Len(tx.witness) = 0 \/ Len(tx.witness) = Len(tx.ins)
      /\ \A k \in DOMAIN tx.witness : Len(tx.witness[k]) <= MaxLength
  BY DEF IsTransaction
<1> DEFINE ins == tx.ins
<1> DEFINE outs == tx.outs
<1> DEFINE wit == tx.witness
<1> HIDE DEF ins, outs, wit
<1>2. ins \in Seq(Bytes) /\ outs \in Seq(Bytes) /\ wit \in Seq(Seq(Bytes)) /\ ins # <<>>
  BY <1>1 DEF ins, outs, wit
<1>3. /\ Len(ins) \in Nat \ {0} /\ Len(outs) \in Nat /\ Len(wit) \in Nat
      /\ DOMAIN wit = 1 .. Len(wit)
  BY <1>2, EmptySeq
<1>4. (wit = <<>> => Len(wit) = 0) /\ (wit # <<>> => Len(wit) # 0)
  BY <1>2, EmptySeq
<1>5. /\ \A k \in 1 .. Len(ins) : ins[k] \in Bytes
      /\ \A k \in 1 .. Len(outs) : outs[k] \in Bytes
      /\ \A k \in 1 .. Len(wit) : wit[k] \in Seq(Bytes)
  BY <1>2, ElementOfSeq
<1>6. \A k \in 1 .. Len(wit) : Len(wit[k]) <= MaxLength
  BY <1>1, <1>3 DEF wit
<1>7. wit # <<>> => Len(wit) = Len(ins)
  BY <1>1, <1>4 DEF wit, ins
<1>8. Len(ins) <= MaxLength /\ Len(outs) <= MaxLength
  BY <1>1 DEF ins, outs
<1> QED
  BY <1>2, <1>3, <1>4, <1>5, <1>6, <1>7, <1>8, Zenon DEF TxParts, ins, outs, wit

(* The pieces of a transaction's inputs, outputs and witnesses are bytes.  *)
LEMMA TxHasPieces ==
  ASSUME NEW tx, TxParts(tx)
  PROVE  TxPiecesAre(tx)
<1> DEFINE ins == tx.ins
<1> DEFINE outs == tx.outs
<1> DEFINE wit == tx.witness
<1>1. /\ Len(ins) \in Nat /\ Len(outs) \in Nat /\ Len(wit) \in Nat
      /\ \A k \in 1 .. Len(ins) : ins[k] \in Bytes
      /\ \A k \in 1 .. Len(outs) : outs[k] \in Bytes
      /\ \A k \in 1 .. Len(wit) : wit[k] \in Seq(Bytes) /\ Len(wit[k]) <= MaxLength
  BY Zenon DEF TxParts
<1>2. DOMAIN ins = 1 .. Len(ins) /\ DOMAIN outs = 1 .. Len(outs) /\ DOMAIN wit = 1 .. Len(wit)
  BY DEF TxParts
<1>3. InPieces(tx) = [k \in 1 .. Len(ins) |-> TxIn(ins[k])]
  BY <1>2, Zenon DEF InPieces
<1>4. OutPieces(tx) = [k \in 1 .. Len(outs) |-> TxOut(outs[k])]
  BY <1>2, Zenon DEF OutPieces
<1>5. WitPieces(tx) = [k \in 1 .. Len(wit) |-> Witness(wit[k])]
  BY <1>2, Zenon DEF WitPieces
<1> HIDE DEF ins, outs, wit
<1>6. <<>> \in Seq(Byte)
  BY EmptySeq
<1>7. /\ \A k \in 1 .. Len(ins) : TxIn(ins[k]) \in Seq(Byte)
      /\ \A k \in 1 .. Len(outs) : TxOut(outs[k]) \in Seq(Byte)
  BY <1>1, <1>6, FieldBytes
<1>8. \A k \in 1 .. Len(wit) : Witness(wit[k]) \in Seq(Byte)
  BY <1>1, <1>6, WitnessBytes
<1>9. /\ InPieces(tx) \in [1 .. Len(ins) -> Seq(Byte)]
      /\ \A k \in 1 .. Len(ins) : InPieces(tx)[k] = TxIn(ins[k])
  BY <1>3, <1>7, Zenon
<1>10. /\ OutPieces(tx) \in [1 .. Len(outs) -> Seq(Byte)]
       /\ \A k \in 1 .. Len(outs) : OutPieces(tx)[k] = TxOut(outs[k])
  BY <1>4, <1>7, Zenon
<1>11. /\ WitPieces(tx) \in [1 .. Len(wit) -> Seq(Byte)]
       /\ \A k \in 1 .. Len(wit) : WitPieces(tx)[k] = Witness(wit[k])
  BY <1>5, <1>8, Zenon
<1>12. /\ InPieces(tx) \in Seq(Seq(Byte)) /\ Len(InPieces(tx)) = Len(ins)
       /\ OutPieces(tx) \in Seq(Seq(Byte)) /\ Len(OutPieces(tx)) = Len(outs)
       /\ WitPieces(tx) \in Seq(Seq(Byte)) /\ Len(WitPieces(tx)) = Len(wit)
  BY <1>1, <1>9, <1>10, <1>11, SeqByElements
<1> QED
  BY <1>9, <1>10, <1>11, <1>12, Zenon DEF TxPiecesAre, ins, outs, wit

(* The commits of a transaction's outputs.                                 *)
LEMMA CommitPiecesAre ==
  ASSUME NEW tx, TxParts(tx)
  PROVE  /\ CommitPieces(tx) \in Seq(Seq(Seq(Byte)))
         /\ Len(CommitPieces(tx)) = Len(tx.outs)
         /\ \A k \in 1 .. Len(tx.outs) :
              CommitPieces(tx)[k] = IF IsCommit(tx.outs[k])
                                    THEN <<SubSeq(tx.outs[k], 3, 34)>> ELSE <<>>
         /\ CommitsOfTx(tx) = After(CommitPieces(tx), 0)
         /\ CommitsOfTx(tx) \in Seq(Seq(Byte))
<1> DEFINE outs == tx.outs
<1> DEFINE Piece(k) == IF IsCommit(outs[k]) THEN <<SubSeq(outs[k], 3, 34)>> ELSE <<>>
<1>1. Len(outs) \in Nat /\ \A k \in 1 .. Len(outs) : outs[k] \in Bytes
  BY Zenon DEF TxParts
<1>2. DOMAIN outs = 1 .. Len(outs)
  BY DEF TxParts
<1>3. CommitPieces(tx) = [k \in 1 .. Len(outs) |-> Piece(k)]
  BY <1>2, Zenon DEF CommitPieces
<1>4. ASSUME NEW k \in 1 .. Len(outs) PROVE Piece(k) \in Seq(Seq(Byte))
  <2> DEFINE s == outs[k]
  <2>1. s \in Seq(Byte)
    BY <1>1, SizedBytes
  <2> HIDE DEF s
  <2>2. IsCommit(s) => SubSeq(s, 3, 34) \in Seq(Byte)
    <3>1. IsCommit(s) => 34 <= Len(s)
      BY <2>1 DEF IsCommit
    <3>2. 3 \in Nat \ {0} /\ 34 \in Nat /\ 3 <= 34
      OBVIOUS
    <3> QED
      BY <2>1, <3>1, <3>2, Part, Zenon
  <2>3. IsCommit(s) => <<SubSeq(s, 3, 34)>> \in Seq(Seq(Byte))
    BY <2>2
  <2>4. <<>> \in Seq(Seq(Byte))
    BY EmptySeq
  <2> QED
    BY <2>3, <2>4 DEF s
<1> HIDE DEF Piece
<1>5. /\ CommitPieces(tx) \in [1 .. Len(outs) -> Seq(Seq(Byte))]
      /\ \A k \in 1 .. Len(outs) : CommitPieces(tx)[k] = Piece(k)
  BY <1>3, <1>4, Zenon
<1>6. CommitPieces(tx) \in Seq(Seq(Seq(Byte))) /\ Len(CommitPieces(tx)) = Len(outs)
  BY <1>1, <1>5, SeqByElements
<1>7. 0 \in 0 .. Len(CommitPieces(tx))
  BY <1>1, <1>6
<1>8. /\ After(CommitPieces(tx), 0) = FlattenSeq(CommitPieces(tx))
      /\ After(CommitPieces(tx), 0) \in Seq(Seq(Byte))
  BY <1>6, <1>7, AfterStep
<1>9. CommitsOfTx(tx) = FlattenSeq(CommitPieces(tx))
  BY Zenon DEF CommitsOfTx, CommitPieces
<1> QED
  BY <1>5, <1>6, <1>8, <1>9, Zenon DEF Piece

Chains(a, b, c, q) ==
  /\ (a \o b) \o c \in Seq(Byte)
  /\ b \o (c \o q) \in Seq(Byte)
  /\ ((a \o b) \o c) \o q = a \o (b \o (c \o q))

(* The brackets of three pieces and the rest.                              *)
LEMMA Chain ==
  ASSUME NEW a \in Seq(Byte), NEW b \in Seq(Byte), NEW c \in Seq(Byte), NEW q \in Seq(Byte)
  PROVE  Chains(a, b, c, q)
<1>1. a \o b \in Seq(Byte) /\ c \o q \in Seq(Byte)
  BY ByteConcat, Zenon
<1>2. (a \o b) \o c \in Seq(Byte) /\ b \o (c \o q) \in Seq(Byte)
  BY <1>1, ByteConcat, Zenon
<1>3. \A x, y, z \in Seq(Byte) : Assoc(x, y, z)
  BY ByteAssoc, Zenon DEF Assoc
<1>4. Assoc(a \o b, c, q) /\ Assoc(a, b, c \o q)
  BY <1>1, <1>3, Zenon
<1> QED
  BY <1>2, <1>4, Zenon DEF Chains, Assoc

Marker(tx) == IF tx.witness = <<>> THEN <<>> ELSE <<0, 1>>

(* What follows the marker of a transaction.                               *)
FromIns(tx, q) ==
  CompactSize(Len(tx.ins)) \o (After(InPieces(tx), 0)
    \o (CompactSize(Len(tx.outs)) \o (After(OutPieces(tx), 0)
      \o (After(WitPieces(tx), 0) \o (Fill(4) \o q)))))

(* A transaction, before other bytes.                                      *)
LEMMA TransactionBytes ==
  ASSUME NEW tx, TxParts(tx), NEW q \in Seq(Byte)
  PROVE  /\ Transaction(tx) \in Seq(Byte) /\ Marker(tx) \in Seq(Byte)
         /\ FromIns(tx, q) \in Seq(Byte)
         /\ Transaction(tx) \o q = Fill(4) \o (Marker(tx) \o FromIns(tx, q))
<1> DEFINE f == Fill(4)
<1> DEFINE m == Marker(tx)
<1> DEFINE ci == CompactSize(Len(tx.ins))
<1> DEFINE ri == After(InPieces(tx), 0)
<1> DEFINE co == CompactSize(Len(tx.outs))
<1> DEFINE ro == After(OutPieces(tx), 0)
<1> DEFINE rw == After(WitPieces(tx), 0)
<1>1. /\ Len(tx.ins) \in Nat /\ Len(tx.ins) <= MaxLength
      /\ Len(tx.outs) \in Nat /\ Len(tx.outs) <= MaxLength /\ Len(tx.witness) \in Nat
  BY DEF TxParts
<1>2. /\ InPieces(tx) \in Seq(Seq(Byte)) /\ Len(InPieces(tx)) = Len(tx.ins)
      /\ OutPieces(tx) \in Seq(Seq(Byte)) /\ Len(OutPieces(tx)) = Len(tx.outs)
      /\ WitPieces(tx) \in Seq(Seq(Byte)) /\ Len(WitPieces(tx)) = Len(tx.witness)
  BY TxHasPieces, Zenon DEF TxPiecesAre
<1>3. ri \in Seq(Byte) /\ ri = FlattenSeq(InPieces(tx))
  <2>1. 0 \in 0 .. Len(InPieces(tx))
    BY <1>1, <1>2
  <2> QED
    BY <1>2, <2>1, AfterStep
<1>4. ro \in Seq(Byte) /\ ro = FlattenSeq(OutPieces(tx))
  <2>1. 0 \in 0 .. Len(OutPieces(tx))
    BY <1>1, <1>2
  <2> QED
    BY <1>2, <2>1, AfterStep
<1>5. rw \in Seq(Byte) /\ rw = FlattenSeq(WitPieces(tx))
  <2>1. 0 \in 0 .. Len(WitPieces(tx))
    BY <1>1, <1>2
  <2> QED
    BY <1>2, <2>1, AfterStep
<1>6. ci \in Seq(Byte) /\ co \in Seq(Byte)
  BY <1>1, CompactSizeBytes
<1>7. m \in Seq(Byte)
  <2>1. <<>> \in Seq(Byte) /\ 0 \in Byte /\ 1 \in Byte
    BY SMT DEF Byte
  <2>2. <<0, 1>> \in Seq(Byte)
    BY <2>1
  <2> QED
    BY <2>1, <2>2, Zenon DEF Marker
<1>8. f \in Seq(Byte)
  BY FillBytes
<1>9. Transaction(tx) = ((((f \o m) \o (ci \o ri)) \o (co \o ro)) \o rw) \o f
  BY <1>3, <1>4, <1>5, Zenon DEF Transaction, Marker, InPieces, OutPieces, WitPieces
<1>10. FromIns(tx, q) = ci \o (ri \o (co \o (ro \o (rw \o (f \o q)))))
  BY Zenon DEF FromIns
<1> HIDE DEF f, m, ci, ri, co, ro, rw
<1> DEFINE u == ci \o ri
<1> DEFINE v == co \o ro
<1> DEFINE k == f \o m
<1>11. u \in Seq(Byte) /\ v \in Seq(Byte) /\ k \in Seq(Byte)
  BY <1>3, <1>4, <1>6, <1>7, <1>8, ByteConcat, Zenon
<1> HIDE DEF u, v, k
<1> DEFINE x == (k \o u) \o v
<1> DEFINE y == rw \o (f \o q)
<1>12. x \in Seq(Byte) /\ y \in Seq(Byte)
  <2>1. Chains(k, u, v, q) /\ Chains(f, rw, f, q)
    BY <1>5, <1>8, <1>11, Chain
  <2> QED
    BY <2>1, Zenon DEF Chains
<1>13. (x \o rw) \o f \in Seq(Byte) /\ ((x \o rw) \o f) \o q = x \o y
  <2> HIDE DEF x
  <2>1. Chains(x, rw, f, q)
    BY <1>5, <1>8, <1>12, Chain
  <2> QED
    BY <2>1, Zenon DEF Chains
<1>14. u \o (v \o y) \in Seq(Byte) /\ x \o y = k \o (u \o (v \o y))
  <2> HIDE DEF y
  <2>1. Chains(k, u, v, y)
    BY <1>11, <1>12, Chain
  <2> QED
    BY <2>1, Zenon DEF Chains
<1> HIDE DEF x, y
<1>15. v \o y = co \o (ro \o y) /\ v \o y \in Seq(Byte)
  <2>1. co \in Seq(Byte) /\ ro \in Seq(Byte) /\ y \in Seq(Byte)
    BY <1>4, <1>6, <1>12
  <2>2. (co \o ro) \o y = co \o (ro \o y)
    BY <2>1, ByteAssoc, Zenon
  <2> QED
    BY <1>11, <1>12, <2>2, ByteConcat, Zenon DEF v
<1> DEFINE z == v \o y
<1> HIDE DEF z
<1>16. u \o z = ci \o (ri \o z)
  <2>1. ci \in Seq(Byte) /\ ri \in Seq(Byte) /\ z \in Seq(Byte)
    BY <1>3, <1>6, <1>15 DEF z
  <2>2. (ci \o ri) \o z = ci \o (ri \o z)
    BY <2>1, ByteAssoc, Zenon
  <2> QED
    BY <2>2, Zenon DEF u
<1>17. FromIns(tx, q) = u \o z
  BY <1>10, <1>15, <1>16, Zenon DEF y, z
<1> DEFINE g == u \o z
<1>18. g \in Seq(Byte)
  BY <1>14 DEF z
<1> HIDE DEF g
<1>19. (f \o m) \o g = f \o (m \o g)
  <2>1. f \in Seq(Byte) /\ m \in Seq(Byte)
    BY <1>7, <1>8
  <2> QED
    BY <1>18, <2>1, ByteAssoc, Zenon
<1>20. Transaction(tx) = (x \o rw) \o f
  BY <1>9, Zenon DEF x, k, u, v
<1>21. Transaction(tx) \o q = f \o (m \o g)
  BY <1>13, <1>14, <1>19, <1>20, Zenon DEF k, g, z
<1> QED
  BY <1>7, <1>13, <1>17, <1>18, <1>20, <1>21, Zenon DEF f, m, g

HeaderOf(b) == (Fill(4) \o b.previous) \o Fill(44)

(* A block's parts, their bytes and their commits.                         *)
BlockParts(b) ==
  /\ b.previous \in Seq(Byte) /\ Len(b.previous) = 32
  /\ Len(b.txs) \in Nat /\ Len(b.txs) <= MaxLength /\ DOMAIN b.txs = 1 .. Len(b.txs)
  /\ \A k \in 1 .. Len(b.txs) : TxParts(b.txs[k])
  /\ TxPieces(b) \in Seq(Seq(Byte)) /\ Len(TxPieces(b)) = Len(b.txs)
  /\ \A k \in 1 .. Len(b.txs) : TxPieces(b)[k] = Transaction(b.txs[k])
  /\ TxCommitPieces(b) \in Seq(Seq(Seq(Byte))) /\ Len(TxCommitPieces(b)) = Len(b.txs)
  /\ \A k \in 1 .. Len(b.txs) : TxCommitPieces(b)[k] = CommitsOfTx(b.txs[k])
  /\ CommitsOf(b) = After(TxCommitPieces(b), 0) /\ CommitsOf(b) \in Seq(Seq(Byte))

(* The header's bytes.                                                     *)
HeaderBytes(b) ==
  /\ HeaderOf(b) \in Seq(Byte) /\ Len(HeaderOf(b)) = 80
  /\ \A k \in 1 .. 32 : HeaderOf(b)[4 + k] = b.previous[k]
  /\ CompactSize(Len(b.txs)) \in Seq(Byte) /\ After(TxPieces(b), 0) \in Seq(Byte)
  /\ Serialize(b) = HeaderOf(b) \o (CompactSize(Len(b.txs)) \o After(TxPieces(b), 0))
  /\ Serialize(b) \in Seq(Byte)

(* Bitcoin's blocks have them.                                             *)
LEMMA BlockHasParts ==
  ASSUME NEW b \in Blocks
  PROVE  BlockParts(b)
<1> DEFINE txs == b.txs
<1>1. /\ b.previous \in [1 .. 32 -> Byte]
      /\ txs \in Seq(Range(txs)) /\ Len(txs) <= MaxLength
      /\ \A k \in DOMAIN txs : IsTransaction(txs[k])
  BY BtcParseAssumption, Zenon
<1>2. Len(txs) \in Nat /\ DOMAIN txs = 1 .. Len(txs)
  BY <1>1, LenProperties, Zenon
<1>3. b.previous \in Seq(Byte) /\ Len(b.previous) = 32
  BY <1>1, SeqByElements
<1>4. \A k \in 1 .. Len(txs) : TxParts(txs[k])
  BY <1>1, <1>2, TxHasParts, Zenon
<1>5. <<>> \in Seq(Byte)
  BY EmptySeq
<1>6. \A k \in 1 .. Len(txs) : Transaction(txs[k]) \in Seq(Byte)
  BY <1>4, <1>5, TransactionBytes, Zenon
<1>7. \A k \in 1 .. Len(txs) : CommitsOfTx(txs[k]) \in Seq(Seq(Byte))
  BY <1>4, CommitPiecesAre, Zenon
<1>8. TxPieces(b) = [k \in 1 .. Len(txs) |-> Transaction(txs[k])]
  BY <1>2, Zenon DEF TxPieces
<1>9. TxCommitPieces(b) = [k \in 1 .. Len(txs) |-> CommitsOfTx(txs[k])]
  BY <1>2, Zenon DEF TxCommitPieces
<1> HIDE DEF txs
<1>10. /\ TxPieces(b) \in [1 .. Len(txs) -> Seq(Byte)]
       /\ \A k \in 1 .. Len(txs) : TxPieces(b)[k] = Transaction(txs[k])
  BY <1>6, <1>8, Zenon
<1>11. /\ TxCommitPieces(b) \in [1 .. Len(txs) -> Seq(Seq(Byte))]
       /\ \A k \in 1 .. Len(txs) : TxCommitPieces(b)[k] = CommitsOfTx(txs[k])
  BY <1>7, <1>9, Zenon
<1>12. /\ TxPieces(b) \in Seq(Seq(Byte)) /\ Len(TxPieces(b)) = Len(txs)
       /\ TxCommitPieces(b) \in Seq(Seq(Seq(Byte))) /\ Len(TxCommitPieces(b)) = Len(txs)
  BY <1>2, <1>10, <1>11, SeqByElements
<1>13. /\ After(TxCommitPieces(b), 0) = FlattenSeq(TxCommitPieces(b))
       /\ After(TxCommitPieces(b), 0) \in Seq(Seq(Byte))
  <2>1. 0 \in 0 .. Len(TxCommitPieces(b))
    BY <1>2, <1>12
  <2> QED
    BY <1>12, <2>1, AfterStep
<1>14. CommitsOf(b) = FlattenSeq(TxCommitPieces(b))
  BY Zenon DEF CommitsOf, TxCommitPieces
<1> QED
  BY <1>1, <1>2, <1>3, <1>4, <1>10, <1>11, <1>12, <1>13, <1>14, Zenon DEF BlockParts, txs

(* A block, from its header on.                                            *)
LEMMA BlockBytes ==
  ASSUME NEW b, BlockParts(b)
  PROVE  HeaderBytes(b)
<1> DEFINE f == Fill(4)
<1> DEFINE g == Fill(44)
<1> DEFINE c == CompactSize(Len(b.txs))
<1> DEFINE r == After(TxPieces(b), 0)
<1> DEFINE v == b.previous
<1>1. f \in Seq(Byte) /\ Len(f) = 4 /\ g \in Seq(Byte) /\ Len(g) = 44
  BY FillBytes
<1>2. v \in Seq(Byte) /\ Len(v) = 32
  BY Zenon DEF BlockParts
<1>3. Len(b.txs) \in Nat /\ Len(b.txs) <= MaxLength
  BY Zenon DEF BlockParts
<1>4. c \in Seq(Byte)
  BY <1>3, CompactSizeBytes
<1>5. r \in Seq(Byte) /\ r = FlattenSeq(TxPieces(b))
  <2>1. TxPieces(b) \in Seq(Seq(Byte)) /\ Len(TxPieces(b)) = Len(b.txs)
    BY Zenon DEF BlockParts
  <2>2. 0 \in 0 .. Len(TxPieces(b))
    BY <1>3, <2>1
  <2> QED
    BY <2>1, <2>2, AfterStep
<1>6. HeaderOf(b) = (f \o v) \o g /\ Serialize(b) = (HeaderOf(b) \o c) \o r
  BY <1>5, Zenon DEF HeaderOf, Serialize, TxPieces
<1> HIDE DEF f, g, c, r, v
<1> DEFINE x == f \o v
<1>7. /\ x \in Seq(Byte) /\ Len(x) = Len(f) + Len(v)
      /\ \A k \in 1 .. Len(f) + Len(v) : x[k] = IF k <= Len(f) THEN f[k] ELSE v[k - Len(f)]
  <2>1. f \in Seq(Byte) /\ v \in Seq(Byte)
    BY <1>1, <1>2
  <2> QED
    BY <2>1, ConcatProperties, Zenon
<1> HIDE DEF x
<1> DEFINE h == x \o g
<1>8. /\ h \in Seq(Byte) /\ Len(h) = Len(x) + Len(g)
      /\ \A k \in 1 .. Len(x) + Len(g) : h[k] = IF k <= Len(x) THEN x[k] ELSE g[k - Len(x)]
  <2>1. x \in Seq(Byte) /\ g \in Seq(Byte)
    BY <1>1, <1>7
  <2> QED
    BY <2>1, ConcatProperties, Zenon
<1> HIDE DEF h
<1>9. ASSUME NEW k \in 1 .. 32 PROVE h[4 + k] = v[k]
  <2>0. Len(f) = 4 /\ Len(v) = 32 /\ Len(x) = 36 /\ Len(g) = 44
    BY <1>1, <1>2, <1>7
  <2>1. /\ 4 + k \in 1 .. Len(x) + Len(g) /\ 4 + k <= Len(x) /\ 4 + k \in 1 .. Len(f) + Len(v)
        /\ ~(4 + k <= Len(f)) /\ (4 + k) - Len(f) = k
    BY <2>0
  <2>2. h[4 + k] = x[4 + k]
    BY <1>8, <2>1, Zenon
  <2>3. x[4 + k] = v[k]
    BY <1>7, <2>1, Zenon
  <2> QED
    BY <2>2, <2>3, Zenon
<1>14. Len(h) = 80
  BY <1>1, <1>2, <1>7, <1>8
<1>10. HeaderOf(b) = h
  BY <1>6, Zenon DEF h, x
<1>11. h \o c \in Seq(Byte) /\ c \o r \in Seq(Byte)
  BY <1>4, <1>5, <1>8, ByteConcat, Zenon
<1>12. (h \o c) \o r \in Seq(Byte)
  BY <1>5, <1>11, ByteConcat, Zenon
<1>13. (h \o c) \o r = h \o (c \o r)
  <2>1. h \in Seq(Byte) /\ c \in Seq(Byte) /\ r \in Seq(Byte)
    BY <1>4, <1>5, <1>8
  <2> QED
    BY <2>1, ByteAssoc, Zenon
<1> QED
  BY <1>4, <1>5, <1>6, <1>8, <1>9, <1>10, <1>12, <1>13, <1>14, Zenon DEF HeaderBytes, c, r, v

-------------------------------------------------------------------------------
(* The parser's steps.                                                     *)

(* The number read is v and what is left is q, or bytes were missing.      *)
ReadOrPanic(x, v, place, q, c) ==
  \/ pc' = place /\ Reads(data', q, c) /\ x.value = v /\ x.next <= Len(data)
  \/ pc' = "panic" /\ c > 0 /\ x.value \in Nat

(* A number, then the bytes y, are read and dropped.                       *)
LEMMA ReadSome ==
  ASSUME NEW c \in Nat, NEW p \in Seq(Byte), NEW v \in Nat, v <= MaxLength,
         NEW y \in Seq(Byte), NEW q \in Seq(Byte), NEW m \in Nat, NEW place,
         Reads(data, p \o (CompactSize(v) \o (y \o q)), c),
         btc_parse_varint(Len(p)).value = v => m = Len(y),
         Goto(btc_parse_varint(Len(p)).next + m, place)
  PROVE  ReadOrPanic(btc_parse_varint(Len(p)), v, place, q, c)
<1> DEFINE e == CompactSize(v)
<1> DEFINE x == btc_parse_varint(Len(p))
<1> DEFINE r == y \o q
<1> DEFINE h == p \o e
<1> DEFINE g == h \o y
<1>1. e \in Seq(Byte) /\ r \in Seq(Byte)
  BY CompactSizeBytes, ByteConcat
<1>2. h \in Seq(Byte) /\ Len(p) \in Nat /\ Len(e) \in Nat /\ Len(h) = Len(p) + Len(e)
  <2> HIDE DEF e
  <2> QED
    BY <1>1, ByteConcat, ByteLen, Zenon
<1>3. Finds(x, v, Len(p) + Len(e), c)
  <2> HIDE DEF r
  <2>1. Reads(data, p \o (CompactSize(v) \o r), c)
    BY Zenon DEF r
  <2> QED
    BY <1>1, <2>1, VarintFinds
<1> HIDE DEF e, x
<1>4. p \o (e \o r) = h \o r
  <2> HIDE DEF r
  <2>1. (p \o e) \o r = p \o (e \o r)
    BY <1>1, ByteAssoc, Zenon
  <2> QED
    BY <2>1, Zenon
<1> HIDE DEF h
<1>5. /\ g \in Seq(Byte) /\ Len(y) \in Nat /\ Len(g) = Len(h) + Len(y)
      /\ h \o r = g \o q
  <2>1. g \in Seq(Byte) /\ Len(y) \in Nat /\ Len(g) = Len(h) + Len(y)
    BY <1>2, ByteConcat, ByteLen, Zenon
  <2>2. (h \o y) \o q = h \o (y \o q)
    BY <1>2, ByteAssoc, Zenon
  <2> QED
    BY <2>1, <2>2, Zenon
<1> HIDE DEF g
<1>6. Reads(data, g \o q, c)
  BY <1>4, <1>5, Zenon DEF e, r
<1>7. /\ data \in Seq(Byte) /\ Len(data) \in Nat
      /\ Len(g) <= Len(data) => Reads(SubSeq(data, Len(g) + 1, Len(data)), q, c)
  BY <1>5, <1>6, Drop
<1>8. /\ x.next \in Nat
      /\ x.next <= Len(data) => x.value = v /\ x.next = Len(p) + Len(e)
      /\ x.next > Len(data) => x.value \in Nat /\ c > 0
  BY <1>3, Zenon DEF Finds
<1>9. Len(g) > Len(data) => c > 0
  BY <1>5, <1>6, Drop
<1>10. CASE x.next + m <= Len(data)
  <2>1. x.next <= Len(data)
    BY <1>7, <1>8, <1>10
  <2>2. x.value = v /\ x.next + m = Len(g)
    BY <1>2, <1>5, <1>8, <2>1 DEF x
  <2>3. pc' = place /\ data' = SubSeq(data, (x.next + m) + 1, Len(data))
    BY <1>10, Zenon DEF Goto, x
  <2>4. Reads(data', q, c)
    BY <1>7, <1>10, <2>2, <2>3, Zenon
  <2> QED
    BY <2>1, <2>2, <2>3, <2>4, Zenon DEF ReadOrPanic, x
<1>11. CASE ~(x.next + m <= Len(data))
  <2>1. pc' = "panic"
    BY <1>11, Zenon DEF Goto, x
  <2>2. c > 0 /\ x.value \in Nat
    <3>1. CASE x.next > Len(data)
      BY <1>8, <3>1
    <3>2. CASE x.next <= Len(data)
      <4>1. x.value = v /\ x.next + m = Len(g)
        BY <1>2, <1>5, <1>8, <3>2 DEF x
      <4> QED
        BY <1>2, <1>5, <1>7, <1>9, <1>11, <4>1
    <3> QED
      BY <1>7, <1>8, <3>1, <3>2
  <2> QED
    BY <2>1, <2>2, Zenon DEF ReadOrPanic, x
<1> QED
  BY <1>10, <1>11

(* A number only.                                                          *)
LEMMA ReadNumber ==
  ASSUME NEW c \in Nat, NEW p \in Seq(Byte), NEW v \in Nat, v <= MaxLength,
         NEW q \in Seq(Byte), NEW place,
         Reads(data, p \o (CompactSize(v) \o q), c),
         Goto(btc_parse_varint(Len(p)).next, place)
  PROVE  ReadOrPanic(btc_parse_varint(Len(p)), v, place, q, c)
<1>1. <<>> \in Seq(Byte) /\ Len(<<>>) = 0
  BY EmptySeq
<1>2. <<>> \o q = q
  BY ConcatEmptySeq
<1>3. Reads(data, p \o (CompactSize(v) \o (<<>> \o q)), c)
  BY <1>2, Zenon
<1>4. CompactSize(v) \in Seq(Byte) /\ Len(p) \in Nat
  BY CompactSizeBytes
<1>5. btc_parse_varint(Len(p)).next \in Nat
  BY <1>4, VarintFinds, Zenon DEF Finds
<1>6. btc_parse_varint(Len(p)).next + 0 = btc_parse_varint(Len(p)).next /\ 0 \in Nat
  BY <1>5
<1>7. Goto(btc_parse_varint(Len(p)).next + 0, place)
  BY <1>6, Zenon
<1> QED
  BY <1>1, <1>3, <1>6, <1>7, ReadSome

(* What a transaction that is being read brings with it: its parts, and    *)
(* what follows it.                                                        *)
Context(tx, b, n) ==
  /\ TxParts(tx) /\ TxPiecesAre(tx)
  /\ tx = b.txs[n] /\ BlockParts(b)
  /\ Fill(4) \in Seq(Byte)
  /\ After(TxPieces(b), n) \in Seq(Byte)
  /\ After(WitPieces(tx), 0) \in Seq(Byte)
  /\ After(OutPieces(tx), 0) \in Seq(Byte)
  /\ AfterWits(b, n) \in Seq(Byte)
  /\ AfterOuts(b, n) = After(WitPieces(tx), 0) \o AfterWits(b, n)
  /\ AfterOuts(b, n) \in Seq(Byte)
  /\ After(OutPieces(tx), 0) \o AfterOuts(b, n) \in Seq(Byte)
  /\ AfterIns(b, n) = CompactSize(Len(tx.outs)) \o (After(OutPieces(tx), 0) \o AfterOuts(b, n))
  /\ AfterIns(b, n) \in Seq(Byte)
  /\ After(TxCommitPieces(b), n) \in Seq(Seq(Byte))
  /\ After(TxCommitPieces(b), n - 1) \in Seq(Seq(Byte))
  /\ After(TxCommitPieces(b), n - 1) = After(CommitPieces(tx), 0) \o After(TxCommitPieces(b), n)
  /\ After(TxPieces(b), n - 1) = Fill(4) \o (Marker(tx) \o FromIns(tx, After(TxPieces(b), n)))
  /\ FromIns(tx, After(TxPieces(b), n)) =
       CompactSize(Len(tx.ins)) \o (After(InPieces(tx), 0) \o AfterIns(b, n))
  /\ After(InPieces(tx), 0) \o AfterIns(b, n) \in Seq(Byte)

(* Every transaction of a block does.                                      *)
LEMMA HasContext ==
  ASSUME NEW b \in Blocks, NEW n \in 1 .. Len(b.txs)
  PROVE  Context(b.txs[n], b, n)
<1> DEFINE tx == b.txs[n]
<1> DEFINE f == Fill(4)
<1> DEFINE r == After(TxPieces(b), n)
<1> DEFINE rw == After(WitPieces(tx), 0)
<1> DEFINE ro == After(OutPieces(tx), 0)
<1> DEFINE ri == After(InPieces(tx), 0)
<1> DEFINE co == CompactSize(Len(tx.outs))
<1>1. BlockParts(b)
  BY BlockHasParts
<1>2. /\ Len(b.txs) \in Nat /\ TxParts(tx)
      /\ TxPieces(b) \in Seq(Seq(Byte)) /\ Len(TxPieces(b)) = Len(b.txs)
      /\ TxPieces(b)[n] = Transaction(tx)
      /\ TxCommitPieces(b) \in Seq(Seq(Seq(Byte))) /\ Len(TxCommitPieces(b)) = Len(b.txs)
      /\ TxCommitPieces(b)[n] = CommitsOfTx(tx)
  BY <1>1, Zenon DEF BlockParts
<1>3. TxPiecesAre(tx)
  BY <1>2, TxHasPieces
<1>4. /\ n \in 0 .. Len(b.txs) /\ n - 1 \in 0 .. Len(b.txs) /\ n - 1 < Len(b.txs)
      /\ (n - 1) + 1 = n
  BY <1>2
<1>5. r \in Seq(Byte) /\ After(TxPieces(b), n - 1) = Transaction(tx) \o r
  <2>1. After(TxPieces(b), n) \in Seq(Byte)
    BY <1>2, <1>4, AfterStep
  <2>2. After(TxPieces(b), n - 1) = TxPieces(b)[(n - 1) + 1] \o After(TxPieces(b), (n - 1) + 1)
    BY <1>2, <1>4, AfterStep
  <2> QED
    BY <1>2, <1>4, <2>1, <2>2, Zenon
<1>6. /\ After(TxCommitPieces(b), n) \in Seq(Seq(Byte))
      /\ After(TxCommitPieces(b), n - 1) \in Seq(Seq(Byte))
      /\ After(TxCommitPieces(b), n - 1) = CommitsOfTx(tx) \o After(TxCommitPieces(b), n)
  <2>1. After(TxCommitPieces(b), n) \in Seq(Seq(Byte))
    BY <1>2, <1>4, AfterStep
  <2>3. After(TxCommitPieces(b), n - 1) \in Seq(Seq(Byte))
    BY <1>2, <1>4, AfterStep
  <2>2. After(TxCommitPieces(b), n - 1)
          = TxCommitPieces(b)[(n - 1) + 1] \o After(TxCommitPieces(b), (n - 1) + 1)
    BY <1>2, <1>4, AfterStep
  <2> QED
    BY <1>2, <1>4, <2>1, <2>2, <2>3, Zenon
<1>7. CommitsOfTx(tx) = After(CommitPieces(tx), 0)
  BY <1>2, CommitPiecesAre
<1>8. /\ FromIns(tx, r) \in Seq(Byte)
      /\ Transaction(tx) \o r = f \o (Marker(tx) \o FromIns(tx, r))
  <2> HIDE DEF r
  <2> QED
    BY <1>2, <1>5, TransactionBytes, Zenon
<1>9. /\ AfterWits(b, n) = f \o r /\ AfterOuts(b, n) = rw \o (f \o r)
      /\ AfterIns(b, n) = co \o (ro \o (rw \o (f \o r)))
      /\ FromIns(tx, r) = CompactSize(Len(tx.ins)) \o (ri \o (co \o (ro \o (rw \o (f \o r)))))
  BY Zenon DEF AfterWits, AfterOuts, AfterIns, FromIns
<1>10. /\ Len(tx.ins) \in Nat /\ Len(tx.ins) <= MaxLength
       /\ Len(tx.outs) \in Nat /\ Len(tx.outs) <= MaxLength /\ Len(tx.witness) \in Nat
  BY <1>2 DEF TxParts
<1>11. /\ InPieces(tx) \in Seq(Seq(Byte)) /\ Len(InPieces(tx)) = Len(tx.ins)
       /\ OutPieces(tx) \in Seq(Seq(Byte)) /\ Len(OutPieces(tx)) = Len(tx.outs)
       /\ WitPieces(tx) \in Seq(Seq(Byte)) /\ Len(WitPieces(tx)) = Len(tx.witness)
  BY <1>3, Zenon DEF TxPiecesAre
<1>12. /\ 0 \in 0 .. Len(InPieces(tx)) /\ 0 \in 0 .. Len(OutPieces(tx))
       /\ 0 \in 0 .. Len(WitPieces(tx))
  BY <1>10, <1>11
<1>13. ri \in Seq(Byte) /\ ro \in Seq(Byte) /\ rw \in Seq(Byte)
  BY <1>11, <1>12, AfterStep
<1>14. f \in Seq(Byte) /\ co \in Seq(Byte)
  <2>1. f \in Seq(Byte)
    BY FillBytes
  <2>2. co \in Seq(Byte)
    <3> DEFINE l == Len(tx.outs)
    <3>1. l \in Nat /\ l <= MaxLength
      BY <1>10, Zenon
    <3> HIDE DEF l
    <3>2. CompactSize(l) \in Seq(Byte)
      BY <3>1, CompactSizeBytes
    <3> QED
      BY <3>2, Zenon DEF l
  <2> QED
    BY <2>1, <2>2, Zenon
<1> HIDE DEF f, r, rw, ro, ri, co
<1> DEFINE x == f \o r
<1>15. x \in Seq(Byte)
  BY <1>5, <1>14, ByteConcat, Zenon
<1> HIDE DEF x
<1> DEFINE y == rw \o x
<1>16. y \in Seq(Byte)
  BY <1>13, <1>15, ByteConcat, Zenon
<1> HIDE DEF y
<1> DEFINE z == ro \o y
<1>17. z \in Seq(Byte)
  BY <1>13, <1>16, ByteConcat, Zenon
<1> HIDE DEF z
<1>18. co \o z \in Seq(Byte)
  BY <1>14, <1>17, ByteConcat, Zenon
<1> DEFINE u == co \o z
<1> HIDE DEF u
<1>19. ri \o u \in Seq(Byte)
  BY <1>13, <1>18, ByteConcat, Zenon DEF u
<1>20. AfterWits(b, n) = x /\ AfterOuts(b, n) = y /\ AfterIns(b, n) = u /\ u = co \o z
  BY <1>9, Zenon DEF x, y, z, u
<1>21. FromIns(tx, r) = CompactSize(Len(tx.ins)) \o (ri \o u)
  BY <1>9, Zenon DEF x, y, z, u
<1> HIDE DEF tx
<1> QED
  <2>1. AfterOuts(b, n) = rw \o AfterWits(b, n) /\ ro \o AfterOuts(b, n) = z
    BY <1>20, Zenon DEF y, z
  <2>2. AfterWits(b, n) \in Seq(Byte) /\ AfterOuts(b, n) \in Seq(Byte) /\ AfterIns(b, n) \in Seq(Byte)
    BY <1>15, <1>16, <1>18, <1>20, Zenon
  <2>3. tx = b.txs[n]
    BY DEF tx
  <2>4. Context(tx, b, n)
    BY <1>1, <1>2, <1>3, <1>5, <1>6, <1>7, <1>8, <1>13, <1>14, <1>17, <1>19, <1>20, <1>21,
       <2>1, <2>2, <2>3, Zenon DEF Context, f, r, rw, ro, ri, co
  <2> QED
    BY <2>3, <2>4, Zenon

(* The transaction at hand does.                                           *)
LEMMA AtHand ==
  ASSUME input \in [block : Blocks, cut : Nat], NEW tx, InTx(tx)
  PROVE  /\ Context(tx, input.block, t + 1) /\ t \in Nat /\ tx_count \in Nat
         /\ t + 1 \in 1 .. tx_count /\ (t + 1) - 1 = t
         /\ input.cut \in Nat /\ input.block \in Blocks
<1>1. input.block \in Blocks /\ input.cut \in Nat
  OBVIOUS
<1>2. /\ tx_count = Len(input.block.txs) /\ t \in 0 .. tx_count /\ t < tx_count
      /\ tx = input.block.txs[t + 1]
  BY DEF InTx, InBlock
<1>3. Len(input.block.txs) \in Nat
  BY <1>1, BlockHasParts, Zenon DEF BlockParts
<1>4. t \in Nat /\ tx_count \in Nat /\ t + 1 \in 1 .. Len(input.block.txs) /\ (t + 1) - 1 = t
  BY <1>2, <1>3
<1> QED
  BY <1>1, <1>2, <1>4, HasContext

(* What is collected is the beginning of what is to be collected.          *)
LEMMA PrefixOf ==
  ASSUME NEW S, NEW a \in Seq(S), NEW m \in Seq(S)
  PROVE  IsPrefix(a, a \o m)
<1> DEFINE r == a \o m
<1>1. /\ r \in Seq(S) /\ Len(r) = Len(a) + Len(m)
      /\ \A k \in 1 .. Len(a) + Len(m) : r[k] = IF k <= Len(a) THEN a[k] ELSE m[k - Len(a)]
  BY ConcatProperties
<1> HIDE DEF r
<1>2. Len(a) \in Nat /\ Len(m) \in Nat /\ Len(a) <= Len(r)
  BY <1>1
<1>3. SubSeq(a, 1, Len(a)) = a
  BY SubSeqFull
<1>4. SubSeq(r, 1, Len(a)) = a
  <2> DEFINE x == SubSeq(r, 1, Len(a))
  <2>1. 1 \in Int /\ Len(a) \in Int /\ \A k \in 1 .. Len(a) : r[k] \in S
    BY <1>1, <1>2
  <2>2. /\ x \in Seq(S)
        /\ Len(x) = IF 1 <= Len(a) THEN Len(a) - 1 + 1 ELSE 0
        /\ \A k \in 1 .. Len(a) - 1 + 1 : x[k] = r[1 + k - 1]
    BY <2>1, SubSeqProperties
  <2> HIDE DEF x
  <2>3. Len(x) = Len(a)
    BY <1>2, <2>2
  <2>4. ASSUME NEW k \in 1 .. Len(a) PROVE x[k] = a[k]
    <3>1. /\ k \in 1 .. Len(a) - 1 + 1 /\ 1 + k - 1 = k
          /\ k \in 1 .. Len(a) + Len(m) /\ k <= Len(a)
      BY <1>2
    <3> QED
      BY <1>1, <2>2, <3>1
  <2>5. x = a
    BY <2>2, <2>3, <2>4, SeqEqual
  <2> QED
    BY <2>5 DEF x
<1> QED
  BY <1>2, <1>3, <1>4 DEF IsPrefix, r

(* A step that panics keeps what was collected.                            *)
LEMMA Panics ==
  ASSUME NEW rest, NEW more \in Seq(Seq(Byte)), Left(rest, more),
         pc' = "panic", input.cut > 0, UNCHANGED <<input, commits>>
  PROVE  AtPanic'
<1>1. commits \in Seq(Seq(Byte)) /\ commits \o more = CommitsOf(input.block)
  BY DEF Left
<1>2. IsPrefix(commits, CommitsOf(input.block))
  BY <1>1, PrefixOf
<1>3. IsPrefix(commits', CommitsOf(input'.block)) /\ input'.cut > 0
  BY <1>2
<1> QED
  BY <1>3, Zenon DEF AtPanic

(* The next piece, then the others; after the last, nothing.               *)
LEMMA NextPiece ==
  ASSUME NEW ss \in Seq(Seq(Byte)), NEW n \in 0 .. Len(ss), NEW q \in Seq(Byte)
  PROVE  /\ After(ss, n) \o q \in Seq(Byte)
         /\ n = Len(ss) => After(ss, n) \o q = q
         /\ n < Len(ss) =>
              /\ After(ss, n) \o q = ss[n + 1] \o (After(ss, n + 1) \o q)
              /\ After(ss, n + 1) \o q \in Seq(Byte)
<1>1. /\ After(ss, n) \in Seq(Byte)
      /\ n = Len(ss) => After(ss, n) = <<>>
      /\ n < Len(ss) => After(ss, n) = ss[n + 1] \o After(ss, n + 1)
  BY AfterStep
<1>2. After(ss, n) \o q \in Seq(Byte)
  BY <1>1, ByteConcat, Zenon
<1>3. <<>> \o q = q
  BY ConcatEmptySeq
<1>4. ASSUME n < Len(ss)
      PROVE  /\ After(ss, n) \o q = ss[n + 1] \o (After(ss, n + 1) \o q)
             /\ After(ss, n + 1) \o q \in Seq(Byte)
  <2> DEFINE x == ss[n + 1]
  <2> DEFINE y == After(ss, n + 1)
  <2>1. Len(ss) \in Nat /\ n + 1 \in 0 .. Len(ss) /\ n + 1 \in 1 .. Len(ss)
    BY <1>4
  <2>2. y \in Seq(Byte)
    BY <2>1, AfterStep
  <2>3. x \in Seq(Byte)
    BY <2>1, ElementOfSeq
  <2>4. After(ss, n) = x \o y
    BY <1>1, <1>4
  <2> HIDE DEF x, y
  <2>5. (x \o y) \o q = x \o (y \o q)
    BY <2>2, <2>3, ByteAssoc, Zenon
  <2>6. y \o q \in Seq(Byte)
    BY <2>2, ByteConcat, Zenon
  <2> QED
    BY <2>4, <2>5, <2>6, Zenon DEF x, y
<1> QED
  BY <1>1, <1>2, <1>3, <1>4, Zenon

(* A step inside a transaction.                                            *)
LEMMA StaysInTx ==
  ASSUME NEW tx, InTx(tx), UNCHANGED <<input, t, tx_count, in_count, segwit, previous>>
  PROVE  InTx(tx)'
<1>1. /\ tx_count = Len(input.block.txs) /\ t \in 0 .. tx_count
      /\ previous = Reverse(input.block.previous)
      /\ t < tx_count /\ tx = input.block.txs[t + 1]
      /\ in_count = Len(tx.ins) /\ segwit = (tx.witness # <<>>)
  BY Zenon DEF InTx, InBlock
<1>2. /\ input' = input /\ t' = t /\ tx_count' = tx_count /\ in_count' = in_count
      /\ segwit' = segwit /\ previous' = previous
  OBVIOUS
<1>3. InBlock'
  BY <1>1, <1>2 DEF InBlock
<1>4. segwit' = (tx.witness # <<>>)
  BY <1>1, <1>2, Zenon
<1>5. t' < tx_count' /\ tx = input'.block.txs[t' + 1] /\ in_count' = Len(tx.ins)
  BY <1>1, <1>2, Zenon
<1> QED
  BY <1>3, <1>4, <1>5, Zenon DEF InTx

(* A step that reads, and collects nothing.                                *)
LEMMA LeftAfter ==
  ASSUME NEW rest, NEW more, NEW q, Left(rest, more), Reads(data', q, input.cut),
         UNCHANGED <<input, commits>>
  PROVE  /\ Reads(data', q, input'.cut)
         /\ commits' \in Seq(Seq(Byte))
         /\ commits' \o more = CommitsOf(input'.block)
<1>1. commits \in Seq(Seq(Byte)) /\ commits \o more = CommitsOf(input.block)
  BY Zenon DEF Left
<1>2. input' = input /\ commits' = commits
  OBVIOUS
<1> QED
  BY <1>1, <1>2, Zenon

(* Input.                                                                  *)
LEMMA InputStep ==
  ASSUME input \in [block : Blocks, cut : Nat], NEW tx, AtIn(tx), Input
  PROVE  AtIn(tx)' \/ AtPanic'
<1> DEFINE b == input.block
<1> DEFINE c == input.cut
<1> DEFINE s == tx.ins[i + 1]
<1> DEFINE a == AfterIns(b, t + 1)
<1> DEFINE q == After(InPieces(tx), i + 1) \o a
<1> DEFINE more == After(TxCommitPieces(b), t)
<1> DEFINE f == Fill(36)
<1> DEFINE y == s \o Fill(4)
<1> DEFINE x == btc_parse_varint(Len(f))
<1>1. /\ InTx(tx) /\ i \in 0 .. in_count /\ pc = "in" /\ in_count = Len(tx.ins)
      /\ Left(After(InPieces(tx), i) \o a, more)
  BY Zenon DEF AtIn, InTx
<1>2. Context(tx, b, t + 1) /\ c \in Nat /\ (t + 1) - 1 = t
  BY <1>1, AtHand, Zenon
<1>3. TxParts(tx) /\ TxPiecesAre(tx) /\ a \in Seq(Byte) /\ more \in Seq(Seq(Byte))
  BY <1>2, Zenon DEF Context
<1>4. i \in Nat /\ i + 1 \in 1 .. Len(tx.ins) /\ i < Len(tx.ins)
  <2>1. Len(tx.ins) \in Nat
    BY <1>3 DEF TxParts
  <2> QED
    BY <1>1, <2>1 DEF Input
<1>5. /\ s \in Bytes /\ InPieces(tx)[i + 1] = TxIn(s)
      /\ InPieces(tx) \in Seq(Seq(Byte)) /\ Len(InPieces(tx)) = Len(tx.ins)
  BY <1>3, <1>4, Zenon DEF TxParts, TxPiecesAre
<1>6. After(InPieces(tx), i) \o a = TxIn(s) \o q /\ q \in Seq(Byte)
  <2>1. i \in 0 .. Len(InPieces(tx)) /\ i < Len(InPieces(tx))
    BY <1>1, <1>4, <1>5
  <2>2. /\ After(InPieces(tx), i) \o a = InPieces(tx)[i + 1] \o q
        /\ q \in Seq(Byte)
    <3> HIDE DEF a
    <3> QED
      BY <1>3, <1>5, <2>1, NextPiece
  <2> QED
    BY <1>5, <2>2, Zenon
<1>7. /\ s \in Seq(Byte) /\ Len(s) \in Nat /\ Len(s) <= MaxLength
      /\ TxIn(s) \o q = f \o (CompactSize(Len(s)) \o (s \o (Fill(4) \o q)))
  <2> HIDE DEF q, s
  <2> QED
    BY <1>5, <1>6, SizedBytes, FieldBytes, Zenon
<1>8. f \in Seq(Byte) /\ Len(f) = 36 /\ Fill(4) \in Seq(Byte) /\ Len(Fill(4)) = 4
  BY FillBytes
<1>9. y \in Seq(Byte) /\ Len(y) = Len(s) + 4 /\ s \o (Fill(4) \o q) = y \o q
  <2> DEFINE g == Fill(4)
  <2> HIDE DEF g, s, q
  <2>1. g \in Seq(Byte) /\ Len(g) = 4
    BY <1>8 DEF g
  <2>2. s \o g \in Seq(Byte) /\ Len(s \o g) = Len(s) + Len(g)
    BY <1>7, <2>1, ByteConcat, ByteLen, Zenon
  <2>3. (s \o g) \o q = s \o (g \o q)
    BY <1>6, <1>7, <2>1, ByteAssoc, Zenon
  <2> QED
    BY <2>1, <2>2, <2>3, Zenon DEF g
<1>10. Reads(data, f \o (CompactSize(Len(s)) \o (y \o q)), c)
  BY <1>1, <1>6, <1>7, <1>9, Zenon DEF Left
<1>11. Goto(x.next + x.value + 4, "in") /\ i' = i + 1
       /\ UNCHANGED <<input, t, counts, segwit, previous, commits>>
  BY <1>8, Zenon DEF Input
<1> HIDE DEF c, s, q, f, y
<1>12. ReadOrPanic(x, Len(s), "in", q, c)
  <2>1. Finds(x, Len(s), Len(f) + Len(CompactSize(Len(s))), c)
    <3> DEFINE r == y \o q
    <3>1. r \in Seq(Byte)
      BY <1>6, <1>9, ByteConcat, Zenon
    <3> HIDE DEF r
    <3>2. Reads(data, f \o (CompactSize(Len(s)) \o r), c)
      BY <1>10, Zenon DEF r
    <3> QED
      BY <1>2, <1>7, <1>8, <3>1, <3>2, VarintFinds
  <2>2. x.next \in Nat /\ x.value \in Nat
    BY <1>7, <2>1 DEF Finds
  <2>3. /\ x.value + 4 \in Nat /\ x.next + (x.value + 4) = x.next + x.value + 4
        /\ x.value = Len(s) => x.value + 4 = Len(y)
    BY <1>9, <2>2
  <2>4. Goto(x.next + (x.value + 4), "in")
    BY <1>11, <2>3, Zenon
  <2> QED
    BY <1>2, <1>6, <1>7, <1>8, <1>9, <1>10, <2>3, <2>4, ReadSome
<1>13. CASE pc' = "in" /\ Reads(data', q, c)
  <2>1. /\ Reads(data', q, input'.cut) /\ commits' \in Seq(Seq(Byte))
        /\ commits' \o more = CommitsOf(input'.block)
    BY <1>1, <1>11, <1>13, LeftAfter DEF c
  <2>2. input' = input /\ t' = t /\ in_count' = in_count /\ i' = i + 1
    BY <1>11, Zenon DEF counts
  <2>3. InTx(tx)'
    BY <1>1, <1>11, StaysInTx DEF counts
  <2>4. i' \in 0 .. in_count'
    BY <1>1, <1>4, <2>2
  <2>5. Left(After(InPieces(tx), i) \o AfterIns(input.block, t + 1),
             After(TxCommitPieces(input.block), t))'
    BY <2>1, <2>2, Zenon DEF Left, q
  <2> QED
    BY <1>13, <2>3, <2>4, <2>5, Zenon DEF AtIn
<1>14. CASE pc' = "panic" /\ c > 0
  BY <1>1, <1>3, <1>11, <1>14, Panics DEF c
<1> QED
  BY <1>12, <1>13, <1>14, Zenon DEF ReadOrPanic

(* A number at the front.                                                  *)
LEMMA ReadFront ==
  ASSUME NEW c \in Nat, NEW v \in Nat, v <= MaxLength, NEW q \in Seq(Byte), NEW place,
         Reads(data, CompactSize(v) \o q, c),
         Goto(btc_parse_varint(0).next, place)
  PROVE  ReadOrPanic(btc_parse_varint(0), v, place, q, c)
<1> DEFINE r == CompactSize(v) \o q
<1>1. <<>> \in Seq(Byte) /\ Len(<<>>) = 0
  BY EmptySeq
<1>2. CompactSize(v) \in Seq(Byte)
  BY CompactSizeBytes
<1>3. r \in Seq(Byte)
  BY <1>2, ByteConcat, Zenon
<1> HIDE DEF r
<1>4. <<>> \o r = r
  BY <1>3, ConcatEmptySeq
<1>5. Reads(data, <<>> \o (CompactSize(v) \o q), c)
  BY <1>4, Zenon DEF r
<1>6. Goto(btc_parse_varint(Len(<<>>)).next, place)
  BY <1>1, Zenon
<1>7. ReadOrPanic(btc_parse_varint(Len(<<>>)), v, place, q, c)
  BY <1>1, <1>5, <1>6, ReadNumber
<1> QED
  BY <1>1, <1>7, Zenon

(* OutputCount.                                                            *)
LEMMA OutputCountStep ==
  ASSUME input \in [block : Blocks, cut : Nat], NEW tx, AtIn(tx), OutputCount
  PROVE  AtOut(tx)' \/ AtPanic'
<1> DEFINE b == input.block
<1> DEFINE c == input.cut
<1> DEFINE a == AfterIns(b, t + 1)
<1> DEFINE q == After(OutPieces(tx), 0) \o AfterOuts(b, t + 1)
<1> DEFINE more == After(TxCommitPieces(b), t)
<1> DEFINE x == btc_parse_varint(0)
<1> DEFINE v == Len(tx.outs)
<1>1. /\ InTx(tx) /\ i \in 0 .. in_count /\ in_count = Len(tx.ins)
      /\ Left(After(InPieces(tx), i) \o a, more)
  BY Zenon DEF AtIn, InTx
<1>2. Context(tx, b, t + 1) /\ c \in Nat /\ (t + 1) - 1 = t
  BY <1>1, AtHand, Zenon
<1>3. /\ TxParts(tx) /\ TxPiecesAre(tx) /\ a \in Seq(Byte) /\ more \in Seq(Seq(Byte))
      /\ q \in Seq(Byte) /\ a = CompactSize(v) \o q
      /\ more = After(CommitPieces(tx), 0) \o After(TxCommitPieces(b), t + 1)
  BY <1>2, Zenon DEF Context
<1>4. /\ v \in Nat /\ v <= MaxLength
      /\ InPieces(tx) \in Seq(Seq(Byte)) /\ Len(InPieces(tx)) = Len(tx.ins)
  BY <1>3, Zenon DEF TxParts, TxPiecesAre
<1>5. After(InPieces(tx), i) \o a = a
  <2>1. i = Len(InPieces(tx)) /\ i \in 0 .. Len(InPieces(tx))
    BY <1>1, <1>4 DEF OutputCount
  <2> HIDE DEF a
  <2> QED
    BY <1>3, <1>4, <2>1, NextPiece
<1>6. Reads(data, CompactSize(v) \o q, c)
  BY <1>1, <1>3, <1>5, Zenon DEF Left
<1>7. /\ Goto(x.next, "out") /\ out_count' = x.value /\ i' = 0
      /\ UNCHANGED <<input, t, tx_count, in_count, segwit, previous, commits>>
  BY Zenon DEF OutputCount
<1> HIDE DEF c, q, v
<1>8. ReadOrPanic(x, v, "out", q, c)
  BY <1>2, <1>3, <1>4, <1>6, <1>7, ReadFront
<1>9. CASE pc' = "out" /\ Reads(data', q, c) /\ x.value = v
  <2>1. /\ Reads(data', q, input'.cut) /\ commits' \in Seq(Seq(Byte))
        /\ commits' \o more = CommitsOf(input'.block)
    BY <1>1, <1>7, <1>9, LeftAfter DEF c
  <2>2. input' = input /\ t' = t /\ i' = 0 /\ out_count' = v
    BY <1>7, <1>9, Zenon
  <2>3. InTx(tx)'
    BY <1>1, <1>7, StaysInTx
  <2>4. i' \in 0 .. out_count'
    BY <1>4, <2>2
  <2>5. Left(After(OutPieces(tx), i) \o AfterOuts(input.block, t + 1),
             After(CommitPieces(tx), i) \o After(TxCommitPieces(input.block), t + 1))'
    BY <1>3, <2>1, <2>2, Zenon DEF Left, q
  <2> QED
    BY <1>9, <2>2, <2>3, <2>4, <2>5, Zenon DEF AtOut, v
<1>10. CASE pc' = "panic" /\ c > 0
  BY <1>1, <1>3, <1>7, <1>10, Panics DEF c
<1> QED
  BY <1>8, <1>9, <1>10, Zenon DEF ReadOrPanic

(* A script is taken for a commit where it is one.                         *)
LEMMA OutputBytes ==
  ASSUME NEW c \in Nat, NEW s \in Bytes, NEW q \in Seq(Byte), NEW n,
         n = btc_parse_varint(8).next,
         Reads(data, Fill(8) \o (CompactSize(Len(s)) \o (s \o q)), c)
  PROVE  /\ n \in Nat /\ btc_parse_varint(8).value \in Nat
         /\ n + btc_parse_varint(8).value <= Len(data) =>
              /\ n + Len(s) <= Len(data) /\ btc_parse_varint(8).value = Len(s)
              /\ \A j \in 1 .. Len(s) : data[n + j] = s[j]
<1> DEFINE x == btc_parse_varint(8)
<1> DEFINE f == Fill(8)
<1> DEFINE e == CompactSize(Len(s))
<1> DEFINE r == s \o q
<1> DEFINE h == f \o e
<1>1. s \in Seq(Byte) /\ Len(s) \in Nat /\ Len(s) <= MaxLength
  BY SizedBytes
<1>2. f \in Seq(Byte) /\ Len(f) = 8
  BY FillBytes
<1>3. e \in Seq(Byte)
  BY <1>1, CompactSizeBytes
<1>4. r \in Seq(Byte)
  BY <1>1, ByteConcat, Zenon
<1>5. Finds(x, Len(s), Len(f) + Len(e), c)
  <2>1. Reads(data, f \o (CompactSize(Len(s)) \o r), c)
    BY Zenon
  <2> HIDE DEF r, f
  <2>2. Finds(btc_parse_varint(Len(f)), Len(s), Len(f) + Len(CompactSize(Len(s))), c)
    BY <1>1, <1>2, <1>4, <2>1, VarintFinds
  <2> QED
    BY <1>2, <2>2, Zenon
<1>6. Reads(data, f \o (e \o r), c)
  BY Zenon
<1> HIDE DEF f, e, x
<1>7. h \in Seq(Byte) /\ Len(h) = Len(f) + Len(e) /\ f \o (e \o r) = h \o r
  <2> HIDE DEF r
  <2>1. h \in Seq(Byte) /\ Len(h) = Len(f) + Len(e)
    BY <1>2, <1>3, ByteConcat, ByteLen, Zenon
  <2>2. (f \o e) \o r = f \o (e \o r)
    BY <1>2, <1>3, <1>4, ByteAssoc, Zenon
  <2> QED
    BY <2>1, <2>2, Zenon
<1> HIDE DEF h
<1>8. Reads(data, h \o (s \o q), c)
  BY <1>6, <1>7, Zenon
<1>9. /\ data \in Seq(Byte) /\ Len(data) \in Nat /\ Len(h) \in Nat
      /\ \A j \in 1 .. Len(s) : Len(h) + j <= Len(data) => data[Len(h) + j] = s[j]
  <2>1. h \in Seq(Byte) /\ s \in Seq(Byte) /\ q \in Seq(Byte) /\ c \in Nat
    BY <1>1, <1>7, Zenon
  <2>2. InMiddle(data, h, s, c)
    BY <1>8, <2>1, AtMiddle
  <2> QED
    BY <2>2, Zenon DEF InMiddle
<1>10. /\ x.next \in Nat
       /\ x.next <= Len(data) => x.value = Len(s) /\ x.next = Len(h)
       /\ x.next > Len(data) => x.value \in Nat
  BY <1>5, <1>7, Zenon DEF Finds
<1>11. n \in Nat /\ x.value \in Nat
  BY <1>1, <1>9, <1>10 DEF x
<1>12. ASSUME n + x.value <= Len(data)
       PROVE  /\ n + Len(s) <= Len(data) /\ x.value = Len(s)
              /\ \A j \in 1 .. Len(s) : data[n + j] = s[j]
  <2>1. n <= Len(data)
    BY <1>9, <1>11, <1>12
  <2>2. x.value = Len(s) /\ n = Len(h) /\ n + Len(s) <= Len(data)
    BY <1>10, <1>12, <2>1 DEF x
  <2>3. ASSUME NEW j \in 1 .. Len(s) PROVE data[n + j] = s[j]
    <3>1. Len(h) + j <= Len(data)
      BY <1>1, <1>9, <2>2
    <3> QED
      BY <1>9, <2>2, <3>1
  <2> QED
    BY <2>2, <2>3
<1> QED
  BY <1>11, <1>12 DEF x

(* The same bytes, n further on.                                           *)
LEMMA SameParts ==
  ASSUME NEW d \in Seq(Byte), NEW s \in Seq(Byte), NEW n \in Nat,
         NEW m \in Nat \ {0}, NEW l \in Nat, m <= l, l <= Len(s), n + l <= Len(d),
         \A j \in 1 .. l : d[n + j] = s[j]
  PROVE  SubSeq(d, n + m, n + l) = SubSeq(s, m, l) /\ SubSeq(s, m, l) \in Seq(Byte)
<1> DEFINE x == SubSeq(d, n + m, n + l)
<1> DEFINE y == SubSeq(s, m, l)
<1>1. /\ y \in Seq(Byte) /\ Len(y) = l - m + 1
      /\ \A k \in 1 .. l - m + 1 : y[k] = s[m + k - 1]
  BY Part
<1>2. n + m \in Nat \ {0} /\ n + l \in Nat /\ n + m <= n + l
  OBVIOUS
<1>3. /\ x \in Seq(Byte) /\ Len(x) = (n + l) - (n + m) + 1
      /\ \A k \in 1 .. (n + l) - (n + m) + 1 : x[k] = d[n + m + k - 1]
  BY <1>2, Part
<1> HIDE DEF x, y
<1>4. (n + l) - (n + m) + 1 = l - m + 1
  OBVIOUS
<1>5. ASSUME NEW k \in 1 .. l - m + 1 PROVE x[k] = y[k]
  <2>1. n + m + k - 1 = n + (m + k - 1) /\ m + k - 1 \in 1 .. l
    OBVIOUS
  <2>2. x[k] = d[n + m + k - 1] /\ y[k] = s[m + k - 1]
    BY <1>1, <1>3, <1>4
  <2> QED
    BY <2>1, <2>2
<1>6. Len(x) = Len(y) /\ \A k \in 1 .. Len(x) : x[k] = y[k]
  BY <1>1, <1>3, <1>4, <1>5
<1>7. x = y
  BY ONLY <1>1, <1>3, <1>6, SeqEqual
<1> QED
  BY <1>1, <1>7 DEF x, y

(* The commit of an output, if it has one.                                 *)
CommitOf(s) == IF IsCommit(s) THEN <<SubSeq(s, 3, 34)>> ELSE <<>>

(* An output read to its end leaves its commit, if it has one.             *)
LEMMA OutputCollects ==
  ASSUME NEW c \in Nat, NEW s \in Bytes, NEW q \in Seq(Byte),
         commits \in Seq(Seq(Byte)),
         Reads(data, Fill(8) \o (CompactSize(Len(s)) \o (s \o q)), c), Output
  PROVE  LET x == btc_parse_varint(8) IN
         /\ CommitOf(s) \in Seq(Seq(Byte))
         /\ x.next + x.value <= Len(data) => commits' = commits \o CommitOf(s)
         /\ ~(x.next + x.value <= Len(data)) => commits' = commits
<1> DEFINE x == btc_parse_varint(8)
<1> DEFINE n == x.next
<1> DEFINE commit == x.value = 34 /\ n + 34 <= Len(data) /\ data[n + 1] = 0 /\ data[n + 2] = 32
<1>1. /\ n \in Nat /\ x.value \in Nat
      /\ n + x.value <= Len(data) =>
           /\ n + Len(s) <= Len(data) /\ x.value = Len(s)
           /\ \A j \in 1 .. Len(s) : data[n + j] = s[j]
  BY OutputBytes, Zenon
<1>2. commits' = IF commit THEN Append(commits, SubSeq(data, n + 3, n + 34)) ELSE commits
  BY Zenon DEF Output
<1>3. s \in Seq(Byte) /\ Len(s) \in Nat
  BY SizedBytes
<1>4. data \in Seq(Byte)
  BY Zenon DEF Reads
<1> HIDE DEF x
<1>5. CommitOf(s) \in Seq(Seq(Byte))
  <2>1. IsCommit(s) => SubSeq(s, 3, 34) \in Seq(Byte)
    <3>1. IsCommit(s) => 34 <= Len(s)
      BY <1>3 DEF IsCommit
    <3>2. 3 \in Nat \ {0} /\ 34 \in Nat /\ 3 <= 34
      OBVIOUS
    <3> QED
      BY <1>3, <3>1, <3>2, Part, Zenon
  <2>2. IsCommit(s) => <<SubSeq(s, 3, 34)>> \in Seq(Seq(Byte))
    BY <2>1
  <2>3. <<>> \in Seq(Seq(Byte))
    BY EmptySeq
  <2> QED
    BY <2>2, <2>3, Zenon DEF CommitOf
<1>6. ASSUME n + x.value <= Len(data) PROVE commits' = commits \o CommitOf(s)
  <2>1. n + Len(s) <= Len(data) /\ x.value = Len(s) /\ \A j \in 1 .. Len(s) : data[n + j] = s[j]
    BY <1>1, <1>6
  <2>2. CASE Len(s) = 34
    <3>0. 1 \in 1 .. Len(s) /\ 2 \in 1 .. Len(s)
      BY <2>2
    <3>1. data[n + 1] = s[1] /\ data[n + 2] = s[2]
      BY <2>1, <3>0, Zenon
    <3>2. commit = IsCommit(s)
      BY <2>1, <2>2, <3>1, Zenon DEF IsCommit
    <3>3. SubSeq(data, n + 3, n + 34) = SubSeq(s, 3, 34) /\ SubSeq(s, 3, 34) \in Seq(Byte)
      <4>1. 3 \in Nat \ {0} /\ 34 \in Nat /\ 3 <= 34 /\ 34 <= Len(s) /\ n + 34 <= Len(data)
        BY <2>1, <2>2
      <4>2. \A j \in 1 .. 34 : data[n + j] = s[j]
        BY <2>1, <2>2
      <4> DEFINE m == 3
      <4> DEFINE l == 34
      <4>3. /\ m \in Nat \ {0} /\ l \in Nat /\ m <= l /\ l <= Len(s) /\ n + l <= Len(data)
            /\ \A j \in 1 .. l : data[n + j] = s[j]
        BY <4>1, <4>2
      <4> HIDE DEF m, l, n
      <4>4. SubSeq(data, n + m, n + l) = SubSeq(s, m, l) /\ SubSeq(s, m, l) \in Seq(Byte)
        BY <1>1, <1>3, <1>4, <4>3, SameParts
      <4> QED
        BY <4>4, Zenon DEF m, l
    <3>4. CASE IsCommit(s)
      <4> DEFINE y == SubSeq(s, 3, 34)
      <4>1. commits' = Append(commits, y)
        BY <1>2, <3>2, <3>3, <3>4, Zenon
      <4> HIDE DEF y
      <4>2. Append(commits, y) = commits \o <<y>>
        BY <3>3, AppendIsConcat DEF y
      <4> QED
        BY <3>4, <4>1, <4>2, Zenon DEF CommitOf, y
    <3>5. CASE ~IsCommit(s)
      <4>1. commits' = commits
        BY <1>2, <3>2, <3>5, Zenon
      <4>2. commits \o <<>> = commits
        BY ConcatEmptySeq
      <4> QED
        BY <3>5, <4>1, <4>2, Zenon DEF CommitOf
    <3> QED
      BY <3>4, <3>5
  <2>3. CASE Len(s) # 34
    <3>1. ~commit /\ ~IsCommit(s)
      BY <2>1, <2>3, Zenon DEF IsCommit
    <3>2. commits' = commits
      BY <1>2, <3>1, Zenon
    <3>3. commits \o <<>> = commits
      BY ConcatEmptySeq
    <3> QED
      BY <3>1, <3>2, <3>3, Zenon DEF CommitOf
  <2> QED
    BY <2>2, <2>3
<1>7. ASSUME ~(n + x.value <= Len(data)) PROVE commits' = commits
  <2>1. ~commit
    BY <1>1, <1>7
  <2> QED
    BY <1>2, <2>1, Zenon
<1> QED
  BY <1>5, <1>6, <1>7 DEF x

(* Brackets, for any elements.                                             *)
LEMMA AnyAssoc ==
  ASSUME NEW S
  PROVE  /\ \A a, b \in Seq(S) : a \o b \in Seq(S)
         /\ \A a, b, c \in Seq(S) : Assoc(a, b, c)
  BY ConcatProperties, ConcatAssociative DEF Assoc

Collected(have, ss, n, q, S) ==
  /\ have \o ss[n + 1] \in Seq(S)
  /\ After(ss, n) \o q \in Seq(S)
  /\ (have \o ss[n + 1]) \o (After(ss, n + 1) \o q) = have \o (After(ss, n) \o q)

(* What is collected goes from the front of what is left to the end of     *)
(* what is there.                                                          *)
LEMMA Collects ==
  ASSUME NEW S, NEW have \in Seq(S), NEW ss \in Seq(Seq(S)), NEW n \in 0 .. Len(ss),
         n < Len(ss), NEW q \in Seq(S)
  PROVE  Collected(have, ss, n, q, S)
<1> DEFINE x == ss[n + 1]
<1> DEFINE y == After(ss, n + 1)
<1>1. Len(ss) \in Nat /\ n + 1 \in 0 .. Len(ss) /\ n + 1 \in 1 .. Len(ss)
  OBVIOUS
<1>2. After(ss, n) = x \o y
  BY AfterStep
<1>3. y \in Seq(S)
  BY <1>1, AfterStep
<1>4. x \in Seq(S)
  BY <1>1, ElementOfSeq
<1> HIDE DEF x, y
<1>5. x \o y \in Seq(S) /\ y \o q \in Seq(S) /\ have \o x \in Seq(S)
  BY <1>3, <1>4, AnyAssoc, Zenon
<1>6. (x \o y) \o q \in Seq(S)
  BY <1>5, AnyAssoc, Zenon
<1>7. Assoc(have, x, y \o q) /\ Assoc(x, y, q)
  BY <1>3, <1>4, <1>5, AnyAssoc, Zenon
<1>8. (have \o x) \o (y \o q) = have \o ((x \o y) \o q)
  BY <1>7, Zenon DEF Assoc
<1> QED
  BY <1>2, <1>5, <1>6, <1>8, Zenon DEF Collected, x, y

(* Output.                                                                 *)
LEMMA OutputStep ==
  ASSUME input \in [block : Blocks, cut : Nat], NEW tx, AtOut(tx), Output
  PROVE  AtOut(tx)' \/ AtPanic'
<1> DEFINE b == input.block
<1> DEFINE c == input.cut
<1> DEFINE s == tx.outs[i + 1]
<1> DEFINE a == AfterOuts(b, t + 1)
<1> DEFINE q == After(OutPieces(tx), i + 1) \o a
<1> DEFINE mc == After(TxCommitPieces(b), t + 1)
<1> DEFINE more == After(CommitPieces(tx), i) \o mc
<1> DEFINE f == Fill(8)
<1> DEFINE x == btc_parse_varint(8)
<1>1. /\ InTx(tx) /\ i \in 0 .. out_count /\ pc = "out" /\ out_count = Len(tx.outs)
      /\ Left(After(OutPieces(tx), i) \o a, more)
  BY Zenon DEF AtOut
<1>2. Context(tx, b, t + 1) /\ c \in Nat
  BY <1>1, AtHand, Zenon
<1>3. TxParts(tx) /\ TxPiecesAre(tx) /\ a \in Seq(Byte) /\ mc \in Seq(Seq(Byte))
  BY <1>2, Zenon DEF Context
<1>4. i \in Nat /\ i + 1 \in 1 .. Len(tx.outs) /\ i < Len(tx.outs)
  <2>1. Len(tx.outs) \in Nat
    BY <1>3 DEF TxParts
  <2> QED
    BY <1>1, <2>1 DEF Output
<1>5. /\ s \in Bytes /\ OutPieces(tx)[i + 1] = TxOut(s)
      /\ OutPieces(tx) \in Seq(Seq(Byte)) /\ Len(OutPieces(tx)) = Len(tx.outs)
  BY <1>3, <1>4, Zenon DEF TxParts, TxPiecesAre
<1>6. After(OutPieces(tx), i) \o a = TxOut(s) \o q /\ q \in Seq(Byte)
  <2>1. i \in 0 .. Len(OutPieces(tx)) /\ i < Len(OutPieces(tx))
    BY <1>1, <1>4, <1>5
  <2>2. /\ After(OutPieces(tx), i) \o a = OutPieces(tx)[i + 1] \o q
        /\ q \in Seq(Byte)
    <3> HIDE DEF a
    <3> QED
      BY <1>3, <1>5, <2>1, NextPiece
  <2> QED
    BY <1>5, <2>2, Zenon
<1>7. /\ s \in Seq(Byte) /\ Len(s) \in Nat /\ Len(s) <= MaxLength
      /\ TxOut(s) \o q = f \o (CompactSize(Len(s)) \o (s \o q))
  <2> HIDE DEF q, s
  <2> QED
    BY <1>5, <1>6, SizedBytes, FieldBytes, Zenon
<1>8. f \in Seq(Byte) /\ Len(f) = 8
  BY FillBytes
<1>9. Reads(data, f \o (CompactSize(Len(s)) \o (s \o q)), c)
  BY <1>1, <1>6, <1>7, Zenon DEF Left
<1>10. /\ Goto(x.next + x.value, "out") /\ i' = i + 1
       /\ UNCHANGED <<input, t, counts, segwit, previous>>
  BY Zenon DEF Output
<1>11. /\ CommitPieces(tx) \in Seq(Seq(Seq(Byte))) /\ Len(CommitPieces(tx)) = Len(tx.outs)
       /\ CommitPieces(tx)[i + 1] = CommitOf(s)
  BY <1>3, <1>4, CommitPiecesAre, Zenon DEF CommitOf
<1>12. commits \in Seq(Seq(Byte)) /\ commits \o more = CommitsOf(b)
  BY <1>1, Zenon DEF Left
<1>13. /\ commits \o CommitOf(s) \in Seq(Seq(Byte)) /\ more \in Seq(Seq(Byte))
       /\ (commits \o CommitOf(s)) \o (After(CommitPieces(tx), i + 1) \o mc) = commits \o more
  <2>1. i \in 0 .. Len(CommitPieces(tx)) /\ i < Len(CommitPieces(tx))
    BY <1>1, <1>4, <1>11
  <2> DEFINE S == Seq(Byte)
  <2> DEFINE ss == CommitPieces(tx)
  <2> HIDE DEF S, ss, mc
  <2>2. commits \in Seq(S) /\ ss \in Seq(Seq(S)) /\ mc \in Seq(S)
        /\ i \in 0 .. Len(ss) /\ i < Len(ss)
    BY <1>3, <1>11, <1>12, <2>1, Zenon DEF S, ss
  <2>3. Collected(commits, ss, i, mc, S)
    BY <2>2, Collects
  <2> QED
    BY <1>11, <2>3, Zenon DEF Collected, S, ss
<1>14. /\ x.next + x.value <= Len(data) => commits' = commits \o CommitOf(s)
       /\ ~(x.next + x.value <= Len(data)) => commits' = commits
  <2> HIDE DEF q, s, c
  <2> QED
    BY <1>2, <1>5, <1>6, <1>9, <1>12, OutputCollects, Zenon
<1> HIDE DEF c, s, q, f
<1>15. ReadOrPanic(x, Len(s), "out", q, c)
  <2>1. Finds(x, Len(s), Len(f) + Len(CompactSize(Len(s))), c)
    <3> DEFINE r == s \o q
    <3>1. r \in Seq(Byte)
      BY <1>6, <1>7, ByteConcat, Zenon
    <3> HIDE DEF r
    <3>2. Reads(data, f \o (CompactSize(Len(s)) \o r), c)
      BY <1>9, Zenon DEF r
    <3>3. Finds(btc_parse_varint(Len(f)), Len(s), Len(f) + Len(CompactSize(Len(s))), c)
      BY <1>2, <1>7, <1>8, <3>1, <3>2, VarintFinds
    <3> QED
      BY <1>8, <3>3, Zenon
  <2>2. x.next \in Nat /\ x.value \in Nat
    BY <1>7, <2>1 DEF Finds
  <2>3. /\ Goto(btc_parse_varint(Len(f)).next + x.value, "out")
        /\ btc_parse_varint(Len(f)).value = Len(s) => x.value = Len(s)
    BY <1>8, <1>10, Zenon
  <2>4. ReadOrPanic(btc_parse_varint(Len(f)), Len(s), "out", q, c)
    BY <1>2, <1>6, <1>7, <1>8, <1>9, <2>2, <2>3, ReadSome
  <2> QED
    BY <1>8, <2>4, Zenon
<1>16. CASE pc' = "out" /\ Reads(data', q, c)
  <2>0. x.next + x.value <= Len(data)
    <3>1. "out" # "panic"
      OBVIOUS
    <3> QED
      BY <1>10, <1>16, <3>1, Zenon DEF Goto
  <2>1. commits' = commits \o CommitOf(s)
    BY <1>14, <2>0
  <2>2. input' = input /\ t' = t /\ out_count' = out_count /\ i' = i + 1
    BY <1>10, Zenon DEF counts
  <2>3. InTx(tx)'
    BY <1>1, <1>10, StaysInTx DEF counts
  <2>4. i' \in 0 .. out_count'
    BY <1>1, <1>4, <2>2
  <2>5. /\ Reads(data', q, input'.cut) /\ commits' \in Seq(Seq(Byte))
        /\ commits' \o (After(CommitPieces(tx), i + 1) \o mc) = CommitsOf(input'.block)
    BY <1>12, <1>13, <1>16, <2>1, <2>2, Zenon DEF c
  <2>6. Left(After(OutPieces(tx), i) \o AfterOuts(input.block, t + 1),
             After(CommitPieces(tx), i) \o After(TxCommitPieces(input.block), t + 1))'
    BY <2>5, <2>2, Zenon DEF Left, q
  <2> QED
    BY <1>1, <1>16, <2>2, <2>3, <2>4, <2>6, Zenon DEF AtOut
<1>17. CASE pc' = "panic" /\ c > 0
  <2>1. ~(x.next + x.value <= Len(data))
    <3>1. "out" # "panic"
      OBVIOUS
    <3> QED
      BY <1>10, <1>17, <3>1, Zenon DEF Goto
  <2>2. UNCHANGED <<input, commits>>
    BY <1>10, <1>14, <2>1
  <2> HIDE DEF more
  <2> QED
    BY <1>1, <1>13, <1>17, <2>2, Panics DEF c
<1> QED
  BY <1>15, <1>16, <1>17, Zenon DEF ReadOrPanic

(* OutputsDone.                                                            *)
LEMMA OutputsDoneStep ==
  ASSUME input \in [block : Blocks, cut : Nat], NEW tx, AtOut(tx), OutputsDone
  PROVE  AtWitness(tx)' \/ AtLockTime(tx)'
<1> DEFINE b == input.block
<1> DEFINE a == AfterOuts(b, t + 1)
<1> DEFINE aw == AfterWits(b, t + 1)
<1> DEFINE mc == After(TxCommitPieces(b), t + 1)
<1>1. /\ InTx(tx) /\ i \in 0 .. out_count /\ pc = "out" /\ out_count = Len(tx.outs)
      /\ Left(After(OutPieces(tx), i) \o a, After(CommitPieces(tx), i) \o mc)
  BY Zenon DEF AtOut
<1>2. Context(tx, b, t + 1)
  BY <1>1, AtHand, Zenon
<1>3. /\ TxParts(tx) /\ TxPiecesAre(tx) /\ a \in Seq(Byte) /\ mc \in Seq(Seq(Byte))
      /\ aw \in Seq(Byte) /\ a = After(WitPieces(tx), 0) \o aw
  BY <1>2, Zenon DEF Context
<1>4. /\ OutPieces(tx) \in Seq(Seq(Byte)) /\ Len(OutPieces(tx)) = Len(tx.outs)
      /\ WitPieces(tx) \in Seq(Seq(Byte)) /\ Len(WitPieces(tx)) = Len(tx.witness)
      /\ tx.witness = <<>> => Len(tx.witness) = 0
      /\ in_count = Len(tx.ins) /\ Len(tx.ins) \in Nat
  BY <1>1, <1>3 DEF TxParts, TxPiecesAre, InTx
<1>5. /\ i = out_count /\ i' = 0 /\ pc' = IF segwit THEN "witness" ELSE "locktime"
      /\ UNCHANGED <<input, data, t, counts, segwit, previous, commits>>
  BY Zenon DEF OutputsDone
<1>6. After(OutPieces(tx), i) \o a = a
  <2>1. i = Len(OutPieces(tx)) /\ i \in 0 .. Len(OutPieces(tx))
    BY <1>1, <1>4, <1>5
  <2> HIDE DEF a
  <2> QED
    BY <1>3, <1>4, <2>1, NextPiece
<1>7. After(CommitPieces(tx), i) \o mc = mc
  <2>1. CommitPieces(tx) \in Seq(Seq(Seq(Byte))) /\ Len(CommitPieces(tx)) = Len(tx.outs)
    BY <1>3, CommitPiecesAre
  <2>2. i = Len(CommitPieces(tx)) /\ i \in 0 .. Len(CommitPieces(tx))
    BY <1>1, <1>5, <2>1
  <2>3. After(CommitPieces(tx), i) = <<>>
    BY <2>1, <2>2, AfterStep
  <2>4. <<>> \o mc = mc
    BY <1>3, ConcatEmptySeq
  <2> QED
    BY <2>3, <2>4, Zenon
<1>8. Reads(data, a, input.cut) /\ commits \in Seq(Seq(Byte)) /\ commits \o mc = CommitsOf(b)
  BY <1>1, <1>6, <1>7, Zenon DEF Left
<1>9. input' = input /\ data' = data /\ t' = t /\ commits' = commits /\ in_count' = in_count
      /\ segwit' = segwit
  BY <1>5, Zenon DEF counts
<1>10. InTx(tx)'
  BY <1>1, <1>5, StaysInTx DEF counts
<1>11. CASE segwit
  <2>1. Left(After(WitPieces(tx), i) \o AfterWits(input.block, t + 1),
             After(TxCommitPieces(input.block), t + 1))'
    BY <1>3, <1>5, <1>8, <1>9, Zenon DEF Left
  <2>2. i' \in 0 .. in_count'
    BY <1>4, <1>5, <1>9
  <2>3. pc' = "witness" /\ segwit'
    BY <1>5, <1>9, <1>11, Zenon
  <2> QED
    BY <1>10, <2>1, <2>2, <2>3, Zenon DEF AtWitness
<1>12. CASE ~segwit
  <2>1. segwit = (tx.witness # <<>>)
    BY <1>1, Zenon DEF InTx
  <2>2. Len(WitPieces(tx)) = 0
    BY <1>4, <1>12, <2>1, Zenon
  <2>3. a = aw
    <3> HIDE DEF aw
    <3>1. 0 \in 0 .. Len(WitPieces(tx))
      BY <2>2
    <3>2. After(WitPieces(tx), 0) \o aw = aw
      BY <1>3, <1>4, <2>2, <3>1, NextPiece
    <3> QED
      BY <1>3, <3>2, Zenon
  <2>4. Left(AfterWits(input.block, t + 1), After(TxCommitPieces(input.block), t + 1))'
    BY <1>8, <1>9, <2>3, Zenon DEF Left
  <2>5. pc' = "locktime"
    BY <1>5, <1>12, Zenon
  <2> QED
    BY <1>10, <2>4, <2>5, Zenon DEF AtLockTime
<1> QED
  BY <1>11, <1>12

(* WitnessCount.                                                           *)
LEMMA WitnessCountStep ==
  ASSUME input \in [block : Blocks, cut : Nat], NEW tx, AtWitness(tx), WitnessCount
  PROVE  AtItem(tx)' \/ AtPanic'
<1> DEFINE b == input.block
<1> DEFINE c == input.cut
<1> DEFINE aw == AfterWits(b, t + 1)
<1> DEFINE mc == After(TxCommitPieces(b), t + 1)
<1> DEFINE items == tx.witness[i + 1]
<1> DEFINE v == Len(items)
<1> DEFINE a == After(WitPieces(tx), i + 1) \o aw
<1> DEFINE q == After(ItemPieces(items), 0) \o a
<1> DEFINE x == btc_parse_varint(0)
<1>1. /\ InTx(tx) /\ i \in 0 .. in_count /\ segwit
      /\ Left(After(WitPieces(tx), i) \o aw, mc)
  BY Zenon DEF AtWitness
<1>2. Context(tx, b, t + 1) /\ c \in Nat
  BY <1>1, AtHand, Zenon
<1>3. /\ TxParts(tx) /\ TxPiecesAre(tx) /\ mc \in Seq(Seq(Byte)) /\ aw \in Seq(Byte)
  BY <1>2, Zenon DEF Context
<1>4. i \in Nat /\ i + 1 \in 1 .. Len(tx.witness) /\ i < Len(tx.witness)
  <2>1. segwit = (tx.witness # <<>>) /\ in_count = Len(tx.ins)
    BY <1>1, Zenon DEF InTx
  <2>2. Len(tx.witness) = Len(tx.ins) /\ Len(tx.witness) \in Nat
    BY <1>1, <1>3, <2>1, Zenon DEF TxParts
  <2>3. i < in_count
    BY Zenon DEF WitnessCount
  <2> QED
    BY <1>1, <2>1, <2>2, <2>3
<1>5. /\ items \in Seq(Bytes) /\ v <= MaxLength /\ WitPieces(tx)[i + 1] = Witness(items)
      /\ WitPieces(tx) \in Seq(Seq(Byte)) /\ Len(WitPieces(tx)) = Len(tx.witness)
  BY <1>3, <1>4, Zenon DEF TxParts, TxPiecesAre
<1>6. After(WitPieces(tx), i) \o aw = Witness(items) \o a /\ a \in Seq(Byte)
  <2>1. i \in 0 .. Len(WitPieces(tx)) /\ i < Len(WitPieces(tx))
    BY <1>4, <1>5
  <2>2. /\ After(WitPieces(tx), i) \o aw = WitPieces(tx)[i + 1] \o a
        /\ a \in Seq(Byte)
    <3> HIDE DEF aw
    <3> QED
      BY <1>3, <1>5, <2>1, NextPiece
  <2> QED
    BY <1>5, <2>2, Zenon
<1>7. ItemPieces(items) \in Seq(Seq(Byte)) /\ Len(ItemPieces(items)) = v /\ v \in Nat
  <2> HIDE DEF items
  <2> QED
    BY <1>5, ItemsAre
<1>8. Witness(items) \o a = CompactSize(v) \o q /\ q \in Seq(Byte)
  <2> HIDE DEF items, a
  <2>1. 0 \in 0 .. Len(ItemPieces(items))
    BY <1>7
  <2>2. q \in Seq(Byte)
    BY <1>6, <1>7, <2>1, NextPiece, Zenon
  <2>3. Witness(items) \o a = CompactSize(v) \o q
    BY <1>5, <1>6, WitnessBytes, Zenon
  <2> QED
    BY <2>2, <2>3, Zenon
<1>9. Reads(data, CompactSize(v) \o q, c)
  BY <1>1, <1>6, <1>8, Zenon DEF Left
<1>10. /\ Goto(x.next, "item") /\ witness_count' = x.value /\ w' = 0
       /\ UNCHANGED <<input, t, i, tx_count, in_count, segwit, previous, commits>>
  BY Zenon DEF WitnessCount
<1> HIDE DEF c, q, v
<1>11. ReadOrPanic(x, v, "item", q, c)
  BY <1>2, <1>5, <1>7, <1>8, <1>9, <1>10, ReadFront
<1>12. CASE pc' = "item" /\ Reads(data', q, c) /\ x.value = v
  <2>1. /\ Reads(data', q, input'.cut) /\ commits' \in Seq(Seq(Byte))
        /\ commits' \o mc = CommitsOf(input'.block)
    BY <1>1, <1>10, <1>12, LeftAfter DEF c
  <2>2. input' = input /\ t' = t /\ i' = i /\ w' = 0 /\ witness_count' = v
        /\ in_count' = in_count /\ segwit' = segwit
    BY <1>10, <1>12, Zenon
  <2>3. InTx(tx)'
    BY <1>1, <1>10, StaysInTx
  <2>4. w' \in 0 .. witness_count' /\ i' \in 0 .. in_count' - 1
    <3>1. i < in_count
      BY Zenon DEF WitnessCount
    <3>2. in_count \in Nat
      BY <1>1, <1>3, Zenon DEF InTx, TxParts
    <3> QED
      BY <1>4, <1>7, <2>2, <3>1, <3>2
  <2>5. Left(After(ItemPieces(tx.witness[i + 1]), w)
               \o (After(WitPieces(tx), i + 1) \o AfterWits(input.block, t + 1)),
             After(TxCommitPieces(input.block), t + 1))'
    BY <2>1, <2>2, Zenon DEF Left, q
  <2> QED
    BY <1>1, <1>12, <2>2, <2>3, <2>4, <2>5, Zenon DEF AtItem, v
<1>13. CASE pc' = "panic" /\ c > 0
  BY <1>1, <1>3, <1>10, <1>13, Panics DEF c
<1> QED
  BY <1>11, <1>12, <1>13, Zenon DEF ReadOrPanic

(* WitnessItem.                                                            *)
LEMMA WitnessItemStep ==
  ASSUME input \in [block : Blocks, cut : Nat], NEW tx, AtItem(tx), WitnessItem
  PROVE  AtItem(tx)' \/ AtPanic'
<1> DEFINE b == input.block
<1> DEFINE c == input.cut
<1> DEFINE aw == AfterWits(b, t + 1)
<1> DEFINE mc == After(TxCommitPieces(b), t + 1)
<1> DEFINE items == tx.witness[i + 1]
<1> DEFINE s == items[w + 1]
<1> DEFINE a == After(WitPieces(tx), i + 1) \o aw
<1> DEFINE q == After(ItemPieces(items), w + 1) \o a
<1> DEFINE x == btc_parse_varint(0)
<1>1. /\ InTx(tx) /\ i \in 0 .. in_count - 1 /\ segwit
      /\ witness_count = Len(items) /\ w \in 0 .. witness_count
      /\ Left(After(ItemPieces(items), w) \o a, mc)
  BY Zenon DEF AtItem
<1>2. Context(tx, b, t + 1) /\ c \in Nat
  BY <1>1, AtHand, Zenon
<1>3. /\ TxParts(tx) /\ TxPiecesAre(tx) /\ mc \in Seq(Seq(Byte)) /\ aw \in Seq(Byte)
  BY <1>2, Zenon DEF Context
<1>4. /\ i \in Nat /\ i + 1 \in 1 .. Len(tx.witness) /\ i + 1 \in 0 .. Len(tx.witness)
  <2>1. segwit = (tx.witness # <<>>) /\ in_count = Len(tx.ins)
    BY <1>1, Zenon DEF InTx
  <2>2. Len(tx.witness) = Len(tx.ins) /\ Len(tx.witness) \in Nat
    BY <1>1, <1>3, <2>1, Zenon DEF TxParts
  <2> QED
    BY <1>1, <2>1, <2>2
<1>5. /\ items \in Seq(Bytes)
      /\ WitPieces(tx) \in Seq(Seq(Byte)) /\ Len(WitPieces(tx)) = Len(tx.witness)
  BY <1>3, <1>4, Zenon DEF TxParts, TxPiecesAre
<1>6. a \in Seq(Byte)
  <2> HIDE DEF aw
  <2> QED
    BY <1>3, <1>4, <1>5, NextPiece, Zenon
<1>7. /\ ItemPieces(items) \in Seq(Seq(Byte))
      /\ Len(ItemPieces(items)) = Len(items) /\ Len(items) \in Nat
      /\ \A k \in 1 .. Len(items) : items[k] \in Bytes /\ ItemPieces(items)[k] = Sized(items[k])
  <2> HIDE DEF items
  <2> QED
    BY <1>5, ItemsAre
<1>8. w \in Nat /\ w + 1 \in 1 .. Len(items) /\ w < Len(items)
  <2>1. w < witness_count
    BY Zenon DEF WitnessItem
  <2> QED
    BY <1>1, <1>7, <2>1
<1>9. s \in Bytes /\ ItemPieces(items)[w + 1] = Sized(s)
  BY <1>7, <1>8, Zenon
<1>10. After(ItemPieces(items), w) \o a = Sized(s) \o q /\ q \in Seq(Byte)
  <2>1. w \in 0 .. Len(ItemPieces(items)) /\ w < Len(ItemPieces(items))
    BY <1>1, <1>7, <1>8
  <2>2. /\ After(ItemPieces(items), w) \o a = ItemPieces(items)[w + 1] \o q
        /\ q \in Seq(Byte)
    <3> HIDE DEF a, items
    <3> QED
      BY <1>6, <1>7, <2>1, NextPiece
  <2> QED
    BY <1>9, <2>2, Zenon
<1>11. /\ s \in Seq(Byte) /\ Len(s) \in Nat /\ Len(s) <= MaxLength
       /\ Sized(s) \o q = CompactSize(Len(s)) \o (s \o q)
  <2> HIDE DEF q, s
  <2> QED
    BY <1>9, <1>10, SizedBytes, FieldBytes, Zenon
<1>12. Reads(data, CompactSize(Len(s)) \o (s \o q), c)
  BY <1>1, <1>10, <1>11, Zenon DEF Left
<1>13. /\ Goto(x.next + x.value, "item") /\ w' = w + 1
       /\ UNCHANGED <<input, t, i, counts, segwit, previous, commits>>
  BY Zenon DEF WitnessItem
<1> HIDE DEF c, s, q
<1>14. ReadOrPanic(x, Len(s), "item", q, c)
  <2> DEFINE e == CompactSize(Len(s))
  <2> DEFINE r == s \o q
  <2>1. <<>> \in Seq(Byte) /\ Len(<<>>) = 0
    BY EmptySeq
  <2>2. e \in Seq(Byte) /\ r \in Seq(Byte)
    <3>1. e \in Seq(Byte)
      BY <1>11, CompactSizeBytes
    <3>2. r \in Seq(Byte)
      BY <1>10, <1>11, ByteConcat, Zenon
    <3> QED
      BY <3>1, <3>2
  <2> HIDE DEF e
  <2>3. <<>> \o (e \o r) = e \o r
    <3> HIDE DEF r
    <3>1. e \o r \in Seq(Byte)
      BY <2>2, ByteConcat, Zenon
    <3> DEFINE y == e \o r
    <3> HIDE DEF y
    <3>2. <<>> \o y = y
      BY <3>1, ConcatEmptySeq DEF y
    <3> QED
      BY <3>2, Zenon DEF y
  <2>4. Reads(data, <<>> \o (CompactSize(Len(s)) \o (s \o q)), c)
    BY <1>12, <2>3, Zenon DEF e
  <2>5. Finds(x, Len(s), 0 + Len(CompactSize(Len(s))), c)
    <3> HIDE DEF r
    <3>1. Reads(data, <<>> \o (CompactSize(Len(s)) \o r), c)
      BY <2>4, Zenon DEF r
    <3>2. Finds(btc_parse_varint(Len(<<>>)), Len(s), Len(<<>>) + Len(CompactSize(Len(s))), c)
      BY <1>2, <1>11, <2>1, <2>2, <3>1, VarintFinds
    <3> QED
      BY <2>1, <3>2, Zenon
  <2>6. x.next \in Nat /\ x.value \in Nat
    BY <1>11, <2>5 DEF Finds
  <2>7. /\ Goto(btc_parse_varint(Len(<<>>)).next + x.value, "item")
        /\ btc_parse_varint(Len(<<>>)).value = Len(s) => x.value = Len(s)
    BY <1>13, <2>1, Zenon
  <2>8. ReadOrPanic(btc_parse_varint(Len(<<>>)), Len(s), "item", q, c)
    BY <1>2, <1>10, <1>11, <2>1, <2>4, <2>6, <2>7, ReadSome
  <2> QED
    BY <2>1, <2>8, Zenon
<1>15. CASE pc' = "item" /\ Reads(data', q, c)
  <2>1. /\ Reads(data', q, input'.cut) /\ commits' \in Seq(Seq(Byte))
        /\ commits' \o mc = CommitsOf(input'.block)
    BY <1>1, <1>13, <1>15, LeftAfter DEF c
  <2>2. input' = input /\ t' = t /\ i' = i /\ w' = w + 1 /\ witness_count' = witness_count
        /\ in_count' = in_count /\ segwit' = segwit
    BY <1>13, Zenon DEF counts
  <2>3. InTx(tx)'
    BY <1>1, <1>13, StaysInTx DEF counts
  <2>4. w' \in 0 .. witness_count' /\ i' \in 0 .. in_count' - 1
    BY <1>1, <1>8, <2>2
  <2>5. Left(After(ItemPieces(tx.witness[i + 1]), w)
               \o (After(WitPieces(tx), i + 1) \o AfterWits(input.block, t + 1)),
             After(TxCommitPieces(input.block), t + 1))'
    BY <2>1, <2>2, Zenon DEF Left, q
  <2> QED
    BY <1>1, <1>15, <2>2, <2>3, <2>4, <2>5, Zenon DEF AtItem
<1>16. CASE pc' = "panic" /\ c > 0
  BY <1>1, <1>3, <1>13, <1>16, Panics DEF c
<1> QED
  BY <1>14, <1>15, <1>16, Zenon DEF ReadOrPanic

(* WitnessDone.                                                            *)
LEMMA WitnessDoneStep ==
  ASSUME input \in [block : Blocks, cut : Nat], NEW tx, AtItem(tx), WitnessDone
  PROVE  AtWitness(tx)'
<1> DEFINE b == input.block
<1> DEFINE aw == AfterWits(b, t + 1)
<1> DEFINE mc == After(TxCommitPieces(b), t + 1)
<1> DEFINE items == tx.witness[i + 1]
<1> DEFINE a == After(WitPieces(tx), i + 1) \o aw
<1>1. /\ InTx(tx) /\ i \in 0 .. in_count - 1 /\ segwit
      /\ witness_count = Len(items) /\ w \in 0 .. witness_count
      /\ Left(After(ItemPieces(items), w) \o a, mc)
  BY Zenon DEF AtItem
<1>2. Context(tx, b, t + 1)
  BY <1>1, AtHand, Zenon
<1>3. TxParts(tx) /\ TxPiecesAre(tx) /\ aw \in Seq(Byte)
  BY <1>2, Zenon DEF Context
<1>4. /\ i \in Nat /\ i + 1 \in 1 .. Len(tx.witness) /\ i + 1 \in 0 .. Len(tx.witness)
      /\ i + 1 \in 0 .. in_count
  <2>1. segwit = (tx.witness # <<>>) /\ in_count = Len(tx.ins)
    BY <1>1, Zenon DEF InTx
  <2>2. Len(tx.witness) = Len(tx.ins) /\ Len(tx.witness) \in Nat
    BY <1>1, <1>3, <2>1, Zenon DEF TxParts
  <2> QED
    BY <1>1, <2>1, <2>2
<1>5. /\ items \in Seq(Bytes)
      /\ WitPieces(tx) \in Seq(Seq(Byte)) /\ Len(WitPieces(tx)) = Len(tx.witness)
  BY <1>3, <1>4, Zenon DEF TxParts, TxPiecesAre
<1>6. a \in Seq(Byte)
  <2> HIDE DEF aw
  <2> QED
    BY <1>3, <1>4, <1>5, NextPiece, Zenon
<1>7. ItemPieces(items) \in Seq(Seq(Byte)) /\ Len(ItemPieces(items)) = Len(items)
  <2> HIDE DEF items
  <2> QED
    BY <1>5, ItemsAre
<1>8. /\ w = witness_count /\ pc' = "witness" /\ i' = i + 1
      /\ UNCHANGED <<input, data, t, counts, segwit, previous, commits>>
  BY Zenon DEF WitnessDone
<1>9. After(ItemPieces(items), w) \o a = a
  <2>1. w = Len(ItemPieces(items)) /\ w \in 0 .. Len(ItemPieces(items))
    BY <1>1, <1>7, <1>8
  <2> HIDE DEF a, items
  <2> QED
    BY <1>6, <1>7, <2>1, NextPiece
<1>10. Reads(data, a, input.cut) /\ commits \in Seq(Seq(Byte)) /\ commits \o mc = CommitsOf(b)
  BY <1>1, <1>9, Zenon DEF Left
<1>11. input' = input /\ data' = data /\ t' = t /\ commits' = commits /\ in_count' = in_count
       /\ segwit' = segwit
  BY <1>8, Zenon DEF counts
<1>12. InTx(tx)'
  BY <1>1, <1>8, StaysInTx DEF counts
<1>13. Left(After(WitPieces(tx), i) \o AfterWits(input.block, t + 1),
            After(TxCommitPieces(input.block), t + 1))'
  BY <1>8, <1>10, <1>11, Zenon DEF Left
<1>14. i' \in 0 .. in_count' /\ segwit'
  BY <1>1, <1>4, <1>8, <1>11
<1> QED
  BY <1>8, <1>12, <1>13, <1>14, Zenon DEF AtWitness

(* A field of known length is dropped.                                     *)
LEMMA Skips ==
  ASSUME NEW c \in Nat, NEW p \in Seq(Byte), NEW q \in Seq(Byte), NEW n, n = Len(p), NEW place,
         Reads(data, p \o q, c), Goto(n, place)
  PROVE  \/ pc' = place /\ Reads(data', q, c)
         \/ pc' = "panic" /\ c > 0
<1>1. /\ Len(data) \in Nat /\ Len(p) \in Nat
      /\ Len(p) <= Len(data) => Reads(SubSeq(data, Len(p) + 1, Len(data)), q, c)
      /\ Len(p) > Len(data) => c > 0
  BY Drop
<1>2. CASE Len(p) <= Len(data)
  BY <1>1, <1>2, Zenon DEF Goto
<1>3. CASE ~(Len(p) <= Len(data))
  <2>1. c > 0
    BY <1>1, <1>3
  <2> QED
    BY <1>3, <2>1, Zenon DEF Goto
<1> QED
  BY <1>2, <1>3

(* The end of a transaction: LockTime.                                     *)
LEMMA LockTimeStep ==
  ASSUME input \in [block : Blocks, cut : Nat], NEW tx, AtLockTime(tx) \/ AtWitness(tx),
         LockTime
  PROVE  AtTx' \/ AtPanic'
<1> DEFINE b == input.block
<1> DEFINE c == input.cut
<1> DEFINE f == Fill(4)
<1> DEFINE q == After(TxPieces(b), t + 1)
<1> DEFINE aw == AfterWits(b, t + 1)
<1> DEFINE mc == After(TxCommitPieces(b), t + 1)
<1>1. InTx(tx)
  BY Zenon DEF AtLockTime, AtWitness
<1>2. Context(tx, b, t + 1) /\ c \in Nat /\ t \in Nat /\ t + 1 \in 1 .. tx_count
  BY <1>1, AtHand, Zenon
<1>3. /\ TxParts(tx) /\ TxPiecesAre(tx) /\ aw \in Seq(Byte) /\ mc \in Seq(Seq(Byte))
      /\ q \in Seq(Byte) /\ f \in Seq(Byte) /\ aw = f \o q
  BY <1>2, Zenon DEF Context, AfterWits
<1>4. Left(aw, mc)
  <2>1. CASE AtLockTime(tx)
    BY <2>1, Zenon DEF AtLockTime
  <2>2. CASE AtWitness(tx)
    <3>1. pc = "witness" /\ segwit /\ Left(After(WitPieces(tx), i) \o aw, mc)
      BY <2>2, Zenon DEF AtWitness
    <3>2. "witness" # "locktime"
      OBVIOUS
    <3>3. i = in_count
      BY <3>1, <3>2, Zenon DEF LockTime
    <3>4. segwit = (tx.witness # <<>>) /\ in_count = Len(tx.ins)
      BY <1>1, Zenon DEF InTx
    <3>5. /\ Len(tx.witness) = Len(tx.ins) /\ Len(tx.witness) \in Nat
          /\ WitPieces(tx) \in Seq(Seq(Byte)) /\ Len(WitPieces(tx)) = Len(tx.witness)
      BY <1>3, <3>1, <3>4, Zenon DEF TxParts, TxPiecesAre
    <3>6. i = Len(WitPieces(tx)) /\ i \in 0 .. Len(WitPieces(tx))
      BY <3>3, <3>4, <3>5
    <3>7. After(WitPieces(tx), i) \o aw = aw
      <4> HIDE DEF aw
      <4> QED
        BY <1>3, <3>5, <3>6, NextPiece
    <3> QED
      BY <3>1, <3>7, Zenon
  <2> QED
    BY <2>1, <2>2
<1>5. Reads(data, f \o q, c)
  BY <1>3, <1>4, Zenon DEF Left
<1>6. /\ Goto(4, "tx") /\ t' = t + 1
      /\ UNCHANGED <<input, counts, previous, commits>>
  BY Zenon DEF LockTime
<1>7. 4 = Len(f)
  BY FillBytes
<1> HIDE DEF c, f, q
<1>8. (pc' = "tx" /\ Reads(data', q, c)) \/ (pc' = "panic" /\ c > 0)
  BY <1>2, <1>3, <1>5, <1>6, <1>7, Skips
<1>9. CASE pc' = "tx" /\ Reads(data', q, c)
  <2>1. /\ Reads(data', q, input'.cut) /\ commits' \in Seq(Seq(Byte))
        /\ commits' \o mc = CommitsOf(input'.block)
    BY <1>4, <1>6, <1>9, LeftAfter DEF c
  <2>2. input' = input /\ t' = t + 1 /\ tx_count' = tx_count /\ previous' = previous
    BY <1>6, Zenon DEF counts
  <2>3. tx_count = Len(input.block.txs) /\ previous = Reverse(input.block.previous)
    BY <1>1, Zenon DEF InTx, InBlock
  <2>4. t' \in 0 .. tx_count'
    BY <1>2, <2>2
  <2>5. InBlock'
    BY <2>2, <2>3, <2>4, Zenon DEF InBlock
  <2>6. Left(After(TxPieces(input.block), t), After(TxCommitPieces(input.block), t))'
    BY <2>1, <2>2, Zenon DEF Left, q
  <2> QED
    BY <1>9, <2>5, <2>6, Zenon DEF AtTx
<1>10. CASE pc' = "panic" /\ c > 0
  BY <1>3, <1>4, <1>6, <1>10, Panics DEF c
<1> QED
  BY <1>8, <1>9, <1>10, Zenon

(* Done.                                                                   *)
LEMMA DoneStep ==
  ASSUME input \in [block : Blocks, cut : Nat], AtTx, Done
  PROVE  AtDone'
<1> DEFINE b == input.block
<1>1. /\ InBlock /\ Left(After(TxPieces(b), t), After(TxCommitPieces(b), t))
  BY Zenon DEF AtTx
<1>2. BlockParts(b)
  BY BlockHasParts
<1>3. /\ Len(b.txs) \in Nat
      /\ TxPieces(b) \in Seq(Seq(Byte)) /\ Len(TxPieces(b)) = Len(b.txs)
      /\ TxCommitPieces(b) \in Seq(Seq(Seq(Byte))) /\ Len(TxCommitPieces(b)) = Len(b.txs)
  BY <1>2, Zenon DEF BlockParts
<1>4. t = Len(b.txs) /\ t \in 0 .. Len(b.txs)
  BY <1>1, <1>3 DEF InBlock, Done
<1>5. After(TxPieces(b), t) = <<>>
  BY <1>3, <1>4, AfterStep
<1>6. After(TxCommitPieces(b), t) = <<>>
  BY <1>3, <1>4, AfterStep
<1>7. Left(<<>>, <<>>)
  BY <1>1, <1>5, <1>6, Zenon
<1>8. pc' = "done" /\ UNCHANGED <<input, data, t, counts, segwit, previous, commits>>
  BY Zenon DEF Done
<1>9. Left(<<>>, <<>>)'
  <2>1. input' = input /\ data' = data /\ commits' = commits
    BY <1>8, Zenon
  <2> QED
    BY <1>7, <2>1, Zenon DEF Left
<1>10. InBlock'
  <2>1. input' = input /\ t' = t /\ tx_count' = tx_count /\ previous' = previous
    BY <1>8, Zenon DEF counts
  <2> QED
    BY <1>1, <2>1, Zenon DEF InBlock
<1> QED
  BY <1>8, <1>9, <1>10, Zenon DEF AtDone

(* Header.                                                                 *)
LEMMA HeaderStep ==
  ASSUME input \in [block : Blocks, cut : Nat], AtHeader, Header
  PROVE  AtTx' \/ AtPanic'
<1> DEFINE b == input.block
<1> DEFINE c == input.cut
<1> DEFINE h == HeaderOf(b)
<1> DEFINE q == After(TxPieces(b), 0)
<1> DEFINE v == Len(b.txs)
<1> DEFINE x == btc_parse_varint(80)
<1> DEFINE more == CommitsOf(b)
<1>1. t = 0 /\ Left(Serialize(b), more) /\ c \in Nat
  BY Zenon DEF AtHeader
<1>2. BlockParts(b)
  BY BlockHasParts
<1>3. HeaderBytes(b)
  BY <1>2, BlockBytes
<1>4. /\ h \in Seq(Byte) /\ Len(h) = 80 /\ q \in Seq(Byte)
      /\ \A k \in 1 .. 32 : h[4 + k] = b.previous[k]
      /\ Serialize(b) = h \o (CompactSize(v) \o q)
      /\ CompactSize(v) \in Seq(Byte)
  BY <1>3, Zenon DEF HeaderBytes
<1>5. /\ v \in Nat /\ v <= MaxLength /\ b.previous \in Seq(Byte) /\ Len(b.previous) = 32
      /\ more = After(TxCommitPieces(b), 0) /\ more \in Seq(Seq(Byte))
  BY <1>2, Zenon DEF BlockParts
<1>6. Reads(data, h \o (CompactSize(v) \o q), c)
  BY <1>1, <1>4, Zenon DEF Left
<1>7. /\ Goto(x.next, "tx") /\ tx_count' = x.value
      /\ previous' = IF x.next <= Len(data) THEN Reverse(SubSeq(data, 5, 36)) ELSE previous
      /\ UNCHANGED <<input, t, commits>>
  BY Zenon DEF Header
<1> HIDE DEF c, h, q, v
<1>8. ReadOrPanic(x, v, "tx", q, c)
  <2>1. Goto(btc_parse_varint(Len(h)).next, "tx")
    BY <1>4, <1>7, Zenon
  <2>2. ReadOrPanic(btc_parse_varint(Len(h)), v, "tx", q, c)
    BY <1>1, <1>4, <1>5, <1>6, <2>1, ReadNumber DEF c
  <2> QED
    BY <1>4, <2>2, Zenon
<1>9. CASE pc' = "tx" /\ Reads(data', q, c) /\ x.value = v /\ x.next <= Len(data)
  <2>1. /\ Reads(data', q, input'.cut) /\ commits' \in Seq(Seq(Byte))
        /\ commits' \o more = CommitsOf(input'.block)
    BY <1>1, <1>7, <1>9, LeftAfter DEF c
  <2>2. input' = input /\ t' = 0 /\ tx_count' = v
    BY <1>1, <1>7, <1>9, Zenon
  <2>3. previous' = Reverse(b.previous)
    <3> DEFINE r == CompactSize(v) \o q
    <3>1. r \in Seq(Byte)
      BY <1>4, ByteConcat, Zenon
    <3> HIDE DEF r
    <3>0. Reads(data, h \o r, c)
      BY <1>6, Zenon DEF r
    <3>2. /\ data \in Seq(Byte) /\ Len(data) \in Nat
          /\ \A k \in 1 .. Len(h) : k <= Len(data) => data[k] = h[k]
      <4>1. h \in Seq(Byte) /\ c \in Nat
        BY <1>1, <1>4
      <4> QED
        BY <3>0, <3>1, <4>1, Drop
    <3>6. Len(data) \in Nat
      BY <3>2
    <3>3. Len(data) > 80
      BY <1>9, <3>2, VarintCases
    <3>4. \A j \in 1 .. 32 : data[4 + j] = b.previous[j]
      <4>1. ASSUME NEW j \in 1 .. 32 PROVE data[4 + j] = b.previous[j]
        <5>0. Len(h) = 80
          BY <1>4
        <5>1. 4 + j \in 1 .. Len(h) /\ 4 + j <= Len(data)
          BY <3>3, <3>6, <5>0
        <5>2. data[4 + j] = h[4 + j]
          BY <3>2, <5>1
        <5>3. h[4 + j] = b.previous[j]
          BY <1>4
        <5> QED
          BY <5>2, <5>3
      <4> QED
        BY <4>1
    <3>5. SubSeq(data, 5, 36) = b.previous
      <4> DEFINE n == 4
      <4> DEFINE l == 32
      <4> DEFINE m == 1
      <4> DEFINE s == b.previous
      <4>1. /\ n \in Nat /\ m \in Nat \ {0} /\ l \in Nat /\ m <= l /\ l <= Len(s)
            /\ n + l <= Len(data) /\ \A j \in 1 .. l : data[n + j] = s[j]
            /\ s \in Seq(Byte) /\ l = Len(s)
        BY <1>5, <3>2, <3>3, <3>4
      <4>2. n + m = 5 /\ n + l = 36
        OBVIOUS
      <4>3. SubSeq(s, 1, Len(s)) = s
        BY <4>1, SubSeqFull
      <4> HIDE DEF n, l, m, s
      <4>4. SubSeq(data, n + m, n + l) = SubSeq(s, m, l)
        BY <3>2, <4>1, SameParts
      <4>5. SubSeq(s, m, l) = s
        BY <4>1, <4>3, Zenon DEF m
      <4> QED
        BY <4>2, <4>4, <4>5, Zenon DEF s
    <3> QED
      BY <1>7, <1>9, <3>5, Zenon
  <2>4. t' \in 0 .. tx_count'
    BY <1>5, <2>2
  <2>5. InBlock'
    BY <2>2, <2>3, <2>4, Zenon DEF InBlock, v
  <2>6. Left(After(TxPieces(input.block), t), After(TxCommitPieces(input.block), t))'
    BY <1>5, <2>1, <2>2, Zenon DEF Left, q
  <2> QED
    BY <1>9, <2>5, <2>6, Zenon DEF AtTx
<1>10. CASE pc' = "panic" /\ c > 0
  BY <1>1, <1>5, <1>7, <1>10, Panics DEF c
<1> QED
  BY <1>8, <1>9, <1>10, Zenon DEF ReadOrPanic

(* btc_parse_varint finds zero past the end only where there is no byte.   *)
LEMMA VarintZero ==
  ASSUME NEW k \in Nat, data \in Seq(Byte),
         btc_parse_varint(k).next > Len(data), btc_parse_varint(k).value = 0
  PROVE  Len(data) <= k
<1>1. Len(data) \in Nat /\ \A j \in 1 .. Len(data) : data[j] \in Nat
  BY ByteNat
<1> QED
  BY <1>1, SMT DEF btc_parse_varint

(* TxBegin.                                                                *)
LEMMA TxBeginStep ==
  ASSUME input \in [block : Blocks, cut : Nat], AtTx, TxBegin
  PROVE  (\E tx \in Range(input.block.txs) : AtIn(tx)') \/ AtPanic'
<1> DEFINE b == input.block
<1> DEFINE c == input.cut
<1>0. PICK tx : tx = b.txs[t + 1]
  OBVIOUS
<1> DEFINE more == After(TxCommitPieces(b), t)
<1> DEFINE v == Len(tx.ins)
<1> DEFINE q == After(InPieces(tx), 0) \o AfterIns(b, t + 1)
<1> DEFINE f == Fill(4)
<1> DEFINE k == Marker(tx)
<1> DEFINE first == btc_parse_varint(4)
<1> DEFINE count == IF first.value = 0 THEN btc_parse_varint(6) ELSE first
<1>1. InBlock /\ Left(After(TxPieces(b), t), more) /\ c \in Nat /\ b \in Blocks
  BY DEF AtTx
<1>2. BlockParts(b)
  BY BlockHasParts
<1>3. /\ tx_count = Len(b.txs) /\ t \in 0 .. tx_count /\ Len(b.txs) \in Nat
      /\ DOMAIN b.txs = 1 .. Len(b.txs) /\ previous = Reverse(b.previous)
  BY <1>1, <1>2, Zenon DEF InBlock, BlockParts
<1>4. t < tx_count
  BY Zenon DEF TxBegin
<1>5. t \in Nat /\ t + 1 \in 1 .. Len(b.txs) /\ (t + 1) - 1 = t
  BY <1>3, <1>4
<1>6. Context(tx, b, t + 1) /\ tx \in Range(b.txs)
  <2>1. Context(tx, b, t + 1)
    BY <1>0, <1>1, <1>5, HasContext
  <2>2. tx \in Range(b.txs)
    BY <1>0, <1>3, <1>5, Zenon DEF Range
  <2> QED
    BY <2>1, <2>2
<1>7. /\ TxParts(tx) /\ more \in Seq(Seq(Byte)) /\ q \in Seq(Byte) /\ f \in Seq(Byte)
      /\ After(TxPieces(b), t) = f \o (k \o (CompactSize(v) \o q))
  <2>1. /\ After(TxPieces(b), (t + 1) - 1) = f \o (k \o FromIns(tx, After(TxPieces(b), t + 1)))
        /\ FromIns(tx, After(TxPieces(b), t + 1)) = CompactSize(v) \o q
        /\ After(TxCommitPieces(b), (t + 1) - 1) \in Seq(Seq(Byte))
        /\ TxParts(tx) /\ q \in Seq(Byte) /\ f \in Seq(Byte)
    BY <1>6, Zenon DEF Context
  <2> QED
    BY <1>5, <2>1, Zenon
<1>8. v \in Nat \ {0} /\ v <= MaxLength /\ CompactSize(v) \in Seq(Byte)
  <2>1. v \in Nat \ {0} /\ v <= MaxLength
    BY <1>7, Zenon DEF TxParts
  <2> HIDE DEF v
  <2> QED
    BY <2>1, CompactSizeBytes
<1>9. Reads(data, f \o (k \o (CompactSize(v) \o q)), c)
  BY <1>1, <1>7, Zenon DEF Left
<1>10. /\ Goto(count.next, "in") /\ in_count' = count.value /\ segwit' = (first.value = 0)
       /\ i' = 0 /\ UNCHANGED <<input, t, tx_count, previous, commits>>
  BY Zenon DEF TxBegin
<1>11. Len(f) = 4 /\ data \in Seq(Byte) /\ Len(data) \in Nat
  <2>1. Len(f) = 4
    BY FillBytes
  <2>2. data \in Seq(Byte)
    BY <1>9, Zenon DEF Reads
  <2> QED
    BY <2>1, <2>2
<1> DEFINE r == CompactSize(v) \o q
<1>12. r \in Seq(Byte)
  <2> HIDE DEF v, q
  <2> QED
    BY <1>7, <1>8, ByteConcat, Zenon
<1>13. k = IF tx.witness = <<>> THEN <<>> ELSE <<0, 1>>
  BY Zenon DEF Marker
<1> HIDE DEF c, q, f, v, k, first
<1>14. first.next > Len(data) => count.next > Len(data)
  <2> SUFFICES ASSUME first.next > Len(data), first.value = 0
               PROVE  btc_parse_varint(6).next > Len(data)
    BY Zenon
  <2>1. Len(data) <= 4
    BY <1>11, VarintZero DEF first
  <2>2. btc_parse_varint(6).next > 6 /\ btc_parse_varint(6).next \in Nat
    BY <1>11, VarintCases
  <2> QED
    BY <1>11, <2>1, <2>2
<1>15. /\ first.next \in Nat
       /\ first.next > Len(data) => c > 0
       /\ first.next <= Len(data) => (first.value = 0) = (tx.witness # <<>>)
  <2>1. CASE tx.witness = <<>>
    <3>1. k \o r = r
      BY <1>12, <1>13, <2>1, ConcatEmptySeq
    <3>2. Reads(data, f \o (CompactSize(v) \o q), c)
      BY <1>9, <3>1, Zenon
    <3>3. Finds(btc_parse_varint(Len(f)), v, Len(f) + Len(CompactSize(v)), c)
      BY <1>1, <1>7, <1>8, <3>2, VarintFinds DEF c
    <3>4. Finds(first, v, Len(f) + Len(CompactSize(v)), c)
      BY <1>11, <3>3, Zenon DEF first
    <3> QED
      BY <1>8, <2>1, <3>4 DEF Finds
  <2>2. CASE tx.witness # <<>>
    <3> DEFINE o == <<1>> \o r
    <3>1. <<1>> \in Seq(Byte) /\ <<0>> \in Seq(Byte) /\ CompactSize(0) = <<0>>
      <4>1. 0 \in Byte /\ 1 \in Byte
        BY SMT DEF Byte
      <4>2. CompactSize(0) = <<0>>
        BY SMT DEF CompactSize
      <4> QED
        BY <4>1, <4>2
    <3>2. o \in Seq(Byte)
      <4> HIDE DEF r
      <4> QED
        BY <1>12, <3>1, ByteConcat, Zenon
    <3>3. k \o r = CompactSize(0) \o o
      <4> HIDE DEF r
      <4>1. <<0, 1>> = <<0>> \o <<1>>
        OBVIOUS
      <4> DEFINE z == <<0>>
      <4> DEFINE y == <<1>>
      <4> HIDE DEF z, y
      <4>2. z \in Seq(Byte) /\ y \in Seq(Byte)
        BY <3>1 DEF z, y
      <4>3. (z \o y) \o r = z \o (y \o r)
        BY <1>12, <4>2, ByteAssoc, Zenon
      <4> QED
        BY <1>13, <2>2, <3>1, <4>1, <4>3, Zenon DEF z, y
    <3>4. Reads(data, f \o (CompactSize(0) \o o), c)
      BY <1>9, <3>3, Zenon
    <3> HIDE DEF o
    <3>5. 0 \in Nat /\ 0 <= MaxLength
      BY SMT, MaxLengthIs
    <3>6. Finds(btc_parse_varint(Len(f)), 0, Len(f) + Len(CompactSize(0)), c)
      BY <1>1, <1>7, <3>2, <3>4, <3>5, VarintFinds DEF c
    <3>7. Finds(first, 0, Len(f) + Len(CompactSize(0)), c)
      BY <1>11, <3>6, Zenon DEF first
    <3> QED
      BY <2>2, <3>7 DEF Finds
  <2> QED
    BY <2>1, <2>2
<1>16. CASE first.next > Len(data)
  <2>1. c > 0 /\ ~(count.next <= Len(data))
    <3>0. btc_parse_varint(6).next \in Nat
      BY <1>11, VarintCases
    <3>1. count.next \in Nat
      BY <1>15, <3>0, Zenon
    <3> QED
      BY <1>11, <1>14, <1>15, <1>16, <3>1
  <2>2. pc' = "panic"
    BY <1>10, <2>1, Zenon DEF Goto
  <2> HIDE DEF more
  <2> QED
    BY <1>1, <1>7, <1>10, <2>1, <2>2, Panics DEF c
<1>17. CASE first.next <= Len(data)
  <2>1. ReadOrPanic(count, v, "in", q, c)
    <3>1. CASE tx.witness = <<>>
      <4>1. count = first
        BY <1>15, <1>17, <3>1, Zenon
      <4>2. k \o r = r
        BY <1>12, <1>13, <3>1, ConcatEmptySeq
      <4>3. Reads(data, f \o (CompactSize(v) \o q), c)
        BY <1>9, <4>2, Zenon
      <4>4. Goto(btc_parse_varint(Len(f)).next, "in")
        BY <1>10, <1>11, <4>1, Zenon DEF first
      <4>5. ReadOrPanic(btc_parse_varint(Len(f)), v, "in", q, c)
        BY <1>1, <1>7, <1>8, <4>3, <4>4, ReadNumber DEF c
      <4> QED
        BY <1>11, <4>1, <4>5, Zenon DEF first
    <3>2. CASE tx.witness # <<>>
      <4>1. count = btc_parse_varint(6)
        BY <1>15, <1>17, <3>2, Zenon
      <4>2. k \in Seq(Byte) /\ Len(k) = 2
        <5>1. 0 \in Byte /\ 1 \in Byte
          BY SMT DEF Byte
        <5>2. k = <<0, 1>>
          BY <1>13, <3>2, Zenon
        <5> QED
          BY <5>1, <5>2
      <4> DEFINE h == f \o k
      <4>3. h \in Seq(Byte) /\ Len(h) = Len(f) + Len(k)
        BY <1>7, <4>2, ByteConcat, ByteLen, Zenon
      <4>4. h \o r = f \o (k \o r)
        <5> HIDE DEF r
        <5> QED
          BY <1>7, <1>12, <4>2, ByteAssoc, Zenon
      <4>5. Reads(data, h \o (CompactSize(v) \o q), c)
        BY <1>9, <4>4, Zenon
      <4> HIDE DEF h
      <4>6. Len(h) = 6
        BY <1>11, <4>2, <4>3
      <4>7. Goto(btc_parse_varint(Len(h)).next, "in")
        BY <1>10, <4>1, <4>6, Zenon
      <4>8. ReadOrPanic(btc_parse_varint(Len(h)), v, "in", q, c)
        BY <1>1, <1>7, <1>8, <4>3, <4>5, <4>7, ReadNumber DEF c
      <4> QED
        BY <4>1, <4>6, <4>8, Zenon
    <3> QED
      BY <3>1, <3>2
  <2>2. CASE pc' = "in" /\ Reads(data', q, c) /\ count.value = v
    <3>1. /\ Reads(data', q, input'.cut) /\ commits' \in Seq(Seq(Byte))
          /\ commits' \o more = CommitsOf(input'.block)
      BY <1>1, <1>10, <2>2, LeftAfter DEF c
    <3>2. /\ input' = input /\ t' = t /\ i' = 0 /\ in_count' = v /\ tx_count' = tx_count
          /\ previous' = previous /\ segwit' = (tx.witness # <<>>)
      BY <1>10, <1>15, <1>17, <2>2, Zenon
    <3>3. InBlock'
      BY <1>3, <3>2, Zenon DEF InBlock
    <3>4. InTx(tx)'
      BY <1>0, <1>4, <3>2, <3>3, Zenon DEF InTx, v
    <3>5. i' \in 0 .. in_count'
      BY <1>8, <3>2
    <3>6. Left(After(InPieces(tx), i) \o AfterIns(input.block, t + 1),
               After(TxCommitPieces(input.block), t))'
      BY <3>1, <3>2, Zenon DEF Left, q
    <3>7. AtIn(tx)'
      BY <2>2, <3>4, <3>5, <3>6, Zenon DEF AtIn
    <3> QED
      BY <1>6, <3>7, Zenon
  <2>3. CASE pc' = "panic" /\ c > 0
    <3> HIDE DEF more
    <3> QED
      BY <1>1, <1>7, <1>10, <2>3, Panics DEF c
  <2> QED
    BY <2>1, <2>2, <2>3, Zenon DEF ReadOrPanic
<1> QED
  BY <1>11, <1>15, <1>16, <1>17

(* A place has its own loop invariant.                                     *)
LEMMA ByPlace ==
  ASSUME ParseInv
  PROVE  /\ pc = "header" => AtHeader
         /\ pc = "tx" => AtTx
         /\ pc = "in" => \E tx \in Range(input.block.txs) : AtIn(tx)
         /\ pc = "out" => \E tx \in Range(input.block.txs) : AtOut(tx)
         /\ pc = "witness" => \E tx \in Range(input.block.txs) : AtWitness(tx)
         /\ pc = "item" => \E tx \in Range(input.block.txs) : AtItem(tx)
         /\ pc = "locktime" => \E tx \in Range(input.block.txs) : AtLockTime(tx)
         /\ pc = "done" => AtDone
         /\ pc = "panic" => AtPanic
<1>1. /\ AtHeader => pc = "header"
      /\ AtTx => pc = "tx"
      /\ \A tx : AtIn(tx) => pc = "in"
      /\ \A tx : AtOut(tx) => pc = "out"
      /\ \A tx : AtWitness(tx) => pc = "witness"
      /\ \A tx : AtItem(tx) => pc = "item"
      /\ \A tx : AtLockTime(tx) => pc = "locktime"
      /\ AtDone => pc = "done"
      /\ AtPanic => pc = "panic"
  BY Zenon DEF AtHeader, AtTx, AtIn, AtOut, AtWitness, AtItem, AtLockTime, AtDone, AtPanic
<1> QED
  BY <1>1 DEF ParseInv

(* The parser starts with the whole block, or a part of it, before it.     *)
LEMMA InitParse == Init => ParseInv
<1> SUFFICES ASSUME Init PROVE ParseInv
  OBVIOUS
<1> DEFINE b == input.block
<1> DEFINE c == input.cut
<1> DEFINE raw == Serialize(b)
<1>1. /\ input \in [block : Blocks, cut : Cuts] /\ pc = "header" /\ t = 0 /\ commits = <<>>
      /\ c <= Len(raw) /\ data = SubSeq(raw, 1, Len(raw) - c)
  BY Zenon DEF Init
<1>2. input \in [block : Blocks, cut : Nat] /\ b \in Blocks /\ c \in Nat
  BY <1>1, BtcParseAssumption
<1>3. BlockParts(b)
  BY <1>2, BlockHasParts
<1>4. raw \in Seq(Byte) /\ CommitsOf(b) \in Seq(Seq(Byte))
  <2>1. HeaderBytes(b)
    BY <1>3, BlockBytes
  <2> QED
    BY <1>3, <2>1, Zenon DEF HeaderBytes, BlockParts
<1> HIDE DEF raw, c
<1>5. Reads(data, raw, c)
  <2> DEFINE n == Len(raw) - c
  <2>1. Len(raw) \in Nat /\ n \in Nat /\ 1 \in Int /\ n \in Int
        /\ \A k \in 1 .. n : raw[k] \in Byte
    BY <1>1, <1>2, <1>4
  <2> HIDE DEF n
  <2>2. /\ SubSeq(raw, 1, n) \in Seq(Byte)
        /\ Len(SubSeq(raw, 1, n)) = IF 1 <= n THEN n - 1 + 1 ELSE 0
        /\ \A k \in 1 .. n - 1 + 1 : SubSeq(raw, 1, n)[k] = raw[1 + k - 1]
    BY <2>1, SubSeqProperties
  <2> DEFINE d == SubSeq(raw, 1, n)
  <2> HIDE DEF d
  <2>3. d \in Seq(Byte) /\ Len(d) = n /\ \A k \in 1 .. n - 1 + 1 : d[k] = raw[1 + k - 1]
    BY <2>1, <2>2 DEF d
  <2>4. ASSUME NEW k \in 1 .. Len(d) PROVE d[k] = raw[k]
    <3>1. k \in 1 .. n - 1 + 1 /\ 1 + k - 1 = k
      BY <2>1, <2>3
    <3> QED
      BY <2>3, <3>1
  <2>5. Len(raw) = Len(d) + c
    BY <1>2, <2>1, <2>3 DEF n
  <2>6. data = d
    BY <1>1, Zenon DEF d, n
  <2> QED
    BY <1>4, <2>3, <2>4, <2>5, <2>6, Zenon DEF Reads
<1>6. commits \in Seq(Seq(Byte)) /\ commits \o CommitsOf(b) = CommitsOf(b)
  <2>1. <<>> \in Seq(Seq(Byte))
    BY EmptySeq
  <2>2. <<>> \o CommitsOf(b) = CommitsOf(b)
    BY <1>4, ConcatEmptySeq
  <2> QED
    BY <1>1, <2>1, <2>2, Zenon
<1>7. Left(Serialize(input.block), CommitsOf(input.block))
  BY <1>5, <1>6, Zenon DEF Left, raw, c
<1>8. AtHeader
  BY <1>1, <1>7, Zenon DEF AtHeader
<1> QED
  BY <1>2, <1>8, Zenon DEF ParseInv

(* Every step keeps the loop invariants.                                   *)
LEMMA NextParse == ParseInv /\ [Next]_vars => ParseInv'
<1> SUFFICES ASSUME ParseInv, [Next]_vars PROVE ParseInv'
  OBVIOUS
<1>1. input \in [block : Blocks, cut : Nat]
  BY Zenon DEF ParseInv
<1> DEFINE In(tx) == AtIn(tx) \/ AtOut(tx) \/ AtWitness(tx) \/ AtItem(tx) \/ AtLockTime(tx)
<1>2. SUFFICES ASSUME input' = input
               PROVE  \/ AtHeader' \/ AtTx' \/ AtDone' \/ AtPanic'
                      \/ \E tx \in Range(input.block.txs) : In(tx)'
  <2>1. input' = input
    BY Zenon DEF Next, vars, Header, TxBegin, Input, OutputCount, Output, OutputsDone,
                 WitnessCount, WitnessItem, WitnessDone, LockTime, Done, Stopped
  <2> QED
    BY <1>1, <2>1, Zenon DEF ParseInv
<1>3. CASE Header
  <2>1. AtHeader
    BY <1>3, ByPlace, Zenon DEF Header
  <2> QED
    BY <1>1, <1>3, <2>1, HeaderStep, Zenon
<1>4. CASE TxBegin
  <2>1. AtTx
    BY <1>4, ByPlace, Zenon DEF TxBegin
  <2> QED
    BY <1>1, <1>4, <2>1, TxBeginStep, Zenon
<1>5. CASE Input
  <2>1. PICK tx \in Range(input.block.txs) : AtIn(tx)
    BY <1>5, ByPlace, Zenon DEF Input
  <2> QED
    BY <1>1, <1>5, <2>1, InputStep, Zenon
<1>6. CASE OutputCount
  <2>1. PICK tx \in Range(input.block.txs) : AtIn(tx)
    BY <1>6, ByPlace, Zenon DEF OutputCount
  <2> QED
    BY <1>1, <1>6, <2>1, OutputCountStep, Zenon
<1>7. CASE Output
  <2>1. PICK tx \in Range(input.block.txs) : AtOut(tx)
    BY <1>7, ByPlace, Zenon DEF Output
  <2> QED
    BY <1>1, <1>7, <2>1, OutputStep, Zenon
<1>8. CASE OutputsDone
  <2>1. PICK tx \in Range(input.block.txs) : AtOut(tx)
    BY <1>8, ByPlace, Zenon DEF OutputsDone
  <2> QED
    BY <1>1, <1>8, <2>1, OutputsDoneStep, Zenon
<1>9. CASE WitnessCount
  <2>1. PICK tx \in Range(input.block.txs) : AtWitness(tx)
    BY <1>9, ByPlace, Zenon DEF WitnessCount
  <2> QED
    BY <1>1, <1>9, <2>1, WitnessCountStep, Zenon
<1>10. CASE WitnessItem
  <2>1. PICK tx \in Range(input.block.txs) : AtItem(tx)
    BY <1>10, ByPlace, Zenon DEF WitnessItem
  <2> QED
    BY <1>1, <1>10, <2>1, WitnessItemStep, Zenon
<1>11. CASE WitnessDone
  <2>1. PICK tx \in Range(input.block.txs) : AtItem(tx)
    BY <1>11, ByPlace, Zenon DEF WitnessDone
  <2> QED
    BY <1>1, <1>11, <2>1, WitnessDoneStep, Zenon
<1>12. CASE LockTime
  <2>1. PICK tx \in Range(input.block.txs) : AtLockTime(tx) \/ AtWitness(tx)
    BY <1>12, ByPlace, Zenon DEF LockTime
  <2> QED
    BY <1>1, <1>12, <2>1, LockTimeStep, Zenon
<1>13. CASE Done
  <2>1. AtTx
    BY <1>13, ByPlace, Zenon DEF Done
  <2> QED
    BY <1>1, <1>13, <2>1, DoneStep, Zenon
<1>14. CASE Stopped \/ UNCHANGED vars
  <2>1. UNCHANGED vars
    BY <1>14, Zenon DEF Stopped
  <2>2. /\ input' = input /\ data' = data /\ pc' = pc /\ t' = t /\ i' = i /\ w' = w
        /\ tx_count' = tx_count /\ in_count' = in_count /\ out_count' = out_count
        /\ witness_count' = witness_count /\ segwit' = segwit /\ previous' = previous
        /\ commits' = commits
    BY <2>1, Zenon DEF vars, counts
  <2>3. \/ AtHeader \/ AtTx \/ AtDone \/ AtPanic
        \/ \E tx \in Range(input.block.txs) : In(tx)
    BY Zenon DEF ParseInv
  <2> QED
    BY <2>2, <2>3, Zenon DEF AtHeader, AtTx, AtDone, AtPanic, AtIn, AtOut, AtWitness, AtItem,
       AtLockTime, InTx, InBlock, Left
<1> QED
  BY <1>3, <1>4, <1>5, <1>6, <1>7, <1>8, <1>9, <1>10, <1>11, <1>12, <1>13, <1>14, Zenon DEF Next

(* The parser has, at every place, read exactly what it has passed.        *)
THEOREM ParsesAsLaidOut == Spec => []ParseInv
  BY InitParse, NextParse, PTL DEF Spec

(* What is collected inside a transaction is the beginning of what is to   *)
(* be collected.                                                           *)
LEMMA TxPrefix ==
  ASSUME input \in [block : Blocks, cut : Nat], NEW tx,
         AtIn(tx) \/ AtOut(tx) \/ AtWitness(tx) \/ AtItem(tx) \/ AtLockTime(tx)
  PROVE  IsPrefix(commits, CommitsOf(input.block))
<1> DEFINE b == input.block
<1> DEFINE mt == After(TxCommitPieces(b), t)
<1> DEFINE mc == After(TxCommitPieces(b), t + 1)
<1> DEFINE mo == After(CommitPieces(tx), i) \o mc
<1>1. InTx(tx)
  BY Zenon DEF AtIn, AtOut, AtWitness, AtItem, AtLockTime
<1>2. Context(tx, b, t + 1) /\ (t + 1) - 1 = t
  BY <1>1, AtHand, Zenon
<1>3. TxParts(tx) /\ mt \in Seq(Seq(Byte)) /\ mc \in Seq(Seq(Byte))
  BY <1>2, Zenon DEF Context
<1>4. /\ AtIn(tx) => commits \in Seq(Seq(Byte)) /\ commits \o mt = CommitsOf(b)
      /\ AtOut(tx) => commits \in Seq(Seq(Byte)) /\ commits \o mo = CommitsOf(b)
      /\ AtWitness(tx) \/ AtItem(tx) \/ AtLockTime(tx) =>
           commits \in Seq(Seq(Byte)) /\ commits \o mc = CommitsOf(b)
  BY Zenon DEF AtIn, AtOut, AtWitness, AtItem, AtLockTime, Left
<1>5. CASE AtIn(tx)
  BY <1>3, <1>4, <1>5, PrefixOf, Zenon
<1>6. CASE AtOut(tx)
  <2>1. CommitPieces(tx) \in Seq(Seq(Seq(Byte))) /\ Len(CommitPieces(tx)) = Len(tx.outs)
    BY <1>3, CommitPiecesAre
  <2>2. i \in 0 .. Len(CommitPieces(tx))
    BY <1>6, <2>1, Zenon DEF AtOut
  <2>3. After(CommitPieces(tx), i) \in Seq(Seq(Byte))
    BY <2>1, <2>2, AfterStep
  <2>4. mo \in Seq(Seq(Byte))
    BY <1>3, <2>3, AnyAssoc, Zenon
  <2> QED
    BY <1>4, <1>6, <2>4, PrefixOf, Zenon
<1>7. CASE AtWitness(tx) \/ AtItem(tx) \/ AtLockTime(tx)
  BY <1>3, <1>4, <1>7, PrefixOf, Zenon
<1> QED
  BY <1>5, <1>6, <1>7

(* And outside of them.                                                    *)
LEMMA BlockPrefix ==
  ASSUME input \in [block : Blocks, cut : Nat], AtHeader \/ AtTx
  PROVE  IsPrefix(commits, CommitsOf(input.block))
<1> DEFINE b == input.block
<1> DEFINE mt == After(TxCommitPieces(b), t)
<1>1. BlockParts(b)
  BY BlockHasParts
<1>2. CASE AtHeader
  <2>1. /\ commits \in Seq(Seq(Byte)) /\ commits \o CommitsOf(b) = CommitsOf(b)
        /\ CommitsOf(b) \in Seq(Seq(Byte))
    BY <1>1, <1>2, Zenon DEF AtHeader, Left, BlockParts
  <2> QED
    BY <2>1, PrefixOf, Zenon
<1>3. CASE AtTx
  <2>1. /\ TxCommitPieces(b) \in Seq(Seq(Seq(Byte)))
        /\ t \in 0 .. Len(TxCommitPieces(b))
    BY <1>1, <1>3, Zenon DEF AtTx, InBlock, BlockParts
  <2>2. mt \in Seq(Seq(Byte))
    BY <2>1, AfterStep
  <2>3. commits \in Seq(Seq(Byte)) /\ commits \o mt = CommitsOf(b)
    BY <1>3, Zenon DEF AtTx, Left
  <2> QED
    BY <2>2, <2>3, PrefixOf, Zenon
<1> QED
  BY <1>2, <1>3

(* At the end nothing is left.                                             *)
LEMMA AtTheEnd ==
  ASSUME input \in [block : Blocks, cut : Nat], AtDone
  PROVE  /\ IsPrefix(commits, CommitsOf(input.block))
         /\ commits = CommitsOf(input.block)
         /\ previous = Reverse(input.block.previous)
         /\ input.cut = 0 /\ data = <<>>
<1>1. /\ previous = Reverse(input.block.previous) /\ Reads(data, <<>>, input.cut)
      /\ commits \in Seq(Seq(Byte)) /\ commits \o <<>> = CommitsOf(input.block)
  BY Zenon DEF AtDone, InBlock, Left
<1>2. commits \o <<>> = commits /\ <<>> \in Seq(Seq(Byte))
  BY <1>1, ConcatEmptySeq
<1>3. IsPrefix(commits, commits \o <<>>)
  BY <1>1, <1>2, PrefixOf
<1>4. data \in Seq(Byte) /\ 0 = Len(data) + input.cut /\ input.cut \in Nat
  BY <1>1, EmptySeq DEF Reads
<1>5. input.cut = 0 /\ Len(data) = 0
  BY <1>4
<1>6. data = <<>>
  BY <1>4, <1>5, EmptySeq
<1> QED
  BY <1>1, <1>2, <1>3, <1>5, <1>6, Zenon

(* What the loop invariants say.                                           *)
LEMMA InvCommits == ParseInv => CommitsInOrder /\ WholeBlocksOnly
<1> SUFFICES ASSUME ParseInv PROVE CommitsInOrder /\ WholeBlocksOnly
  OBVIOUS
<1>1. input \in [block : Blocks, cut : Nat]
  BY Zenon DEF ParseInv
<1>2. pc = "done" => AtDone
  BY ByPlace, Zenon
<1>3. pc = "panic" => input.cut > 0
  BY ByPlace, Zenon DEF AtPanic
<1>4. IsPrefix(commits, CommitsOf(input.block))
  <2>1. CASE AtHeader \/ AtTx
    BY <1>1, <2>1, BlockPrefix
  <2>2. CASE \E tx \in Range(input.block.txs) :
               AtIn(tx) \/ AtOut(tx) \/ AtWitness(tx) \/ AtItem(tx) \/ AtLockTime(tx)
    BY <1>1, <2>2, TxPrefix
  <2>3. CASE AtDone
    BY <1>1, <2>3, AtTheEnd
  <2>4. CASE AtPanic
    BY <2>4 DEF AtPanic
  <2> QED
    BY <2>1, <2>2, <2>3, <2>4, Zenon DEF ParseInv
<1>5. AtDone => /\ commits = CommitsOf(input.block)
                /\ previous = Reverse(input.block.previous)
                /\ input.cut = 0 /\ data = <<>>
  BY <1>1, AtTheEnd
<1> QED
  BY <1>2, <1>3, <1>4, <1>5, Zenon DEF CommitsInOrder, WholeBlocksOnly

(* btc_parse_block collects the programs of a block's P2WSH outputs, in    *)
(* block order, none left out and none made up, and the previous hash in   *)
(* big-endian order, for every block and every length of its prefix.       *)
THEOREM BlocksAreParsed == Spec => []CommitsInOrder
  BY ParsesAsLaidOut, InvCommits, PTL

(* btc_parse_block reads a whole block to its last byte without a panic    *)
(* and never takes a block with bytes missing for a block.                 *)
THEOREM OnlyWholeBlocksParse == Spec => []WholeBlocksOnly
  BY ParsesAsLaidOut, InvCommits, PTL

-------------------------------------------------------------------------------
(* Hex.                                                                    *)

(* text is made of the characters the user types, and heights are asked    *)
(* for that a block may have.                                              *)
Typed == text \in Seq(0 .. 127) /\ asked \subseteq HeightsStored

(* It stays that.                                                          *)
LEMMA AlwaysTyped == HexSpec => []Typed
<1>1. HexInit => Typed
  BY DEF HexInit, Typed
<1>2. Typed /\ [HexNext]_hexVars => Typed'
  <2> SUFFICES ASSUME Typed, [HexNext]_hexVars PROVE Typed'
    OBVIOUS
  <2>1. CASE Type
    <3>1. PICK c \in Character : text' = Append(text, c)
      BY <2>1 DEF Type
    <3>2. c \in 0 .. 127
      BY HexAssumption
    <3> QED
      BY <2>1, <3>1, <3>2 DEF Type, Typed
  <2>2. CASE Ask
    BY <2>2 DEF Ask, Typed
  <2>3. CASE UNCHANGED hexVars
    BY <2>3 DEF hexVars, Typed
  <2> QED
    BY <2>1, <2>2, <2>3 DEF HexNext
<1> QED
  BY <1>1, <1>2, PTL DEF HexSpec

(* A wallet line read with the carriage return another system ended it     *)
(* with gives the same bytes as without it (hex2byte).                     *)
THEOREM LineEndIsDropped == HexSpec => []OddCharacterDropped
<1>1. Typed => OddCharacterDropped
  <2> SUFFICES ASSUME Typed, Len(text) % 2 = 1 PROVE hex2byte(text) = hex2byte(Front(text))
    BY DEF OddCharacterDropped
  <2>1. text \in Seq(0 .. 127) /\ Len(text) \in Nat /\ Len(text) >= 1
    BY DEF Typed
  <2> DEFINE n == Len(text)
  <2> DEFINE s == Front(text)
  <2>2. s = [j \in 1 .. n - 1 |-> text[j]]
    BY <2>1 DEF Front
  <2>3. n \in Nat /\ n % 2 = 1 /\ Len(s) = n - 1
    BY <2>1, <2>2
  <2>4. \A j \in 1 .. n - 1 : s[j] = text[j]
    BY <2>2
  <2> HIDE DEF n, s
  <2>5. n \div 2 = (n - 1) \div 2
    BY <2>3
  <2>6. ASSUME NEW k \in 1 .. n \div 2
        PROVE  2 * k - 1 \in 1 .. n - 1 /\ 2 * k \in 1 .. n - 1
    BY <2>3, <2>6
  <2>7. ASSUME NEW k \in 1 .. n \div 2
        PROVE  s[2 * k - 1] = text[2 * k - 1] /\ s[2 * k] = text[2 * k]
    BY <2>4, <2>6
  <2> QED
    BY <2>3, <2>5, <2>7 DEF hex2byte, n, s
<1> QED
  BY <1>1, AlwaysTyped, PTL

(* The nibbles of a byte put together by |.                                *)
LEMMA OrOfNibbles ==
  ASSUME NEW x \in 0 .. 15, NEW y \in 0 .. 15
  PROVE  Or((x * 16) % 256, y) = 16 * x + y
  BY SMTT(60) DEF Or

(* x2b undoes HexDigit.                                                    *)
LEMMA DigitOfNibble ==
  ASSUME NEW c \in Digit \cup Upper
  PROVE  x2b(c) \in 0 .. 15 /\ HexDigit(x2b(c)) = c
<1>1. CASE c \in Digit
  BY <1>1 DEF Digit, x2b, HexDigit
<1>2. CASE c \in Upper
  BY <1>2 DEF Upper, x2b, HexDigit
<1> QED
  BY <1>1, <1>2

(* The hex of the bytes read from hex digits is those digits.              *)
LEMMA HexOfBytes ==
  ASSUME NEW n \in Nat, NEW s \in Seq(Digit \cup Upper), Len(s) = 2 * n
  PROVE  /\ hex2byte(s) \in Seq(Nat) /\ Len(hex2byte(s)) = n
         /\ stringify_hex(hex2byte(s)) = s
<1> DEFINE b == hex2byte(s)
<1>1. Len(s) \in Nat /\ Len(s) \div 2 = n /\ \A j \in 1 .. 2 * n : s[j] \in Digit \cup Upper
  OBVIOUS
<1>2. b = [k \in 1 .. n |-> Or((x2b(s[2 * k - 1]) * 16) % 256, x2b(s[2 * k]))]
  BY <1>1 DEF hex2byte
<1> HIDE DEF b
<1>3. ASSUME NEW k \in 1 .. n
      PROVE  /\ x2b(s[2 * k - 1]) \in 0 .. 15 /\ x2b(s[2 * k]) \in 0 .. 15
             /\ HexDigit(x2b(s[2 * k - 1])) = s[2 * k - 1]
             /\ HexDigit(x2b(s[2 * k])) = s[2 * k]
             /\ b[k] = 16 * x2b(s[2 * k - 1]) + x2b(s[2 * k])
  <2>1. 2 * k - 1 \in 1 .. 2 * n /\ 2 * k \in 1 .. 2 * n
    BY <1>3
  <2>2. s[2 * k - 1] \in Digit \cup Upper /\ s[2 * k] \in Digit \cup Upper
    BY <1>1, <2>1
  <2> DEFINE c == s[2 * k - 1]
  <2> DEFINE d == s[2 * k]
  <2>3. b[k] = Or((x2b(c) * 16) % 256, x2b(d))
    BY <1>2
  <2> HIDE DEF c, d
  <2>4. c \in Digit \cup Upper /\ d \in Digit \cup Upper
    BY <2>2 DEF c, d
  <2>5. /\ x2b(c) \in 0 .. 15 /\ HexDigit(x2b(c)) = c
        /\ x2b(d) \in 0 .. 15 /\ HexDigit(x2b(d)) = d
    BY <2>4, DigitOfNibble
  <2>6. b[k] = 16 * x2b(c) + x2b(d)
    BY <2>3, <2>5, OrOfNibbles
  <2> QED
    BY <2>5, <2>6 DEF c, d
<1>4. \A k \in 1 .. n : b[k] \in Nat
  <2> SUFFICES ASSUME NEW k \in 1 .. n PROVE b[k] \in Nat
    OBVIOUS
  <2> DEFINE x == x2b(s[2 * k - 1])
  <2> DEFINE y == x2b(s[2 * k])
  <2>1. x \in 0 .. 15 /\ y \in 0 .. 15 /\ b[k] = 16 * x + y
    BY <1>3
  <2> HIDE DEF x, y
  <2> QED
    BY <2>1
<1>5. b \in Seq(Nat) /\ Len(b) = n
  <2>1. b = [k \in 1 .. n |-> b[k]]
    BY <1>2
  <2>2. [k \in 1 .. n |-> b[k]] \in Seq(Nat) /\ Len([k \in 1 .. n |-> b[k]]) = n
    BY <1>4
  <2> QED
    BY <2>1, <2>2
<1> DEFINE u == stringify_hex(b)
<1>6. u = [j \in 1 .. 2 * n |->
             HexDigit(IF j % 2 = 1 THEN b[(j + 1) \div 2] \div 16 ELSE b[j \div 2] % 16)]
  BY <1>5 DEF stringify_hex
<1> HIDE DEF u
<1>7. ASSUME NEW j \in 1 .. 2 * n PROVE u[j] = s[j]
  <2>1. CASE j % 2 = 1
    <3> DEFINE k == (j + 1) \div 2
    <3>1. k \in 1 .. n /\ 2 * k - 1 = j
      BY <1>7, <2>1
    <3>2. u[j] = HexDigit(b[k] \div 16)
      BY <1>6, <2>1
    <3> HIDE DEF k
    <3> DEFINE x == x2b(s[2 * k - 1])
    <3> DEFINE y == x2b(s[2 * k])
    <3>3. x \in 0 .. 15 /\ y \in 0 .. 15 /\ b[k] = 16 * x + y /\ HexDigit(x) = s[2 * k - 1]
      BY <1>3, <3>1
    <3> HIDE DEF x, y
    <3>4. b[k] \div 16 = x
      BY <3>3
    <3> QED
      BY <3>1, <3>2, <3>3, <3>4
  <2>2. CASE j % 2 # 1
    <3> DEFINE k == j \div 2
    <3>1. k \in 1 .. n /\ 2 * k = j
      BY <1>7, <2>2
    <3>2. u[j] = HexDigit(b[k] % 16)
      BY <1>6, <2>2
    <3> HIDE DEF k
    <3> DEFINE x == x2b(s[2 * k - 1])
    <3> DEFINE y == x2b(s[2 * k])
    <3>3. x \in 0 .. 15 /\ y \in 0 .. 15 /\ b[k] = 16 * x + y /\ HexDigit(y) = s[2 * k]
      BY <1>3, <3>1
    <3> HIDE DEF x, y
    <3>4. b[k] % 16 = y
      BY <3>3
    <3> QED
      BY <3>1, <3>2, <3>3, <3>4
  <2> QED
    BY <2>1, <2>2
<1>8. s = [j \in 1 .. 2 * n |-> s[j]]
  OBVIOUS
<1>9. u = [j \in 1 .. 2 * n |-> u[j]]
  BY <1>6
<1>10. u = s
  BY <1>7, <1>8, <1>9
<1> QED
  BY <1>5, <1>10 DEF b, u

(* What the upper case of a character can be.                              *)
LEMMA UpperCase ==
  ASSUME NEW s \in Seq(0 .. 127)
  PROVE  /\ ToUpper(s) \in Seq(0 .. 127) /\ Len(ToUpper(s)) = Len(s)
         /\ \A j \in 1 .. Len(s) :
              (ToUpper(s)[j] \in Digit \cup Upper) = (s[j] \in Digit \cup Upper \cup Lower)
<1> DEFINE n == Len(s)
<1> DEFINE u == ToUpper(s)
<1>1. n \in Nat /\ \A j \in 1 .. n : s[j] \in 0 .. 127
  BY LenProperties, ElementOfSeq
<1>2. u = [j \in 1 .. n |-> IF s[j] \in 97 .. 122 THEN s[j] - 32 ELSE s[j]]
  BY DEF ToUpper
<1> HIDE DEF n, u
<1>3. \A j \in 1 .. n : u[j] = IF s[j] \in 97 .. 122 THEN s[j] - 32 ELSE s[j]
  BY <1>2
<1>4. ASSUME NEW j \in 1 .. n
      PROVE  /\ u[j] \in 0 .. 127
             /\ (u[j] \in Digit \cup Upper) = (s[j] \in Digit \cup Upper \cup Lower)
  <2>1. s[j] \in 0 .. 127 /\ u[j] = IF s[j] \in 97 .. 122 THEN s[j] - 32 ELSE s[j]
    BY <1>1, <1>3
  <2> DEFINE c == s[j]
  <2> DEFINE d == u[j]
  <2>2. c \in 0 .. 127 /\ d = IF c \in 97 .. 122 THEN c - 32 ELSE c
    BY <2>1
  <2> HIDE DEF c, d
  <2>3. d \in 0 .. 127
    BY <2>2
  <2>4. (d \in Digit \cup Upper) = (c \in Digit \cup Upper \cup Lower)
    BY <2>2 DEF Digit, Upper, Lower
  <2> QED
    BY <2>3, <2>4 DEF c, d
<1>5. u \in Seq(0 .. 127) /\ Len(u) = n
  <2>1. u = [j \in 1 .. n |-> u[j]]
    BY <1>2
  <2>2. [j \in 1 .. n |-> u[j]] \in Seq(0 .. 127) /\ Len([j \in 1 .. n |-> u[j]]) = n
    BY <1>1, <1>4
  <2> QED
    BY <2>1, <2>2
<1> QED
  BY <1>4, <1>5 DEF n, u

(* parse_hex accepts exactly the hex of one word, in either case, and what *)
(* it returns prints as what was typed, in upper case (parse_hex,          *)
(* checkHEX, hex2byte32, stringify_hex).                                   *)
THEOREM HexIsExact == HexSpec => []ParsesExactly
<1>1. Typed => ParsesExactly
  <2> SUFFICES ASSUME Typed PROVE ParsesExactly
    OBVIOUS
  <2> DEFINE u == ToUpper(text)
  <2> DEFINE n == 2 * Size
  <2>1. text \in Seq(0 .. 127) /\ Size \in Nat /\ Size # 0 /\ n \in Nat /\ n # 0
    BY HexAssumption DEF Typed
  <2>2. /\ u \in Seq(0 .. 127) /\ Len(u) = Len(text) /\ DOMAIN u = 1 .. Len(text)
        /\ \A j \in 1 .. Len(text) :
             (u[j] \in Digit \cup Upper) = (text[j] \in Digit \cup Upper \cup Lower)
    BY <2>1, UpperCase
  <2> HIDE DEF u
  <2>3. CASE Len(text) = n /\ Range(text) \subseteq Digit \cup Upper \cup Lower
    <3>1. \A j \in 1 .. n : text[j] \in Digit \cup Upper \cup Lower
      BY <2>1, <2>3 DEF Range
    <3>2. \A j \in 1 .. n : u[j] \in Digit \cup Upper
      BY <2>2, <2>3, <3>1
    <3>3. checkHEX(u, Size)
      BY <2>2, <2>3, <3>2 DEF checkHEX
    <3>4. parse_hex(text) = hex2byte(SubSeq(u, 1, n))
      BY <2>3, <3>3 DEF parse_hex, hex2byte32, u
    <3>5. u = [j \in 1 .. n |-> u[j]]
      BY <2>2, <2>3
    <3>6. u \in Seq(Digit \cup Upper)
      <4>1. [j \in 1 .. n |-> u[j]] \in Seq(Digit \cup Upper)
        BY <2>1, <3>2
      <4> QED
        BY <3>5, <4>1
    <3>7. SubSeq(u, 1, n) = u
      BY <2>1, <2>2, <2>3, <3>6
    <3>8. Len(u) = n
      BY <2>2, <2>3
    <3> HIDE DEF n
    <3>9. /\ Len(hex2byte(u)) = Size /\ stringify_hex(hex2byte(u)) = u
      BY <2>1, <3>6, <3>8, HexOfBytes DEF n
    <3> QED
      BY <2>3, <3>4, <3>7, <3>9 DEF ParsesExactly, u, n
  <2>4. CASE ~(Len(text) = n /\ Range(text) \subseteq Digit \cup Upper \cup Lower)
    <3>1. parse_hex(text) = Error
      <4>1. CASE Len(text) # n
        BY <4>1 DEF parse_hex
      <4>2. CASE Len(text) = n
        <5>1. PICK j \in 1 .. n : text[j] \notin Digit \cup Upper \cup Lower
          BY <2>1, <2>4, <4>2 DEF Range
        <5>2. u[j] \notin Digit \cup Upper
          BY <2>2, <4>2, <5>1
        <5>3. j \in DOMAIN u
          BY <2>2, <4>2
        <5>4. ~checkHEX(u, Size)
          BY <5>2, <5>3 DEF checkHEX
        <5> QED
          BY <4>2, <5>4 DEF parse_hex, u
      <4> QED
        BY <4>1, <4>2
    <3> QED
      BY <2>4, <3>1 DEF ParsesExactly
  <2> QED
    BY <2>3, <2>4
<1> QED
  BY <1>1, AlwaysTyped, PTL

-------------------------------------------------------------------------------
(* Integers and their bytes.                                               *)

(* f is the function Power is, that Shifted(n) is and that Uint(b) ends    *)
(* with, for up to m bytes.                                                *)
IsPower(f, m) == f = [k \in 0 .. m |-> IF k = 0 THEN 1 ELSE 256 * f[k - 1]]

IsShifted(f, n, m) == f = [k \in 0 .. m |-> IF k = 0 THEN n ELSE f[k - 1] \div 256]

IsAdded(f, b, m) ==
  f = [k \in 0 .. m |-> IF k = 0 THEN 0 ELSE 256 * f[k - 1] + b[k]]

(* There are such functions.                                               *)
LEMMA PowerExists ==
  ASSUME NEW m \in Nat PROVE \E f : IsPower(f, m)
<1> DEFINE T == {n \in Nat : \E f : IsPower(f, n)}
<1>1. 0 \in T
  <2> DEFINE e == [k \in 0 .. 0 |-> 1]
  <2>1. e = [k \in 0 .. 0 |-> IF k = 0 THEN 1 ELSE 256 * e[k - 1]]
    OBVIOUS
  <2> HIDE DEF e
  <2>2. IsPower(e, 0)
    BY <2>1 DEF IsPower
  <2> QED
    BY <2>2
<1>2. ASSUME NEW n \in T PROVE n + 1 \in T
  <2>1. PICK f : IsPower(f, n)
    OBVIOUS
  <2> DEFINE g == [k \in 0 .. n + 1 |-> IF k = 0 THEN 1 ELSE 256 * f[k - 1]]
  <2>2. n \in Nat
    OBVIOUS
  <2>3. \A k \in 0 .. n : f[k] = IF k = 0 THEN 1 ELSE 256 * f[k - 1]
    BY <2>1 DEF IsPower
  <2>4. \A k \in 0 .. n : g[k] = f[k]
    BY <2>2, <2>3
  <2>5. ASSUME NEW k \in 0 .. n + 1, k # 0 PROVE g[k - 1] = f[k - 1]
    <3> HIDE DEF g
    <3>1. k - 1 \in 0 .. n
      BY <2>2, <2>5
    <3> QED
      BY <2>4, <3>1
  <2>6. g = [k \in 0 .. n + 1 |-> IF k = 0 THEN 1 ELSE 256 * g[k - 1]]
    BY <2>5
  <2> HIDE DEF g
  <2>7. IsPower(g, n + 1)
    BY <2>6 DEF IsPower
  <2> QED
    BY <2>2, <2>7
<1> HIDE DEF T
<1>3. T \in SUBSET Nat
  BY DEF T
<1>4. T = Nat
  BY <1>1, <1>2, <1>3, InductionOverSet
<1> QED
  BY <1>4 DEF T

(* The second of them, likewise.                                           *)
LEMMA ShiftedExists ==
  ASSUME NEW n, NEW m \in Nat PROVE \E f : IsShifted(f, n, m)
<1> DEFINE T == {l \in Nat : \E f : IsShifted(f, n, l)}
<1>1. 0 \in T
  <2> DEFINE e == [k \in 0 .. 0 |-> n]
  <2>1. e = [k \in 0 .. 0 |-> IF k = 0 THEN n ELSE e[k - 1] \div 256]
    OBVIOUS
  <2> HIDE DEF e
  <2>2. IsShifted(e, n, 0)
    BY <2>1 DEF IsShifted
  <2> QED
    BY <2>2
<1>2. ASSUME NEW l \in T PROVE l + 1 \in T
  <2>1. PICK f : IsShifted(f, n, l)
    OBVIOUS
  <2> DEFINE g == [k \in 0 .. l + 1 |-> IF k = 0 THEN n ELSE f[k - 1] \div 256]
  <2>2. l \in Nat
    OBVIOUS
  <2>3. \A k \in 0 .. l : f[k] = IF k = 0 THEN n ELSE f[k - 1] \div 256
    BY <2>1 DEF IsShifted
  <2>4. \A k \in 0 .. l : g[k] = f[k]
    BY <2>2, <2>3
  <2>5. ASSUME NEW k \in 0 .. l + 1, k # 0 PROVE g[k - 1] = f[k - 1]
    <3> HIDE DEF g
    <3>1. k - 1 \in 0 .. l
      BY <2>2, <2>5
    <3> QED
      BY <2>4, <3>1
  <2>6. g = [k \in 0 .. l + 1 |-> IF k = 0 THEN n ELSE g[k - 1] \div 256]
    BY <2>5
  <2> HIDE DEF g
  <2>7. IsShifted(g, n, l + 1)
    BY <2>6 DEF IsShifted
  <2> QED
    BY <2>2, <2>7
<1> HIDE DEF T
<1>3. T \in SUBSET Nat
  BY DEF T
<1>4. T = Nat
  BY <1>1, <1>2, <1>3, InductionOverSet
<1> QED
  BY <1>4 DEF T

(* And the third.                                                          *)
LEMMA AddedExists ==
  ASSUME NEW b, NEW m \in Nat PROVE \E f : IsAdded(f, b, m)
<1> DEFINE step(x, k) == 256 * x + b[k]
<1> DEFINE T == {l \in Nat : \E f : IsAdded(f, b, l)}
<1>1. 0 \in T
  <2> DEFINE e == [k \in 0 .. 0 |-> 0]
  <2>1. e = [k \in 0 .. 0 |-> IF k = 0 THEN 0 ELSE 256 * e[k - 1] + b[k]]
    OBVIOUS
  <2> HIDE DEF e
  <2>2. IsAdded(e, b, 0)
    BY <2>1 DEF IsAdded
  <2> QED
    BY <2>2
<1>2. ASSUME NEW l \in T PROVE l + 1 \in T
  <2>1. PICK f : IsAdded(f, b, l)
    OBVIOUS
  <2> DEFINE g == [k \in 0 .. l + 1 |-> IF k = 0 THEN 0 ELSE step(f[k - 1], k)]
  <2>2. l \in Nat
    OBVIOUS
  <2>3. \A k \in 0 .. l : f[k] = IF k = 0 THEN 0 ELSE step(f[k - 1], k)
    BY <2>1 DEF IsAdded
  <2> HIDE DEF step
  <2>4. \A k \in 0 .. l : g[k] = f[k]
    BY <2>2, <2>3
  <2>5. ASSUME NEW k \in 0 .. l + 1, k # 0 PROVE g[k - 1] = f[k - 1]
    <3> HIDE DEF g
    <3>1. k - 1 \in 0 .. l
      BY <2>2, <2>5
    <3> QED
      BY <2>4, <3>1
  <2>6. g = [k \in 0 .. l + 1 |-> IF k = 0 THEN 0 ELSE step(g[k - 1], k)]
    BY <2>5
  <2> HIDE DEF g
  <2>7. IsAdded(g, b, l + 1)
    BY <2>6, Zenon DEF IsAdded, step
  <2> QED
    BY <2>2, <2>7
<1> HIDE DEF T
<1>3. T \in SUBSET Nat
  BY DEF T
<1>4. T = Nat
  BY <1>1, <1>2, <1>3, InductionOverSet
<1> QED
  BY <1>4 DEF T

(* The functions of the model are those.                                   *)
LEMMA TheFunctions ==
  ASSUME NEW n, NEW b
  PROVE  /\ IsPower(Power, Width)
         /\ IsShifted(Shifted(n), n, Width)
         /\ \E f : IsAdded(f, b, Width) /\ Uint(b) = f[Width]
<1>0. Width \in Nat
  BY HexAssumption
<1>1. IsPower(Power, Width)
  <2>1. Power = CHOOSE f : IsPower(f, Width)
    BY DEF Power, IsPower
  <2> QED
    BY <1>0, <2>1, PowerExists, Zenon
<1>2. IsShifted(Shifted(n), n, Width)
  <2>1. Shifted(n) = CHOOSE f : IsShifted(f, n, Width)
    BY DEF Shifted, IsShifted
  <2> QED
    BY <1>0, <2>1, ShiftedExists, Zenon
<1>3. \E f : IsAdded(f, b, Width) /\ Uint(b) = f[Width]
  <2> DEFINE F == CHOOSE f : IsAdded(f, b, Width)
  <2>1. IsAdded(F, b, Width)
    BY <1>0, AddedExists, Zenon
  <2>2. Uint(b) = F[Width]
    BY DEF Uint, IsAdded
  <2> QED
    BY <2>1, <2>2
<1> QED
  BY <1>1, <1>2, <1>3

(* A set of natural numbers that is not empty has a least element.         *)
LEMMA LeastExists ==
  ASSUME NEW S \in SUBSET Nat, S # {}
  PROVE  \E x \in S : \A y \in S : x <= y
<1>1. PICK x \in S : \A y \in S : ~(<<y, x>> \in OpToRel(<, Nat))
  BY NatLessThanWellFounded, WFMin, Zenon
<1>2. ASSUME NEW y \in S PROVE x <= y
  <2>1. x \in Nat /\ y \in Nat
    OBVIOUS
  <2>2. ~(y < x)
    BY <1>1, <2>1 DEF OpToRel
  <2> QED
    BY <2>1, <2>2
<1> QED
  BY <1>2

(* The powers are what they should be.                                     *)
LEMMA Powers ==
  /\ Power[0] = 1
  /\ \A k \in 0 .. Width : Power[k] \in Nat /\ Power[k] > 0
  /\ \A k \in 1 .. Width : Power[k] = 256 * Power[k - 1]
<1>0. Width \in Nat
  BY HexAssumption
<1>1. Power = [k \in 0 .. Width |-> IF k = 0 THEN 1 ELSE 256 * Power[k - 1]]
  <2>1. IsPower(Power, Width)
    BY TheFunctions, Zenon
  <2> QED
    BY <2>1, Zenon DEF IsPower
<1>2. \A k \in 0 .. Width : Power[k] = IF k = 0 THEN 1 ELSE 256 * Power[k - 1]
  BY <1>1, Zenon
<1>3. Power[0] = 1 /\ \A k \in 1 .. Width : Power[k] = 256 * Power[k - 1]
  BY <1>0, <1>2
<1> DEFINE T == {k \in Nat : k <= Width => Power[k] \in Nat /\ Power[k] > 0}
<1>4. 0 \in T
  BY <1>3
<1>5. ASSUME NEW k \in T PROVE k + 1 \in T
  <2> SUFFICES ASSUME k + 1 <= Width PROVE Power[k + 1] \in Nat /\ Power[k + 1] > 0
    OBVIOUS
  <2>1. k + 1 \in 1 .. Width /\ (k + 1) - 1 = k /\ Power[k] \in Nat /\ Power[k] > 0
    BY <1>0
  <2>2. Power[k + 1] = 256 * Power[k]
    BY <1>3, <2>1
  <2> QED
    BY <2>1, <2>2
<1>6. T = Nat
  <2>1. T \in SUBSET Nat
    OBVIOUS
  <2> HIDE DEF T
  <2> QED
    BY <1>4, <1>5, <2>1, InductionOverSet
<1> QED
  BY <1>0, <1>3, <1>6

(* q has n without its last k bytes, for each k: the byte taken off is the *)
(* remainder, and after its last byte nothing is left.                     *)
IsRests(q, n, wide) ==
  /\ \A k \in 0 .. wide : q[k] \in Nat /\ q[k] <= n
  /\ q[0] = n /\ q[wide] = 0
  /\ \A k \in 1 .. wide : q[k] = q[k - 1] \div 256

(* Shifted gives that for an integer of so many bytes.                     *)
LEMMA ShiftedRests ==
  ASSUME NEW wide \in 0 .. Width, NEW n \in Nat, n < Power[wide]
  PROVE  IsRests(Shifted(n), n, wide)
<1> DEFINE q == Shifted(n)
<1>0. Width \in Nat /\ wide \in Nat /\ wide <= Width
  BY HexAssumption
<1>1. q = [k \in 0 .. Width |-> IF k = 0 THEN n ELSE q[k - 1] \div 256]
  <2>1. IsShifted(q, n, Width)
    BY TheFunctions, Zenon
  <2> QED
    BY <2>1, Zenon DEF IsShifted
<1> HIDE DEF q
<1>2. \A k \in 0 .. Width : q[k] = IF k = 0 THEN n ELSE q[k - 1] \div 256
  BY <1>1, Zenon
<1>3. q[0] = n /\ \A k \in 1 .. wide : q[k] = q[k - 1] \div 256
  BY <1>0, <1>2
<1> DEFINE T == {k \in Nat : k <= wide => q[k] \in Nat /\ q[k] <= n /\ q[k] < Power[wide - k]}
<1>4. 0 \in T
  <2>1. wide - 0 = wide
    BY <1>0
  <2> QED
    BY <1>3, <2>1
<1>5. ASSUME NEW k \in T PROVE k + 1 \in T
  <2> SUFFICES ASSUME k + 1 <= wide
               PROVE  /\ q[k + 1] \in Nat /\ q[k + 1] <= n
                      /\ q[k + 1] < Power[wide - (k + 1)]
    OBVIOUS
  <2>1. /\ k + 1 \in 1 .. wide /\ (k + 1) - 1 = k
        /\ q[k] \in Nat /\ q[k] <= n /\ q[k] < Power[wide - k]
    BY <1>0
  <2>2. q[k + 1] = q[k] \div 256
    BY <1>3, <2>1
  <2> DEFINE l == wide - k
  <2>3. l \in 1 .. Width /\ l - 1 = wide - (k + 1) /\ l - 1 \in 0 .. Width
    BY <1>0, <2>1
  <2> DEFINE x == Power[l - 1]
  <2> DEFINE y == q[k]
  <2>4. x \in Nat /\ Power[l] = 256 * x
    BY <2>3, Powers
  <2>5. y \in Nat /\ y < 256 * x /\ y <= n /\ q[k + 1] = y \div 256
    BY <2>1, <2>2, <2>4
  <2> HIDE DEF x, y
  <2>6. y \div 256 \in Nat /\ y \div 256 <= n /\ y \div 256 < x
    BY <2>4, <2>5
  <2> QED
    BY <2>3, <2>5, <2>6 DEF x
<1>6. T = Nat
  <2>1. T \in SUBSET Nat
    OBVIOUS
  <2> HIDE DEF T
  <2> QED
    BY <1>4, <1>5, <2>1, InductionOverSet
<1>7. \A k \in 0 .. wide : q[k] \in Nat /\ q[k] <= n /\ q[k] < Power[wide - k]
  <2>1. \A k \in 0 .. wide : k \in Nat /\ k <= wide
    BY <1>0
  <2> QED
    BY <1>6, <2>1
<1>8. q[wide] = 0
  <2>1. wide \in 0 .. wide /\ wide - wide = 0
    BY <1>0
  <2>2. q[wide] \in Nat /\ q[wide] < Power[0] /\ Power[0] = 1
    BY <1>7, <2>1, Powers
  <2> QED
    BY <2>2
<1> QED
  BY <1>3, <1>7, <1>8 DEF IsRests, q

(* The bytes of an integer.                                                *)
LEMMA BytesOf ==
  ASSUME NEW wide \in 0 .. Width, NEW n \in Nat, n < Power[wide]
  PROVE  /\ PutUint(n, wide) \in Seq(0 .. 255) /\ Len(PutUint(n, wide)) = wide
         /\ \A at \in 1 .. wide : PutUint(n, wide)[at] = Shifted(n)[wide - at] % 256
<1> DEFINE q == Shifted(n)
<1>0. wide \in Nat
  BY HexAssumption
<1>1. \A k \in 0 .. wide : q[k] \in Nat
  BY ShiftedRests DEF IsRests
<1> HIDE DEF q
<1>2. \A at \in 1 .. wide : q[wide - at] % 256 \in 0 .. 255
  <2> SUFFICES ASSUME NEW at \in 1 .. wide PROVE q[wide - at] % 256 \in 0 .. 255
    OBVIOUS
  <2>1. wide - at \in 0 .. wide
    BY <1>0
  <2> DEFINE x == q[wide - at]
  <2>2. x \in Nat
    BY <1>1, <2>1
  <2> HIDE DEF x
  <2>3. x % 256 \in 0 .. 255
    BY <2>2
  <2> QED
    BY <2>3 DEF x
<1> DEFINE p == [at \in 1 .. wide |-> q[wide - at] % 256]
<1>3. DOMAIN p = 1 .. wide /\ \A at \in 1 .. wide : p[at] \in 0 .. 255
  BY <1>2
<1>4. PutUint(n, wide) = p /\ \A at \in 1 .. wide : p[at] = q[wide - at] % 256
  BY DEF PutUint, q
<1>5. p \in [1 .. wide -> 0 .. 255]
  BY <1>3
<1> HIDE DEF p
<1>6. p \in Seq(0 .. 255) /\ Len(p) = wide
  <2>1. p \in Seq(0 .. 255)
    <3>1. p \in UNION {[1 .. k -> 0 .. 255] : k \in Nat}
      BY <1>0, <1>5
    <3> QED
      BY <3>1, SeqDef, Zenon
  <2>2. DOMAIN p = 1 .. Len(p) /\ Len(p) \in Nat
    BY <2>1
  <2> QED
    BY <1>0, <1>3, <2>1, <2>2
<1> QED
  BY <1>4, <1>6 DEF q

(* Bytes that start with those of an integer read as that integer.         *)
LEMMA ReadsBack ==
  ASSUME NEW n \in Nat, n < Power[Width], NEW b,
         \A at \in 1 .. Width : b[at] = Shifted(n)[Width - at] % 256
  PROVE  Uint(b) = n
<1> DEFINE q == Shifted(n)
<1>0. Width \in Nat /\ Width >= 1 /\ Width \in 0 .. Width
  BY HexAssumption
<1>1. /\ \A k \in 0 .. Width : q[k] \in Nat
      /\ q[0] = n /\ q[Width] = 0
      /\ \A k \in 1 .. Width : q[k] = q[k - 1] \div 256
  BY <1>0, ShiftedRests DEF IsRests
<1>2. PICK f : IsAdded(f, b, Width) /\ Uint(b) = f[Width]
  BY TheFunctions, Zenon
<1>3. \A k \in 0 .. Width : f[k] = IF k = 0 THEN 0 ELSE 256 * f[k - 1] + b[k]
  BY <1>2, Zenon DEF IsAdded
<1>4. \A k \in 1 .. Width : b[k] = q[Width - k] % 256
  OBVIOUS
<1> HIDE DEF q
<1> DEFINE T == {k \in Nat : k <= Width => f[k] = q[Width - k]}
<1>5. 0 \in T
  <2>1. 0 \in 0 .. Width /\ Width - 0 = Width
    BY <1>0
  <2> QED
    BY <1>1, <1>3, <2>1
<1>6. ASSUME NEW k \in T PROVE k + 1 \in T
  <2> SUFFICES ASSUME k + 1 <= Width PROVE f[k + 1] = q[Width - (k + 1)]
    OBVIOUS
  <2> DEFINE l == Width - (k + 1)
  <2>1. /\ k + 1 \in 1 .. Width /\ k + 1 \in 0 .. Width /\ k + 1 # 0 /\ (k + 1) - 1 = k
        /\ f[k] = q[Width - k] /\ Width - k = l + 1
        /\ l \in 0 .. Width /\ l + 1 \in 1 .. Width /\ (l + 1) - 1 = l
    BY <1>0
  <2>2. f[k + 1] = 256 * f[k] + b[k + 1]
    BY <1>3, <2>1
  <2> DEFINE x == q[l]
  <2>3. x \in Nat /\ f[k] = x \div 256 /\ b[k + 1] = x % 256
    BY <1>1, <1>4, <2>1
  <2> HIDE DEF x
  <2>4. 256 * (x \div 256) + (x % 256) = x
    BY <2>3
  <2>5. f[k + 1] = x
    BY <2>2, <2>3, <2>4
  <2> QED
    BY <2>5 DEF x, l
<1>7. T = Nat
  <2>1. T \in SUBSET Nat
    OBVIOUS
  <2> HIDE DEF T
  <2> QED
    BY <1>5, <1>6, <2>1, InductionOverSet
<1>8. f[Width] = q[Width - Width] /\ Width - Width = 0
  BY <1>0, <1>7
<1> QED
  BY <1>1, <1>2, <1>8

(* In the first bytes, a is lower than b where they first differ.          *)
Precedes(a, b, wide) ==
  \E at \in 1 .. wide : a[at] < b[at] /\ \A j \in 1 .. at - 1 : a[j] = b[j]

(* The bytes of integers are in the order of the integers.                 *)
LEMMA BytesInOrder ==
  ASSUME NEW wide \in 0 .. Width, NEW n \in Nat, NEW m \in Nat, n < m, m < Power[wide]
  PROVE  Precedes(PutUint(n, wide), PutUint(m, wide), wide)
<1> DEFINE q == Shifted(n)
<1> DEFINE r == Shifted(m)
<1> DEFINE a == PutUint(n, wide)
<1> DEFINE b == PutUint(m, wide)
<1>0. wide \in Nat /\ Power[wide] \in Nat /\ n < Power[wide]
  BY HexAssumption, Powers
<1>1. IsRests(q, n, wide) /\ IsRests(r, m, wide)
  BY <1>0, ShiftedRests
<1>2. \A k \in 1 .. wide : a[k] = q[wide - k] % 256 /\ b[k] = r[wide - k] % 256
  BY DEF PutUint
<1> HIDE DEF q, r, a, b
<1>3. /\ \A k \in 0 .. wide : q[k] \in Nat /\ r[k] \in Nat
      /\ q[0] = n /\ q[wide] = 0 /\ r[0] = m /\ r[wide] = 0
      /\ \A k \in 1 .. wide : q[k] = q[k - 1] \div 256 /\ r[k] = r[k - 1] \div 256
  BY <1>1, Zenon DEF IsRests
<1>w. wide >= 1
  BY <1>0, <1>3
(* The place of the first byte that differs: what is left up to it differs,*)
(* what is left before it does not.                                        *)
<1> DEFINE S == {k \in 1 .. wide : q[wide - k] # r[wide - k]}
<1>4. wide \in S
  <2>1. wide \in 1 .. wide /\ wide - wide = 0
    BY <1>0, <1>w
  <2> QED
    BY <1>3, <2>1
<1>5. PICK k \in S : \A j \in S : k <= j
  <2>1. S \in SUBSET Nat /\ S # {}
    BY <1>0, <1>w, <1>4
  <2> HIDE DEF S
  <2> QED
    BY <2>1, LeastExists
<1> DEFINE l == wide - k
<1>6. /\ k \in 1 .. wide /\ q[l] # r[l]
      /\ l \in 0 .. wide /\ l + 1 \in 1 .. wide /\ (l + 1) - 1 = l
  BY <1>0, <1>w, <1>5
<1>7. \A j \in 1 .. k - 1 : q[wide - j] = r[wide - j]
  <2> SUFFICES ASSUME NEW j \in 1 .. k - 1 PROVE q[wide - j] = r[wide - j]
    OBVIOUS
  <2>1. j \in 1 .. wide /\ ~(k <= j)
    BY <1>0, <1>w, <1>6
  <2> QED
    BY <1>5, <2>1
<1>8. q[l + 1] = r[l + 1]
  <2>1. CASE k = 1
    <3>1. l + 1 = wide
      BY <1>0, <1>w, <2>1
    <3> QED
      BY <1>3, <3>1
  <2>2. CASE k # 1
    <3>1. k - 1 \in 1 .. k - 1 /\ wide - (k - 1) = l + 1
      BY <1>0, <1>w, <1>6, <2>2
    <3> QED
      BY <1>7, <3>1
  <2> QED
    BY <2>1, <2>2
(* Taking bytes off keeps the order.                                       *)
<1> DEFINE T == {j \in Nat : j <= wide => q[j] <= r[j]}
<1>9. 0 \in T
  BY <1>3
<1>10. ASSUME NEW j \in T PROVE j + 1 \in T
  <2> SUFFICES ASSUME j + 1 <= wide PROVE q[j + 1] <= r[j + 1]
    OBVIOUS
  <2>1. /\ j + 1 \in 1 .. wide /\ (j + 1) - 1 = j /\ j \in 0 .. wide /\ q[j] <= r[j]
    BY <1>0, <1>w
  <2> DEFINE x == q[j]
  <2> DEFINE y == r[j]
  <2>2. /\ x \in Nat /\ y \in Nat /\ x <= y
        /\ q[j + 1] = x \div 256 /\ r[j + 1] = y \div 256
    BY <1>3, <2>1
  <2> HIDE DEF x, y
  <2>3. x \div 256 <= y \div 256
    BY <2>2
  <2> QED
    BY <2>2, <2>3
<1>11. T = Nat
  <2>1. T \in SUBSET Nat
    OBVIOUS
  <2> HIDE DEF T
  <2> QED
    BY <1>9, <1>10, <2>1, InductionOverSet
<1>12. q[l] <= r[l]
  <2>1. l \in Nat /\ l <= wide
    BY <1>0, <1>w, <1>6
  <2> QED
    BY <1>11, <2>1
<1> HIDE DEF T, S
<1>13. a[k] < b[k]
  <2> DEFINE x == q[l]
  <2> DEFINE y == r[l]
  <2>1. /\ x \in Nat /\ y \in Nat /\ x <= y /\ x # y /\ x \div 256 = y \div 256
        /\ a[k] = x % 256 /\ b[k] = y % 256
    BY <1>2, <1>3, <1>6, <1>8, <1>12
  <2> HIDE DEF x, y
  <2>2. x % 256 < y % 256
    BY <2>1
  <2> QED
    BY <2>1, <2>2
<1>14. \A j \in 1 .. k - 1 : a[j] = b[j]
  <2> SUFFICES ASSUME NEW j \in 1 .. k - 1 PROVE a[j] = b[j]
    OBVIOUS
  <2>1. j \in 1 .. wide
    BY <1>0, <1>w, <1>6
  <2> QED
    BY <1>2, <1>7, <2>1
<1> QED
  BY <1>6, <1>13, <1>14 DEF Precedes, a, b

(* The key of a commit or of a block's metadata starts with its height; a  *)
(* commit's order comes next.                                              *)
KeyShape(e, h, p) ==
  /\ e \in Seq(0 .. 255) /\ Len(e) >= Width
  /\ \A at \in 1 .. Width : e[at] = PutUint(h, Width)[at]
  /\ p = 0 => Len(e) = Width
  /\ p # 0 => /\ Len(e) >= Width + OrderWidth
              /\ \A at \in 1 .. OrderWidth : e[Width + at] = PutUint(p - 1, OrderWidth)[at]

(* Every key has that shape.                                               *)
LEMMA EncodedShape ==
  ASSUME NEW h \in HeightsStored, NEW p \in Place
  PROVE  KeyShape(Encoded(<<h, p>>), h, p)
<1> DEFINE a == PutUint(h, Width)
<1>0. /\ Width \in Nat /\ Width >= 1 /\ OrderWidth \in Nat /\ OrderWidth >= 1
      /\ OrderWidth <= Width /\ PadWidth \in Nat /\ Power[Width] \in Nat
      /\ Power[OrderWidth] \in Nat
  BY HexAssumption, Powers
<1>1. h \in Nat /\ h < Power[Width]
  BY <1>0, HexAssumption
<1>2. a \in Seq(0 .. 255) /\ Len(a) = Width
  BY <1>0, <1>1, BytesOf
<1>3. CASE p = 0
  <2>1. Encoded(<<h, p>>) = a
    BY <1>3 DEF Encoded, encode_block_metadata
  <2> HIDE DEF a
  <2>2. KeyShape(a, h, p)
    BY <1>0, <1>2, <1>3 DEF KeyShape, a
  <2> QED
    BY <2>1, <2>2
<1>4. CASE p # 0
  <2> DEFINE b == PutUint(p - 1, OrderWidth)
  <2> DEFINE z == [at \in 1 .. PadWidth |-> 0]
  <2>1. Encoded(<<h, p>>) = (a \o b) \o z
    BY <1>4 DEF Encoded, encode_tag
  <2>2. b \in Seq(0 .. 255) /\ Len(b) = OrderWidth
    <3>1. p - 1 \in Nat /\ p - 1 < Power[OrderWidth]
      BY <1>0, <1>4, HexAssumption DEF Place
    <3> QED
      BY <1>0, <3>1, BytesOf
  <2>3. z \in Seq(0 .. 255) /\ Len(z) = PadWidth
    BY <1>0
  <2> HIDE DEF a, b, z
  <2> DEFINE ab == a \o b
  <2>4. /\ ab \in Seq(0 .. 255) /\ Len(ab) = Len(a) + Len(b)
        /\ \A at \in 1 .. Len(a) + Len(b) : ab[at] = IF at <= Len(a) THEN a[at] ELSE b[at - Len(a)]
    <3>1. a \in Seq(0 .. 255) /\ b \in Seq(0 .. 255)
      BY <1>2, <2>2
    <3> QED
      BY <3>1, ConcatProperties, Zenon
  <2> HIDE DEF ab
  <2> DEFINE e == ab \o z
  <2>5. /\ e \in Seq(0 .. 255) /\ Len(e) = Len(ab) + Len(z)
        /\ \A at \in 1 .. Len(ab) + Len(z) :
             e[at] = IF at <= Len(ab) THEN ab[at] ELSE z[at - Len(ab)]
    <3>1. ab \in Seq(0 .. 255) /\ z \in Seq(0 .. 255)
      BY <2>3, <2>4
    <3> QED
      BY <3>1, ConcatProperties, Zenon
  <2> HIDE DEF e
  <2>6. Len(e) = Width + OrderWidth + PadWidth /\ Len(ab) = Width + OrderWidth
    BY <1>0, <1>2, <2>2, <2>3, <2>4, <2>5
  <2>7. \A at \in 1 .. Width : e[at] = a[at]
    BY <1>0, <1>2, <2>2, <2>3, <2>4, <2>5, <2>6
  <2>8. \A at \in 1 .. OrderWidth : e[Width + at] = b[at]
    <3> SUFFICES ASSUME NEW at \in 1 .. OrderWidth PROVE e[Width + at] = b[at]
      OBVIOUS
    <3>1. /\ Width + at \in 1 .. Len(ab) + Len(z) /\ Width + at <= Len(ab)
          /\ Width + at \in 1 .. Len(a) + Len(b) /\ ~(Width + at <= Len(a))
          /\ (Width + at) - Len(a) = at
      BY <1>0, <1>2, <2>2, <2>3, <2>6
    <3> QED
      BY <2>4, <2>5, <3>1
  <2>9. Len(e) >= Width /\ Len(e) >= Width + OrderWidth
    BY <1>0, <2>6
  <2>10. KeyShape(e, h, p)
    BY <1>4, <2>5, <2>7, <2>8, <2>9 DEF KeyShape, a, b
  <2> QED
    BY <2>1, <2>10 DEF e, ab
<1> QED
  BY <1>3, <1>4

(* The entries of a key are bytes.                                         *)
LEMMA ByteEntries ==
  ASSUME NEW s \in Seq(0 .. 255)
  PROVE  Len(s) \in Nat /\ \A k \in 1 .. Len(s) : s[k] \in Int /\ s[k] >= 0 /\ s[k] <= 255
<1>1. ASSUME NEW k \in 1 .. Len(s) PROVE s[k] \in Int /\ s[k] >= 0 /\ s[k] <= 255
  <2> DEFINE x == s[k]
  <2>1. x \in 0 .. 255
    BY ElementOfSeq
  <2> HIDE DEF x
  <2>2. x \in Int /\ x >= 0 /\ x <= 255
    BY <2>1
  <2> QED
    BY <2>2 DEF x
<1>2. Len(s) \in Nat
  BY LenProperties
<1> QED
  BY <1>1, <1>2

(* A key that is lower in its first bytes comes before another, and the    *)
(* other not before it.                                                    *)
LEMMA LowerIsBefore ==
  ASSUME NEW a \in Seq(0 .. 255), NEW b \in Seq(0 .. 255), NEW wide \in Nat,
         wide <= Len(a), wide <= Len(b), Precedes(a, b, wide)
  PROVE  KeyBefore(a, b) /\ ~KeyBefore(b, a)
<1>1. /\ Len(a) \in Nat /\ Len(b) \in Nat
      /\ \A at \in 1 .. Len(a) : a[at] \in Int
      /\ \A at \in 1 .. Len(b) : b[at] \in Int
  BY ByteEntries
<1>2. PICK at \in 1 .. wide : a[at] < b[at] /\ \A j \in 1 .. at - 1 : a[j] = b[j]
  BY DEF Precedes
<1>3. at \in 1 .. Len(a) /\ at \in 1 .. Len(b) /\ at <= Len(a) /\ at <= Len(b)
  BY <1>1
<1>4. KeyBefore(a, b)
  BY <1>2, <1>3 DEF KeyBefore
<1>5. ASSUME KeyBefore(b, a) PROVE FALSE
  <2>1. CASE Len(b) < Len(a) /\ \A j \in 1 .. Len(b) : b[j] = a[j]
    BY <1>1, <1>2, <1>3, <2>1
  <2>2. ASSUME NEW x \in 1 .. Len(b), x <= Len(a), b[x] < a[x],
               \A j \in 1 .. x - 1 : b[j] = a[j]
        PROVE  FALSE
    <3>1. x \in 1 .. Len(a) /\ a[x] \in Int /\ b[x] \in Int /\ a[at] \in Int /\ b[at] \in Int
      BY <1>1, <1>3, <2>2
    <3>2. CASE x < at
      <4>1. x \in 1 .. at - 1
        BY <3>2
      <4> QED
        BY <1>2, <2>2, <3>1, <4>1
    <3>3. CASE x = at
      BY <1>2, <2>2, <3>1, <3>3
    <3>4. CASE at < x
      <4>1. at \in 1 .. x - 1
        BY <3>4
      <4> QED
        BY <1>2, <2>2, <3>1, <4>1
    <3> QED
      BY <3>2, <3>3, <3>4
  <2> QED
    BY <1>5, <2>1, <2>2 DEF KeyBefore
<1> QED
  BY <1>4, <1>5

(* The bytes of a height are a key, of the metadata.                       *)
LEMMA HeightKey ==
  ASSUME NEW h \in Nat, h < Power[Width]
  PROVE  PutUint(h, Width) \in Seq(0 .. 255) /\ Len(PutUint(h, Width)) = Width
<1>1. Width \in 0 .. Width
  BY HexAssumption
<1> QED
  BY <1>1, BytesOf

(* The facts about the widths, the heights and the orders.                 *)
LEMMA Ranges ==
  /\ Width \in Nat /\ Width >= 1 /\ Width \in 0 .. Width
  /\ OrderWidth \in Nat /\ OrderWidth >= 1 /\ OrderWidth \in 0 .. Width
  /\ VersionWidth \in Nat /\ VersionWidth >= 1 /\ VersionWidth < Width
  /\ Power[Width] \in Nat /\ Power[Width] >= 256 /\ Power[OrderWidth] \in Nat
  /\ \A h \in HeightsStored : h \in Nat /\ h < Power[Width]
  /\ \A p \in Place : /\ p \in Nat
                      /\ p # 0 => p - 1 \in Nat /\ p - 1 < Power[OrderWidth]
<1>1. /\ Width \in Nat /\ Width >= 1 /\ Width \in 0 .. Width
      /\ OrderWidth \in Nat /\ OrderWidth >= 1 /\ OrderWidth \in 0 .. Width
      /\ VersionWidth \in Nat /\ VersionWidth >= 1 /\ VersionWidth < Width
  BY HexAssumption
<1>2. Power[Width] \in Nat /\ Power[OrderWidth] \in Nat
  BY <1>1, Powers
<1>3. Power[Width] >= 256
  <2> DEFINE x == Power[Width - 1]
  <2>1. Width - 1 \in 0 .. Width /\ Width \in 1 .. Width
    BY <1>1
  <2>2. x \in Nat /\ x > 0 /\ Power[Width] = 256 * x
    BY <2>1, Powers
  <2> HIDE DEF x
  <2> QED
    BY <2>2
<1>4. \A h \in HeightsStored : h \in Nat /\ h < Power[Width]
  BY <1>2, HexAssumption
<1>5. \A o \in OrdersStored : o \in Nat /\ o < Power[OrderWidth]
  BY <1>2, HexAssumption
<1>6. \A p \in Place : /\ p \in Nat
                       /\ p # 0 => p - 1 \in Nat /\ p - 1 < Power[OrderWidth]
  BY <1>5 DEF Place
<1> QED
  BY <1>1, <1>2, <1>3, <1>4, <1>6

(* A key comes before the first key of a height exactly if it is of a      *)
(* lower height.                                                           *)
LEMMA BeforeHeight ==
  ASSUME NEW g \in HeightsStored, NEW p \in Place, NEW h \in Nat, h < Power[Width]
  PROVE  KeyBefore(Encoded(<<g, p>>), PutUint(h, Width)) <=> g < h
<1> DEFINE e == Encoded(<<g, p>>)
<1> DEFINE b == PutUint(h, Width)
<1> DEFINE a == PutUint(g, Width)
<1>1. Width \in Nat /\ Width \in 0 .. Width /\ g \in Nat /\ g < Power[Width]
  BY Ranges
<1>2. e \in Seq(0 .. 255) /\ Len(e) >= Width /\ \A at \in 1 .. Width : e[at] = a[at]
  BY EncodedShape DEF KeyShape
<1>3. b \in Seq(0 .. 255) /\ Len(b) = Width
  BY HeightKey
<1>4. g < h => Precedes(a, b, Width)
  BY <1>1, BytesInOrder
<1>5. h < g => Precedes(b, a, Width)
  BY <1>1, BytesInOrder
<1>6. g = h => a = b
  OBVIOUS
<1> HIDE DEF e, a, b
<1>7. Len(b) <= Len(e) /\ Width <= Len(e) /\ Width <= Len(b)
  BY <1>1, <1>2, <1>3
<1>8. CASE g < h
  <2>1. Precedes(e, b, Width)
    BY <1>1, <1>2, <1>4, <1>8 DEF Precedes
  <2> QED
    BY <1>1, <1>2, <1>3, <1>7, <1>8, <2>1, LowerIsBefore DEF e, b
<1>9. CASE h < g
  <2>1. Precedes(b, e, Width)
    BY <1>1, <1>2, <1>5, <1>9 DEF Precedes
  <2>2. ~KeyBefore(e, b)
    BY <1>1, <1>2, <1>3, <1>7, <2>1, LowerIsBefore
  <2> QED
    BY <1>1, <1>9, <2>2 DEF e, b
<1>10. CASE g = h
  <2>1. \A at \in 1 .. Width : e[at] = b[at]
    BY <1>2, <1>6, <1>10
  <2>2. \A at \in 1 .. Width : b[at] \in Int
    <3>1. \A at \in 1 .. Width : b[at] \in 0 .. 255
      BY <1>3, ElementOfSeq
    <3> QED
      BY <3>1
  <2>3. Len(e) \in Nat /\ ~(Len(e) < Len(b))
    BY <1>1, <1>2, <1>3
  <2>4. ASSUME NEW at \in 1 .. Len(e), at <= Len(b), e[at] < b[at] PROVE FALSE
    <3>1. at \in 1 .. Width
      BY <1>1, <1>3, <2>3, <2>4
    <3> QED
      BY <2>1, <2>2, <2>4, <3>1
  <2>5. ~KeyBefore(e, b)
    BY <2>3, <2>4 DEF KeyBefore
  <2> QED
    BY <1>1, <1>10, <2>5 DEF e, b
<1> QED
  BY <1>1, <1>8, <1>9, <1>10

(* The version's key comes before any that is longer.                      *)
LEMMA VersionIsFirst ==
  ASSUME NEW e \in Seq(0 .. 255), Len(e) >= Width
  PROVE  KeyBefore(version_key, e)
<1> DEFINE v == version_key
<1>1. /\ VersionWidth \in Nat /\ VersionWidth < Width /\ Width \in Nat /\ Len(e) \in Nat
      /\ Len(e) > VersionWidth
  BY Ranges
<1>2. v \in [1 .. VersionWidth -> {0}]
  BY DEF version_key
<1>3. Len(v) = VersionWidth /\ \A at \in 1 .. VersionWidth : v[at] = 0
  <2>1. v \in UNION {[1 .. k -> {0}] : k \in Nat}
    BY <1>1, <1>2
  <2>2. v \in Seq({0})
    BY <2>1, SeqDef, Zenon
  <2>3. DOMAIN v = 1 .. VersionWidth /\ DOMAIN v = 1 .. Len(v) /\ Len(v) \in Nat
    BY <1>2, <2>2, LenProperties
  <2>4. Len(v) = VersionWidth
    BY <1>1, <2>3
  <2> QED
    BY <1>2, <2>4
<1> HIDE DEF v
<1>4. \A at \in 1 .. VersionWidth : e[at] \in Int /\ e[at] >= 0
  <2>1. \A at \in 1 .. VersionWidth : at \in 1 .. Len(e)
    BY <1>1
  <2> QED
    BY <2>1, ByteEntries
<1>5. CASE \A at \in 1 .. VersionWidth : e[at] = 0
  <2>1. Len(v) < Len(e) /\ \A j \in 1 .. Len(v) : v[j] = e[j]
    BY <1>1, <1>3, <1>5
  <2> QED
    BY <2>1 DEF KeyBefore, v
<1>6. CASE \E at \in 1 .. VersionWidth : e[at] # 0
  <2> DEFINE S == {at \in 1 .. VersionWidth : e[at] # 0}
  <2>1. PICK at \in S : \A j \in S : at <= j
    <3>1. S \in SUBSET Nat /\ S # {}
      BY <1>6
    <3> HIDE DEF S
    <3> QED
      BY <3>1, LeastExists
  <2>2. at \in 1 .. VersionWidth /\ e[at] # 0
    OBVIOUS
  <2>3. \A j \in 1 .. at - 1 : e[j] = 0
    <3> SUFFICES ASSUME NEW j \in 1 .. at - 1, e[j] # 0 PROVE FALSE
      OBVIOUS
    <3>1. j \in 1 .. VersionWidth /\ ~(at <= j)
      BY <1>1, <2>2
    <3> QED
      BY <2>1, <3>1
  <2> HIDE DEF S
  <2>4. /\ at \in 1 .. Len(v) /\ at <= Len(e) /\ v[at] < e[at]
        /\ \A j \in 1 .. at - 1 : v[j] = e[j]
    <3>1. \A j \in 1 .. at - 1 : v[j] = 0
      BY <1>1, <1>3, <2>2
    <3> QED
      BY <1>1, <1>3, <1>4, <2>2, <2>3, <3>1
  <2> QED
    BY <2>4 DEF KeyBefore, v
<1> QED
  BY <1>5, <1>6

(* LevelDB iterates over the keys of the blocks in the order of the        *)
(* blocks, the version's before them, and each reads back as its height,   *)
(* for keys of any width, all heights and all orders (encode_tag,          *)
(* encode_block_metadata, decode_block_metadata).                          *)
THEOREM KeysAreInOrder == HexSpec => []KeysInBlockOrder
<1>1. Typed => KeysInBlockOrder
  <2> SUFFICES ASSUME Typed, NEW h \in asked, NEW p \in Place
               PROVE  /\ KeyBefore(version_key, Encoded(<<h, p>>))
                      /\ decode_height(Encoded(<<h, p>>)) = h
                      /\ \A l \in HeightsStored \X Place :
                           Earlier(<<h, p>>, l) => KeyBefore(Encoded(<<h, p>>), Encoded(l))
    BY DEF KeysInBlockOrder
  <2> DEFINE e == Encoded(<<h, p>>)
  <2>1. h \in HeightsStored /\ h \in Nat /\ h < Power[Width]
    BY Ranges DEF Typed
  <2>2. KeyShape(e, h, p)
    BY <2>1, EncodedShape
  <2>3. KeyBefore(version_key, e)
    BY <2>2, VersionIsFirst DEF KeyShape
  <2>4. decode_height(e) = h
    <3> HIDE DEF e
    <3>1. Width \in Nat /\ Width \in 0 .. Width
      BY Ranges
    <3>2. \A at \in 1 .. Width : SubSeq(e, 1, Width)[at] = e[at]
      BY <2>2, <3>1 DEF KeyShape
    <3>3. \A at \in 1 .. Width : e[at] = Shifted(h)[Width - at] % 256
      BY <2>1, <2>2, <3>1, BytesOf DEF KeyShape
    <3> DEFINE k == SubSeq(e, 1, Width)
    <3>4. \A at \in 1 .. Width : k[at] = Shifted(h)[Width - at] % 256
      BY <3>2, <3>3
    <3> HIDE DEF k
    <3>5. Uint(k) = h
      BY <2>1, <3>4, ReadsBack
    <3> QED
      BY <3>5 DEF decode_height, k
  <2>5. ASSUME NEW g \in HeightsStored, NEW q \in Place, Earlier(<<h, p>>, <<g, q>>)
        PROVE  KeyBefore(e, Encoded(<<g, q>>))
    <3> DEFINE d == Encoded(<<g, q>>)
    <3>1. KeyShape(d, g, q) /\ g \in Nat /\ g < Power[Width]
      BY EncodedShape, Ranges
    <3>2. h < g \/ (h = g /\ p < q)
      BY <2>5 DEF Earlier
    <3> HIDE DEF e, d
    <3>3. CASE h < g
      <4>1. Precedes(PutUint(h, Width), PutUint(g, Width), Width)
        BY <2>1, <3>1, <3>3, Ranges, BytesInOrder
      <4>2. Precedes(e, d, Width)
        BY <2>2, <3>1, <4>1, Ranges DEF Precedes, KeyShape
      <4> QED
        BY <2>2, <3>1, <4>2, Ranges, LowerIsBefore DEF KeyShape, d
    <3>4. CASE h = g /\ p = 0 /\ p < q
      <4>1. Len(e) = Width /\ q # 0
        BY <2>2, <3>4, Ranges DEF KeyShape
      <4>2. Len(e) < Len(d)
        <5>1. Len(d) \in Nat /\ Len(d) >= Width + OrderWidth
          BY <3>1, <4>1, ByteEntries DEF KeyShape
        <5> QED
          BY <4>1, <5>1, Ranges
      <4>3. \A at \in 1 .. Len(e) : e[at] = d[at]
        BY <2>2, <3>1, <3>4, <4>1 DEF KeyShape
      <4> QED
        BY <4>2, <4>3 DEF KeyBefore, d
    <3>5. CASE h = g /\ p # 0 /\ p < q
      <4> DEFINE a == PutUint(p - 1, OrderWidth)
      <4> DEFINE b == PutUint(q - 1, OrderWidth)
      <4>1. p - 1 \in Nat /\ q - 1 \in Nat /\ p - 1 < q - 1 /\ q - 1 < Power[OrderWidth] /\ q # 0
        BY <3>5, Ranges
      <4>2. Precedes(a, b, OrderWidth)
        BY <4>1, Ranges, BytesInOrder
      <4>3. /\ \A at \in 1 .. Width : e[at] = d[at]
            /\ \A at \in 1 .. OrderWidth : e[Width + at] = a[at] /\ d[Width + at] = b[at]
        BY <2>2, <3>1, <3>5, <4>1 DEF KeyShape
      <4> HIDE DEF a, b
      <4>4. PICK at \in 1 .. OrderWidth : a[at] < b[at] /\ \A j \in 1 .. at - 1 : a[j] = b[j]
        BY <4>2 DEF Precedes
      <4> DEFINE wide == Width + OrderWidth
      <4> DEFINE x == Width + at
      <4>5. x \in 1 .. wide /\ wide \in Nat /\ e[x] < d[x]
        BY <4>3, <4>4, Ranges
      <4>6. ASSUME NEW j \in 1 .. x - 1 PROVE e[j] = d[j]
        <5>1. CASE j \in 1 .. Width
          BY <4>3, <5>1
        <5>2. CASE j \notin 1 .. Width
          <6>1. /\ j - Width \in 1 .. at - 1 /\ j - Width \in 1 .. OrderWidth
                /\ Width + (j - Width) = j
            BY <4>6, <5>2, Ranges
          <6>2. e[j] = a[j - Width] /\ d[j] = b[j - Width]
            BY <4>3, <6>1
          <6> QED
            BY <4>4, <6>1, <6>2
        <5> QED
          BY <5>1, <5>2
      <4>7. Precedes(e, d, wide)
        BY <4>5, <4>6 DEF Precedes
      <4>8. wide <= Len(e) /\ wide <= Len(d) /\ e \in Seq(0 .. 255) /\ d \in Seq(0 .. 255)
        BY <2>2, <3>1, <3>5, <4>1 DEF KeyShape
      <4> QED
        BY <4>5, <4>7, <4>8, LowerIsBefore DEF d
    <3> QED
      BY <3>2, <3>3, <3>4, <3>5
  <2> QED
    BY <2>3, <2>4, <2>5
<1> QED
  BY <1>1, AlwaysTyped, PTL

(* What the range of a height's keys is.                                   *)
LEMMA RangeOfHeight ==
  ASSUME NEW key, NEW h
  PROVE  OfHeight(key, h) <=>
           /\ ~KeyBefore(key, PutUint(h, Width))
           /\ \A n \in 1 .. Len(PutUint(h, Width)) :
                LastBelow255(PutUint(h, Width), n)
                  => KeyBefore(key, Raised(PutUint(h, Width), n))
<1> DEFINE a == PutUint(h, Width)
<1>1. OfHeight(key, h) <=> InPrefix(key, a)
  BY Zenon DEF OfHeight
<1> HIDE DEF a
<1>2. InPrefix(key, a) <=>
        /\ ~KeyBefore(key, a)
        /\ \A n \in 1 .. Len(a) : LastBelow255(a, n) => KeyBefore(key, Raised(a, n))
  BY Zenon DEF InPrefix
<1> QED
  BY <1>1, <1>2, Zenon DEF a

(* No key of a higher height comes before the end of the range of height   *)
(* h's keys, which BytesPrefix makes of the last byte that can be one      *)
(* higher.                                                                 *)
LEMMA PrefixEnds ==
  ASSUME NEW g \in HeightsStored, NEW p \in Place, NEW h \in Nat, h < g
  PROVE  ~OfHeight(Encoded(<<g, p>>), h)
<1> DEFINE e == Encoded(<<g, p>>)
<1> DEFINE a == PutUint(h, Width)
<1> DEFINE b == PutUint(g, Width)
<1>1. /\ Width \in Nat /\ Width \in 0 .. Width /\ g \in Nat /\ g < Power[Width]
      /\ Power[Width] \in Nat /\ h < Power[Width]
  BY Ranges
<1>2. e \in Seq(0 .. 255) /\ Len(e) >= Width /\ \A at \in 1 .. Width : e[at] = b[at]
  BY EncodedShape DEF KeyShape
<1>3. a \in Seq(0 .. 255) /\ Len(a) = Width
  BY <1>1, HeightKey
<1>4. Precedes(a, b, Width)
  BY <1>1, BytesInOrder
<1>5. OfHeight(e, h) =>
        \A n \in 1 .. Len(a) : LastBelow255(a, n) => KeyBefore(e, Raised(a, n))
  BY RangeOfHeight, Zenon
<1> HIDE DEF e, a, b
<1>6. /\ Len(e) \in Nat /\ \A k \in 1 .. Width : e[k] \in Int /\ e[k] <= 255
      /\ \A k \in 1 .. Width : a[k] \in Int /\ a[k] <= 255
  <2>1. Len(e) \in Nat /\ \A k \in 1 .. Len(e) : e[k] \in Int /\ e[k] <= 255
    BY <1>2, ByteEntries
  <2>2. \A k \in 1 .. Len(a) : a[k] \in Int /\ a[k] <= 255
    BY <1>3, ByteEntries
  <2>3. \A k \in 1 .. Width : k \in 1 .. Len(e)
    BY <1>1, <1>2, <2>1
  <2> QED
    BY <1>3, <2>1, <2>2, <2>3, Zenon
<1>7. PICK j \in 1 .. Width : a[j] < e[j] /\ \A k \in 1 .. j - 1 : a[k] = e[k]
  <2>1. PICK j \in 1 .. Width : a[j] < b[j] /\ \A k \in 1 .. j - 1 : a[k] = b[k]
    BY <1>4 DEF Precedes
  <2>2. \A k \in 1 .. j - 1 : k \in 1 .. Width
    BY <1>1
  <2> QED
    BY <1>2, <2>1, <2>2
(* The last byte of the height's that is not 255.                          *)
<1> DEFINE S == {k \in Nat : k < Width /\ a[Width - k] # 255}
<1>8. PICK k \in S : \A l \in S : k <= l
  <2>1. Width - j \in Nat /\ Width - j < Width /\ Width - (Width - j) = j
    BY <1>1
  <2>2. a[j] # 255
    BY <1>6, <1>7
  <2>3. Width - j \in S
    BY <2>1, <2>2
  <2>4. S \in SUBSET Nat /\ S # {}
    BY <2>3
  <2> HIDE DEF S
  <2> QED
    BY <2>4, LeastExists
<1> DEFINE n == Width - k
<1>9. /\ k \in Nat /\ n \in 1 .. Width /\ a[n] # 255 /\ j <= n
  <2>1. k \in Nat /\ k < Width /\ a[Width - k] # 255
    OBVIOUS
  <2>2. a[j] # 255
    BY <1>6, <1>7
  <2>3. Width - j \in Nat /\ Width - j < Width /\ Width - (Width - j) = j
    BY <1>1
  <2>4. k <= Width - j
    BY <1>8, <2>2, <2>3
  <2> QED
    BY <1>1, <2>1, <2>4
<1>10. \A x \in n + 1 .. Width : a[x] = 255
  <2> SUFFICES ASSUME NEW x \in n + 1 .. Width, a[x] # 255 PROVE FALSE
    OBVIOUS
  <2>1. Width - x \in Nat /\ Width - x < Width /\ Width - (Width - x) = x /\ ~(k <= Width - x)
    BY <1>1, <1>9
  <2> QED
    BY <1>8, <2>1
<1> HIDE DEF S, n
<1> DEFINE z == Raised(a, n)
<1>11. /\ z = [x \in 1 .. n |-> z[x]] /\ DOMAIN z = 1 .. n /\ z[n] = a[n] + 1
       /\ \A x \in 1 .. n - 1 : z[x] = a[x]
  BY <1>1, <1>9 DEF Raised
<1> HIDE DEF z
<1>12. Len(z) = n
  <2>1. \A x \in 1 .. n : z[x] \in Int
    <3>1. ASSUME NEW x \in 1 .. n PROVE z[x] \in Int
      <4>1. CASE x = n
        BY <1>6, <1>9, <1>11, <4>1
      <4>2. CASE x # n
        <5>1. x \in 1 .. n - 1 /\ x \in 1 .. Width
          BY <1>1, <1>9, <4>2
        <5> QED
          BY <1>6, <1>11, <5>1
      <4> QED
        BY <4>1, <4>2
    <3> QED
      BY <3>1
  <2>2. z \in [1 .. n -> Int]
    BY <1>11, <2>1
  <2>3. n \in Nat
    BY <1>1, <1>9
  <2>4. z \in UNION {[1 .. m -> Int] : m \in Nat}
    BY <2>2, <2>3
  <2>5. z \in Seq(Int)
    BY <2>4, SeqDef, Zenon
  <2>6. Len(z) \in Nat /\ 1 .. Len(z) = 1 .. n
    BY <1>11, <2>5, LenProperties
  <2> QED
    BY <2>3, <2>6
<1>13. OfHeight(e, h) => KeyBefore(e, z)
  <2>1. n \in 1 .. Len(a)
    BY <1>3, <1>9
  <2>2. LastBelow255(a, n)
    BY <1>3, <1>9, <1>10 DEF LastBelow255
  <2> QED
    BY <1>5, <2>1, <2>2 DEF z
<1>14. ASSUME KeyBefore(e, z) PROVE FALSE
  <2>1. ~(Len(e) < Len(z))
    BY <1>1, <1>2, <1>6, <1>9, <1>12
  <2>2. PICK x \in 1 .. Len(e) : /\ x <= Len(z) /\ e[x] < z[x]
                                 /\ \A y \in 1 .. x - 1 : e[y] = z[y]
    BY <1>14, <2>1 DEF KeyBefore
  <2>3. /\ x \in 1 .. n /\ x \in 1 .. Width /\ n \in Int /\ j \in Int
    BY <1>1, <1>6, <1>9, <1>12, <2>2
  <2>4. /\ e[x] \in Int /\ a[x] \in Int /\ a[n] \in Int /\ a[j] \in Int /\ e[j] \in Int
    BY <1>6, <1>9, <2>3
  <2>5. CASE x < j
    <3>1. x \in 1 .. j - 1 /\ x \in 1 .. n - 1
      BY <1>9, <2>3, <2>5
    <3>2. a[x] = e[x] /\ z[x] = a[x]
      BY <1>7, <1>11, <3>1
    <3> QED
      BY <2>2, <2>4, <3>2
  <2>6. CASE x = j /\ j < n
    <3>1. x \in 1 .. n - 1
      BY <2>3, <2>6
    <3>2. z[x] = a[x] /\ a[x] < e[x]
      BY <1>7, <1>11, <2>6, <3>1
    <3> QED
      BY <2>2, <2>4, <3>2
  <2>7. CASE x = j /\ j = n
    BY <1>7, <1>11, <2>2, <2>4, <2>7
  <2>8. CASE j < x
    <3>1. j \in 1 .. x - 1 /\ j \in 1 .. n - 1
      BY <1>9, <2>3, <2>8
    <3>2. e[j] = z[j] /\ z[j] = a[j]
      BY <1>11, <2>2, <3>1
    <3> QED
      BY <1>7, <2>4, <3>2
  <2> QED
    BY <1>9, <2>3, <2>5, <2>6, <2>7, <2>8
<1> QED
  BY <1>13, <1>14 DEF e

(* The range of a height's keys has all of them.                           *)
LEMMA PrefixCovers ==
  ASSUME NEW h \in HeightsStored, NEW p \in Place
  PROVE  OfHeight(Encoded(<<h, p>>), h)
<1> DEFINE e == Encoded(<<h, p>>)
<1> DEFINE a == PutUint(h, Width)
<1>1. Width \in Nat /\ h \in Nat /\ h < Power[Width]
  BY Ranges
<1>2. e \in Seq(0 .. 255) /\ Len(e) >= Width /\ \A at \in 1 .. Width : e[at] = a[at]
  BY EncodedShape DEF KeyShape
<1>3. a \in Seq(0 .. 255) /\ Len(a) = Width
  BY <1>1, HeightKey
<1>4. ~KeyBefore(e, a)
  BY <1>1, BeforeHeight
<1>5. ASSUME ~KeyBefore(e, a), \A n \in 1 .. Len(a) : KeyBefore(e, Raised(a, n))
      PROVE  OfHeight(e, h)
  BY <1>5, RangeOfHeight, Zenon
<1> HIDE DEF e, a
<1>6. ASSUME NEW n \in 1 .. Len(a)
      PROVE  KeyBefore(e, Raised(a, n))
  <2> DEFINE z == Raised(a, n)
  <2>1. /\ n \in 1 .. Width /\ n \in Nat /\ Len(e) \in Nat /\ n \in 1 .. Len(e)
        /\ a[n] \in Int /\ \A k \in 1 .. n : a[k] \in Int
    <3>1. n \in 1 .. Width
      BY <1>3
    <3>2. \A k \in 1 .. n : k \in 1 .. Width
      BY <1>1, <3>1
    <3>3. /\ Len(e) \in Nat
          /\ \A k \in 1 .. Width : a[k] \in Int
      BY <1>1, <1>2, <1>3, ByteEntries
    <3>4. n \in Nat /\ n \in 1 .. Len(e)
      BY <1>1, <1>2, <3>1, <3>3
    <3> QED
      BY <3>1, <3>2, <3>3, <3>4
  <2>2. /\ DOMAIN z = 1 .. n /\ z[n] = a[n] + 1
        /\ \A x \in 1 .. n - 1 : z[x] = a[x]
    BY <2>1 DEF Raised
  <2>3. z \in [1 .. n -> Int]
    BY <2>1 DEF Raised
  <2> HIDE DEF z
  <2>4. Len(z) = n
    <3>1. z \in UNION {[1 .. m -> Int] : m \in Nat}
      BY <2>1, <2>3
    <3>2. z \in Seq(Int)
      BY <3>1, SeqDef, Zenon
    <3>3. Len(z) \in Nat /\ 1 .. Len(z) = 1 .. n
      BY <2>2, <3>2, LenProperties
    <3> QED
      BY <2>1, <3>3
  <2>5. n <= Len(z) /\ e[n] < z[n]
    BY <1>2, <2>1, <2>2, <2>4
  <2>6. \A x \in 1 .. n - 1 : e[x] = z[x]
    <3>1. \A x \in 1 .. n - 1 : x \in 1 .. Width
      BY <1>1, <2>1
    <3> QED
      BY <1>2, <2>2, <3>1
  <2>7. KeyBefore(e, z)
    BY <2>1, <2>5, <2>6 DEF KeyBefore
  <2> QED
    BY <2>7 DEF z
<1> QED
  BY <1>4, <1>5, <1>6 DEF e

(* Every scan of the database covers the keys it is meant to and no other, *)
(* for keys of any width, all heights and all orders (db_remove_block,     *)
(* db_remove_blocks_after, db_load_blocks).                                *)
THEOREM ScansCoverTheirKeys == HexSpec => []ScansAreExact
<1>1. Typed => ScansAreExact
  <2> SUFFICES ASSUME Typed, NEW h \in asked
               PROVE  /\ \A l \in HeightsStored \X Place :
                           /\ OfHeight(Encoded(l), h) <=> l[1] = h
                           /\ FromHeight(Encoded(l), h) <=> l[1] >= h
                           /\ InLoad(Encoded(l)) <=> l[1] # Power[Width] - 1
                      /\ ~OfHeight(version_key, h)
                      /\ ~FromHeight(version_key, h)
                      /\ ~InLoad(version_key)
    BY DEF ScansAreExact
  <2> DEFINE z == Power[Width]
  <2>1. /\ h \in HeightsStored /\ h \in Nat /\ h < z /\ z \in Nat /\ z >= 256
    <3>1. asked \in SUBSET HeightsStored
      BY DEF Typed
    <3>2. h \in HeightsStored
      BY <3>1
    <3> QED
      BY <3>2, Ranges
  <2>2. (last_height + 1) % z = z - 1
    <3>1. last_height + 1 = z - 1
      BY <2>1 DEF last_height
    <3> HIDE DEF z
    <3>2. (z - 1) % z = z - 1
      BY <2>1
    <3> QED
      BY <3>1, <3>2
  <2>3. ASSUME NEW g \in HeightsStored, NEW p \in Place
        PROVE  /\ OfHeight(Encoded(<<g, p>>), h) <=> g = h
               /\ FromHeight(Encoded(<<g, p>>), h) <=> g >= h
               /\ InLoad(Encoded(<<g, p>>)) <=> g # z - 1
    <3>1. g \in Nat /\ g < z
      BY Ranges
    <3>2. FromHeight(Encoded(<<g, p>>), h) <=> g >= h
      <4>1. KeyBefore(Encoded(<<g, p>>), PutUint(h, Width)) <=> g < h
        BY <2>1, BeforeHeight
      <4>2. g >= h <=> ~(g < h)
        BY <2>1, <3>1
      <4> QED
        BY <4>1, <4>2 DEF FromHeight
    <3>3. OfHeight(Encoded(<<g, p>>), h) <=> g = h
      <4>1. CASE g = h
        BY <2>1, <4>1, PrefixCovers
      <4>2. CASE h < g
        BY <2>1, <3>1, <4>2, PrefixEnds
      <4>3. CASE g < h
        <5>1. KeyBefore(Encoded(<<g, p>>), PutUint(h, Width))
          BY <2>1, <4>3, BeforeHeight
        <5> QED
          BY <2>1, <3>1, <4>3, <5>1, RangeOfHeight
      <4> QED
        BY <2>1, <3>1, <4>1, <4>2, <4>3
    <3>4. InLoad(Encoded(<<g, p>>)) <=> g # z - 1
      <4>1. ~KeyBefore(Encoded(<<g, p>>), PutUint(0, Width))
        <5>1. 0 \in Nat /\ 0 < Power[Width] /\ ~(g < 0)
          BY <2>1, <3>1
        <5> QED
          BY <5>1, BeforeHeight
      <4>2. KeyBefore(Encoded(<<g, p>>), PutUint(z - 1, Width)) <=> g < z - 1
        <5>1. z - 1 \in Nat /\ z - 1 < Power[Width]
          BY <2>1
        <5> QED
          BY <5>1, BeforeHeight
      <4>3. g < z - 1 <=> g # z - 1
        BY <2>1, <3>1
      <4> QED
        BY <2>2, <4>1, <4>2, <4>3 DEF InLoad
    <3> QED
      BY <3>2, <3>3, <3>4
  <2>4. \A n \in Nat : n < z => KeyBefore(version_key, PutUint(n, Width))
    <3> SUFFICES ASSUME NEW n \in Nat, n < z PROVE KeyBefore(version_key, PutUint(n, Width))
      OBVIOUS
    <3>1. PutUint(n, Width) \in Seq(0 .. 255) /\ Len(PutUint(n, Width)) >= Width
      BY HeightKey, Ranges
    <3> QED
      BY <3>1, VersionIsFirst
  <2>5. KeyBefore(version_key, PutUint(h, Width)) /\ KeyBefore(version_key, PutUint(0, Width))
    BY <2>1, <2>4
  <2>6. /\ ~OfHeight(version_key, h) /\ ~FromHeight(version_key, h)
        /\ ~InLoad(version_key)
    BY <2>5 DEF OfHeight, InPrefix, FromHeight, InLoad
  <2> QED
    BY <2>3, <2>6
<1> QED
  BY <1>1, AlwaysTyped, PTL

===============================================================================
