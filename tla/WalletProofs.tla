----------------------------- MODULE WalletProofs -----------------------------
(***************************************************************************)
(* Proofs about Wallet: for every set of constructs, texts and callers,    *)
(* and every length of keys and merkle branches.                           *)
(***************************************************************************)
EXTENDS Wallet, TLAPS

-------------------------------------------------------------------------------
(* Sequences of words and of strings.                                      *)

(* An array is a sequence of its length.                                   *)
LEMMA ArrayFacts ==
  ASSUME NEW n \in Nat, NEW a \in Array(n)
  PROVE  /\ a \in Seq(Word) /\ Len(a) = n /\ DOMAIN a = 1 .. n
         /\ \A i \in 1 .. n : a[i] \in Word
<1>1. a \in [1 .. n -> Word] /\ DOMAIN a = 1 .. n
  BY DEF Array
<1>2. a \in Seq(Word)
  BY <1>1
<1> QED
  BY <1>1, <1>2

(* The elements of two sequences put together.                             *)
LEMMA ConcatFacts ==
  ASSUME NEW S, NEW s \in Seq(S), NEW t \in Seq(S)
  PROVE  /\ s \o t \in Seq(S)
         /\ Len(s \o t) = Len(s) + Len(t)
         /\ \A i \in 1 .. Len(s) : (s \o t)[i] = s[i]
         /\ \A i \in 1 .. Len(t) : (s \o t)[i + Len(s)] = t[i]
  OBVIOUS

(* The elements of a part of a sequence.                                   *)
LEMMA SliceFacts ==
  ASSUME NEW S, NEW s \in Seq(S), NEW k \in Nat, NEW n \in Nat, k + n <= Len(s)
  PROVE  /\ SubSeq(s, k + 1, k + n) \in Seq(S)
         /\ Len(SubSeq(s, k + 1, k + n)) = n
         /\ \A i \in 1 .. n : SubSeq(s, k + 1, k + n)[i] = s[i + k]
  OBVIOUS

(* Nothing else than the elements of two sequences is in both together.    *)
LEMMA ConcatRange ==
  ASSUME NEW S, NEW s \in Seq(S), NEW t \in Seq(S), NEW x,
         x \notin Range(s), x \notin Range(t)
  PROVE  s \o t \in Seq(S) /\ x \notin Range(s \o t)
<1>1. /\ s \o t \in Seq(S)
      /\ DOMAIN (s \o t) = 1 .. Len(s) + Len(t)
      /\ \A i \in 1 .. Len(s) : (s \o t)[i] = s[i]
      /\ \A i \in Len(s) + 1 .. Len(s) + Len(t) : (s \o t)[i] = t[i - Len(s)]
      /\ Len(s) \in Nat /\ Len(t) \in Nat
  OBVIOUS
<1>2. ASSUME NEW i \in 1 .. Len(s) + Len(t) PROVE (s \o t)[i] # x
  <2>1. CASE i <= Len(s)
    BY <1>1, <2>1 DEF Range
  <2>2. CASE i > Len(s)
    <3>1. i - Len(s) \in DOMAIN t /\ (s \o t)[i] = t[i - Len(s)]
      BY <1>1, <2>2
    <3> QED
      BY <3>1 DEF Range
  <2> QED
    BY <1>1, <2>1, <2>2
<1> QED
  BY <1>1, <1>2 DEF Range

(* The strings of an array's words parse, and give the words back.         *)
LEMMA StringsFacts ==
  ASSUME NEW n \in Nat, NEW a \in Array(n)
  PROVE  /\ Strings(a) \in Seq({stringify_hex(w) : w \in Word})
         /\ Malformed \notin Range(Strings(a))
         /\ Words(Strings(a)) = a
<1>1. /\ DOMAIN a = 1 .. n /\ a = [i \in 1 .. n |-> a[i]]
      /\ \A i \in 1 .. n : a[i] \in Word
  BY ArrayFacts DEF Array
<1>2. Strings(a) = [i \in 1 .. n |-> stringify_hex(a[i])]
  BY <1>1 DEF Strings
<1>3. Strings(a) \in [1 .. n -> {stringify_hex(w) : w \in Word}]
  BY <1>1, <1>2
<1>4. Malformed \notin Range(Strings(a))
  BY <1>1, <1>2, HexAssumption DEF Range
<1>5. Words(Strings(a)) = a
  <2>1. \A w : parse_hex(stringify_hex(w)) = w
    BY DEF parse_hex, stringify_hex
  <2>2. Words(Strings(a)) = [i \in 1 .. n |-> a[i]]
    BY <1>2, <2>1 DEF Words
  <2> QED
    BY <1>1, <2>2
<1>6. Strings(a) \in Seq({stringify_hex(w) : w \in Word})
  BY <1>3
<1> QED
  BY <1>4, <1>5, <1>6

(* Two strings of words.                                                   *)
LEMMA PairFacts ==
  ASSUME NEW v \in Word, NEW w \in Word
  PROVE  /\ <<stringify_hex(v), stringify_hex(w)>> \in Seq({stringify_hex(u) : u \in Word})
         /\ Malformed \notin Range(<<stringify_hex(v), stringify_hex(w)>>)
<1>1. stringify_hex(v) # Malformed /\ stringify_hex(w) # Malformed
  BY HexAssumption
<1> HIDE DEF stringify_hex
<1>2. Malformed \notin Range(<<stringify_hex(v), stringify_hex(w)>>)
  BY <1>1 DEF Range
<1> QED
  BY <1>2

(* parse_hex undoes stringify_hex.                                         *)
LEMMA HexFacts == \A w : parse_hex(stringify_hex(w)) = w
  BY DEF parse_hex, stringify_hex

-------------------------------------------------------------------------------
(* A wallet file's lines: wallet_load_construct undoes Line.               *)

(* The kinds of the constructs.                                            *)
LEMMA KindFacts ==
  ASSUME NEW c \in Constructs
  PROVE  /\ c \in Key \/ c \in Stack \/ c \in Transaction \/ c \in Decider
            \/ c \in MerkleSegment \/ c \in UnsignedMerkleSegment
         /\ c.kind \in Kinds
<1>1. c \in Key \/ c \in Stack \/ c \in Transaction \/ c \in Decider
      \/ c \in MerkleSegment \/ c \in UnsignedMerkleSegment
  BY ConstructAssumption
<1> QED
  BY <1>1 DEF Key, Stack, Transaction, Decider, MerkleSegment, UnsignedMerkleSegment, Kinds

(* A key's line is its private part.                                       *)
LEMMA KeyLine ==
  ASSUME NEW c \in Key PROVE wallet_load_construct(Line(c)) = c
<1>1. c.kind = "key" /\ c.Private \in Array(KeyLen) /\ c = [kind |-> "key", Private |-> c.Private]
  BY DEF Key
<1>2. Len(c.Private) = KeyLen
  BY <1>1, ArrayFacts, WalletAssumption
<1>3. Line(c).prefix = "key" /\ Line(c).data = c.Private
  BY <1>1 DEF Line, wallet_export_key
<1>4. wallet_load_construct(Line(c)) = wallet_load_key(c.Private)
  BY <1>3 DEF wallet_load_construct
<1> QED
  BY <1>1, <1>2, <1>4 DEF wallet_load_key

(* A stack's line has three words.                                         *)
LEMMA StackLine ==
  ASSUME NEW c \in Stack PROVE wallet_load_construct(Line(c)) = c
<1>1. /\ c.kind = "stack"
      /\ c = [kind |-> "stack", Change |-> c.Change, Destination |-> c.Destination,
              Sum |-> c.Sum]
  BY DEF Stack
<1>2. Line(c).prefix = "stack" /\ Line(c).data = <<c.Change, c.Destination, c.Sum>>
  BY <1>1 DEF Line, wallet_export_stack
<1>3. wallet_load_construct(Line(c))
        = wallet_load_stack(<<c.Change, c.Destination, c.Sum>>)
  BY <1>2 DEF wallet_load_construct
<1> QED
  BY <1>1, <1>3 DEF wallet_load_stack

(* A transaction's signature follows its two addresses.                    *)
LEMMA TransactionLine ==
  ASSUME NEW c \in Transaction PROVE wallet_load_construct(Line(c)) = c
<1> DEFINE d == <<c.Source, c.Destination>> \o c.Signature
<1>1. /\ c.kind = "tx" /\ c.Signature \in Array(KeyLen)
      /\ c.Source \in Word /\ c.Destination \in Word
      /\ c = [kind |-> "tx", Source |-> c.Source, Destination |-> c.Destination,
              Signature |-> c.Signature]
  BY DEF Transaction
<1>2. /\ c.Signature \in Seq(Word) /\ Len(c.Signature) = KeyLen /\ KeyLen \in Nat
  BY <1>1, ArrayFacts, WalletAssumption
<1>3. /\ d \in Seq(Word) /\ Len(d) = KeyLen + 2
      /\ d[1] = c.Source /\ d[2] = c.Destination
      /\ \A i \in 1 .. KeyLen : d[i + 2] = c.Signature[i]
  BY <1>1, <1>2
<1>4. Line(c).prefix = "tx" /\ Line(c).data = d
  BY <1>1 DEF Line, wallet_export_transaction
<1> HIDE DEF d
<1>5. SubSeq(d, 3, KeyLen + 2) = c.Signature
  <2>1. /\ SubSeq(d, 3, KeyLen + 2) \in Seq(Word)
        /\ Len(SubSeq(d, 3, KeyLen + 2)) = KeyLen
        /\ \A i \in 1 .. KeyLen : SubSeq(d, 3, KeyLen + 2)[i] = d[i + 2]
    BY <1>2, <1>3
  <2> QED
    BY <1>2, <1>3, <2>1
<1>6. wallet_load_construct(Line(c)) = wallet_load_transaction(d)
  BY <1>4 DEF wallet_load_construct
<1> QED
  BY <1>1, <1>3, <1>5, <1>6 DEF wallet_load_transaction

(* A decider's line is in the old format, and read as such.                *)
LEMMA DeciderLine ==
  ASSUME NEW c \in Decider PROVE wallet_load_construct(Line(c)) = c
<1> DEFINE d == <<Zero>> \o c.Private
<1>1. /\ c.kind = "decider" /\ c.Private \in Array(2)
      /\ c = [kind |-> "decider", Private |-> c.Private]
  BY DEF Decider
<1>2. c.Private \in Seq(Word) /\ Len(c.Private) = 2 /\ Zero \in Word
  BY <1>1, ArrayFacts, WalletAssumption
<1>3. /\ d \in Seq(Word) /\ Len(d) = 3
      /\ d[2] = c.Private[1] /\ d[3] = c.Private[2]
  <2> DEFINE z == <<Zero>>
  <2>1. z \in Seq(Word) /\ Len(z) = 1
    BY <1>2
  <2> HIDE DEF z
  <2>2. z \in Seq(Word) /\ c.Private \in Seq(Word)
    BY <1>2, <2>1
  <2>3. /\ z \o c.Private \in Seq(Word) /\ Len(z \o c.Private) = Len(z) + Len(c.Private)
        /\ \A i \in 1 .. Len(c.Private) : (z \o c.Private)[i + Len(z)] = c.Private[i]
    BY <2>2, ConcatFacts
  <2>4. d = z \o c.Private
    BY DEF z
  <2> HIDE DEF d
  <2> QED
    BY <1>2, <2>1, <2>3, <2>4
<1>4. Line(c).prefix = "decider" /\ Line(c).data = d
  BY <1>1 DEF Line, wallet_export_decider
<1> HIDE DEF d
<1>5. SubSeq(d, 2, 3) = c.Private
  <2>1. /\ SubSeq(d, 2, 3) \in Seq(Word) /\ Len(SubSeq(d, 2, 3)) = 2
        /\ \A i \in 1 .. 2 : SubSeq(d, 2, 3)[i] = d[i + 1]
    <3>1. /\ SubSeq(d, 1 + 1, 1 + 2) \in Seq(Word) /\ Len(SubSeq(d, 1 + 1, 1 + 2)) = 2
          /\ \A i \in 1 .. 2 : SubSeq(d, 1 + 1, 1 + 2)[i] = d[i + 1]
      <4>1. d \in Seq(Word) /\ 1 + 2 <= Len(d) /\ 1 \in Nat /\ 2 \in Nat
        BY <1>3
      <4> QED
        BY <4>1, SliceFacts
    <3> QED
      BY <3>1
  <2>2. \A i \in 1 .. 2 : d[i + 1] = c.Private[i]
    BY <1>3
  <2> QED
    BY <1>2, <2>1, <2>2
<1>6. wallet_load_construct(Line(c)) = wallet_load_decider(d)
  BY <1>4 DEF wallet_load_construct
<1> QED
  BY <1>1, <1>3, <1>5, <1>6 DEF wallet_load_decider

(* A merkle segment: tips, signature, branches, leaf and next.             *)
LEMMA MerkleLine ==
  ASSUME NEW c \in MerkleSegment PROVE wallet_load_construct(Line(c)) = c
<1> DEFINE n == BranchLen
           a == c.Tips \o c.Signature
           b == a \o c.Branches
           d == b \o <<c.Leaf, c.Next>>
<1>1. /\ c.kind = "merkle" /\ c.Tips \in Array(2) /\ c.Signature \in Array(2)
      /\ c.Branches \in Array(BranchLen) /\ c.Leaf \in Word /\ c.Next \in Word
      /\ c = [kind |-> "merkle", Tips |-> c.Tips, Signature |-> c.Signature,
              Branches |-> c.Branches, Leaf |-> c.Leaf, Next |-> c.Next]
  BY DEF MerkleSegment
<1>2. /\ c.Tips \in Seq(Word) /\ Len(c.Tips) = 2
      /\ c.Signature \in Seq(Word) /\ Len(c.Signature) = 2
      /\ c.Branches \in Seq(Word) /\ Len(c.Branches) = n /\ n \in Nat
  BY <1>1, ArrayFacts, WalletAssumption
<1>3. /\ a \in Seq(Word) /\ Len(a) = 4
      /\ a[1] = c.Tips[1] /\ a[2] = c.Tips[2]
      /\ a[3] = c.Signature[1] /\ a[4] = c.Signature[2]
  <2> DEFINE t == c.Tips
             g == c.Signature
  <2>1. t \in Seq(Word) /\ g \in Seq(Word)
    BY <1>2
  <2> HIDE DEF t, g
  <2>2. /\ t \o g \in Seq(Word) /\ Len(t \o g) = Len(t) + Len(g)
        /\ \A i \in 1 .. Len(t) : (t \o g)[i] = t[i]
        /\ \A i \in 1 .. Len(g) : (t \o g)[i + Len(t)] = g[i]
    BY <2>1, ConcatFacts
  <2>3. a = t \o g
    BY DEF t, g
  <2> HIDE DEF a
  <2>4. Len(t) = 2 /\ Len(g) = 2
    BY <1>2 DEF t, g
  <2>5. a \in Seq(Word) /\ Len(a) = 4 /\ a[1] = t[1] /\ a[2] = t[2]
    BY <2>2, <2>3, <2>4
  <2>6. a[1 + 2] = g[1] /\ a[2 + 2] = g[2]
    <3>1. \A i \in 1 .. 2 : a[i + 2] = g[i]
      BY <2>2, <2>3, <2>4
    <3> QED
      BY <3>1
  <2> QED
    BY <2>5, <2>6 DEF t, g
<1> HIDE DEF a
<1>4. /\ b \in Seq(Word) /\ Len(b) = n + 4
      /\ \A i \in 1 .. 4 : b[i] = a[i]
      /\ \A i \in 1 .. n : b[i + 4] = c.Branches[i]
  <2>1. a \in Seq(Word) /\ c.Branches \in Seq(Word)
    BY <1>2, <1>3
  <2>2. /\ b \in Seq(Word) /\ Len(b) = Len(a) + Len(c.Branches)
        /\ \A i \in 1 .. Len(a) : b[i] = a[i]
        /\ \A i \in 1 .. Len(c.Branches) : b[i + Len(a)] = c.Branches[i]
    BY <2>1, ConcatFacts
  <2> HIDE DEF b
  <2> QED
    BY <1>2, <1>3, <2>2
<1> HIDE DEF b
<1>5. /\ d \in Seq(Word) /\ Len(d) = n + 6
      /\ \A i \in 1 .. n + 4 : d[i] = b[i]
      /\ d[n + 5] = c.Leaf /\ d[n + 6] = c.Next
  BY <1>1, <1>2, <1>4
<1>6. Line(c).prefix = "merkle" /\ Line(c).data = d
  BY <1>1 DEF Line, wallet_export_merkle_segment, a, b
<1> HIDE DEF d
<1>7. SubSeq(d, 1, 2) = c.Tips
  <2>1. /\ SubSeq(d, 1, 2) \in Seq(Word) /\ Len(SubSeq(d, 1, 2)) = 2
        /\ \A i \in 1 .. 2 : SubSeq(d, 1, 2)[i] = d[i + 0]
    <3>1. /\ SubSeq(d, 0 + 1, 0 + 2) \in Seq(Word)
          /\ Len(SubSeq(d, 0 + 1, 0 + 2)) = 2
          /\ \A i \in 1 .. 2 : SubSeq(d, 0 + 1, 0 + 2)[i] = d[i + 0]
      <4>1. d \in Seq(Word) /\ 0 \in Nat /\ 2 \in Nat
        BY <1>5
      <4>2. 0 + 2 <= Len(d)
        BY <1>2, <1>5
      <4> QED
        BY <4>1, <4>2, SliceFacts
    <3> QED
      BY <3>1
  <2>2. \A i \in 1 .. 2 : d[i + 0] = c.Tips[i]
    BY <1>2, <1>3, <1>4, <1>5
  <2> QED
    BY <1>2, <2>1, <2>2
<1>8. SubSeq(d, 3, 4) = c.Signature
  <2>1. /\ SubSeq(d, 3, 4) \in Seq(Word) /\ Len(SubSeq(d, 3, 4)) = 2
        /\ \A i \in 1 .. 2 : SubSeq(d, 3, 4)[i] = d[i + 2]
    <3>1. /\ SubSeq(d, 2 + 1, 2 + 2) \in Seq(Word)
          /\ Len(SubSeq(d, 2 + 1, 2 + 2)) = 2
          /\ \A i \in 1 .. 2 : SubSeq(d, 2 + 1, 2 + 2)[i] = d[i + 2]
      <4>1. d \in Seq(Word) /\ 2 \in Nat /\ 2 \in Nat
        BY <1>5
      <4>2. 2 + 2 <= Len(d)
        BY <1>2, <1>5
      <4> QED
        BY <4>1, <4>2, SliceFacts
    <3> QED
      BY <3>1
  <2>2. \A i \in 1 .. 2 : d[i + 2] = c.Signature[i]
    BY <1>2, <1>3, <1>4, <1>5
  <2> QED
    BY <1>2, <2>1, <2>2
<1>9. SubSeq(d, 5, n + 4) = c.Branches
  <2>1. /\ SubSeq(d, 5, n + 4) \in Seq(Word) /\ Len(SubSeq(d, 5, n + 4)) = n
        /\ \A i \in 1 .. n : SubSeq(d, 5, n + 4)[i] = d[i + 4]
    <3>1. /\ SubSeq(d, 4 + 1, 4 + n) \in Seq(Word) /\ Len(SubSeq(d, 4 + 1, 4 + n)) = n
          /\ \A i \in 1 .. n : SubSeq(d, 4 + 1, 4 + n)[i] = d[i + 4]
      <4>1. d \in Seq(Word) /\ 4 \in Nat /\ n \in Nat
        BY <1>2, <1>5
      <4>2. 4 + n <= Len(d)
        BY <1>2, <1>5
      <4> HIDE DEF n
      <4> QED
        BY <4>1, <4>2, SliceFacts
    <3>2. 4 + n = n + 4
      BY <1>2
    <3> QED
      BY <3>1, <3>2
  <2>2. \A i \in 1 .. n : d[i + 4] = c.Branches[i]
    BY <1>2, <1>4, <1>5
  <2> QED
    BY <1>2, <2>1, <2>2
<1>10. wallet_load_construct(Line(c)) = wallet_load_merkle_segment(d)
  BY <1>6 DEF wallet_load_construct
<1> QED
  BY <1>1, <1>5, <1>7, <1>8, <1>9, <1>10 DEF wallet_load_merkle_segment

(* An unsigned merkle segment: tips, next and root.                        *)
LEMMA UnsignedMerkleLine ==
  ASSUME NEW c \in UnsignedMerkleSegment PROVE wallet_load_construct(Line(c)) = c
<1> DEFINE d == c.Tips \o <<c.Next, c.Root>>
<1>1. /\ c.kind = "unsigned_merkle" /\ c.Tips \in Array(2)
      /\ c.Next \in Word /\ c.Root \in Word
      /\ c = [kind |-> "unsigned_merkle", Tips |-> c.Tips, Next |-> c.Next,
              Root |-> c.Root]
  BY DEF UnsignedMerkleSegment
<1>2. c.Tips \in Seq(Word) /\ Len(c.Tips) = 2
  BY <1>1, ArrayFacts
<1>3. /\ d \in Seq(Word) /\ Len(d) = 4
      /\ d[1] = c.Tips[1] /\ d[2] = c.Tips[2] /\ d[3] = c.Next /\ d[4] = c.Root
  <2> DEFINE e == <<c.Next, c.Root>>
  <2>1. e \in Seq(Word) /\ Len(e) = 2 /\ e[1] = c.Next /\ e[2] = c.Root
    BY <1>1
  <2> HIDE DEF e
  <2>2. c.Tips \in Seq(Word) /\ e \in Seq(Word)
    BY <1>2, <2>1
  <2>3. /\ c.Tips \o e \in Seq(Word) /\ Len(c.Tips \o e) = Len(c.Tips) + Len(e)
        /\ \A i \in 1 .. Len(c.Tips) : (c.Tips \o e)[i] = c.Tips[i]
        /\ \A i \in 1 .. Len(e) : (c.Tips \o e)[i + Len(c.Tips)] = e[i]
    BY <2>2, ConcatFacts
  <2>4. d = c.Tips \o e
    BY DEF e
  <2> HIDE DEF d
  <2> QED
    BY <1>2, <2>1, <2>3, <2>4
<1>4. Line(c).prefix = "unsigned_merkle" /\ Line(c).data = d
  BY <1>1 DEF Line, wallet_export_unsigned_merkle_segment
<1> HIDE DEF d
<1>5. SubSeq(d, 1, 2) = c.Tips
  <2>1. /\ SubSeq(d, 1, 2) \in Seq(Word) /\ Len(SubSeq(d, 1, 2)) = 2
        /\ \A i \in 1 .. 2 : SubSeq(d, 1, 2)[i] = d[i + 0]
    <3>1. d \in Seq(Word) /\ 0 + 2 <= Len(d)
      BY <1>3
    <3>2. /\ SubSeq(d, 0 + 1, 0 + 2) \in Seq(Word) /\ Len(SubSeq(d, 0 + 1, 0 + 2)) = 2
          /\ \A i \in 1 .. 2 : SubSeq(d, 0 + 1, 0 + 2)[i] = d[i + 0]
      BY <3>1, SliceFacts
    <3> QED
      BY <3>2
  <2>2. \A i \in 1 .. 2 : d[i + 0] = c.Tips[i]
    BY <1>3
  <2> QED
    BY <1>2, <2>1, <2>2
<1>6. wallet_load_construct(Line(c)) = wallet_load_unsigned_merkle_segment(d)
  BY <1>4 DEF wallet_load_construct
<1> QED
  BY <1>1, <1>3, <1>5, <1>6 DEF wallet_load_unsigned_merkle_segment

(* Every construct, saved as a line, is the construct that line loads, for *)
(* all six kinds and every length of keys and branches (wallet_export,     *)
(* wallet_load_construct).                                                 *)
THEOREM LineRestores ==
  \A c \in Constructs : wallet_load_construct(Line(c)) = c
  BY KindFacts, KeyLine, StackLine, TransactionLine, DeciderLine, MerkleLine,
     UnsignedMerkleLine

-------------------------------------------------------------------------------
(* The JSON interface: Parse undoes Entry.                                 *)

(* The public address of a key is not looked at, only that it is hex.      *)
LEMMA KeyEntry ==
  ASSUME NEW c \in Constructs, c \in Key PROVE Parse(Entry(c)) = c
<1>1. c.kind = "key" /\ c.Private \in Array(KeyLen) /\ c = [kind |-> "key", Private |-> c.Private]
  BY DEF Key
<1> DEFINE j == wallet_stringify_key(c)
<1>2. j.Public = stringify_hex(Public(c.Private)) /\ j.Private = Strings(c.Private)
  BY DEF wallet_stringify_key
<1>3. Entry(c).kind = "key" /\ Entry(c).json = j
  BY <1>1 DEF Entry
<1> HIDE DEF j
<1>4. j.Public # Malformed
  BY <1>2, HexAssumption
<1>5. Malformed \notin Range(j.Private) /\ Words(j.Private) = c.Private
  BY <1>1, <1>2, StringsFacts, WalletAssumption
<1>6. Parse(Entry(c)) = wallet_parse_key(j)
  BY <1>3 DEF Parse
<1> QED
  BY <1>1, <1>4, <1>5, <1>6 DEF wallet_parse_key, Parses

(* The two addresses and the sum of a stack.                               *)
LEMMA StackEntry ==
  ASSUME NEW c \in Stack PROVE Parse(Entry(c)) = c
<1>1. /\ c.kind = "stack" /\ c.Change \in Word /\ c.Destination \in Word
      /\ c = [kind |-> "stack", Change |-> c.Change, Destination |-> c.Destination,
              Sum |-> c.Sum]
  BY DEF Stack
<1> DEFINE j == wallet_stringify_stack(c)
<1>2. /\ j.Change = stringify_hex(c.Change)
      /\ j.Destination = stringify_hex(c.Destination) /\ j.Sum = c.Sum
  BY DEF wallet_stringify_stack
<1>3. Entry(c).kind = "stack" /\ Entry(c).json = j
  BY <1>1 DEF Entry
<1> HIDE DEF j
<1>4. Malformed \notin Range(<<j.Destination, j.Change>>)
  BY <1>1, <1>2, PairFacts
<1>5. parse_hex(j.Change) = c.Change /\ parse_hex(j.Destination) = c.Destination
  BY <1>1, <1>2, HexFacts
<1>6. Parse(Entry(c)) = wallet_parse_stack(j)
  BY <1>3 DEF Parse
<1> QED
  BY <1>1, <1>2, <1>4, <1>5, <1>6 DEF wallet_parse_stack, Parses

(* The addresses and the signature of a transaction.                       *)
LEMMA TransactionEntry ==
  ASSUME NEW c \in Transaction PROVE Parse(Entry(c)) = c
<1>1. /\ c.kind = "tx" /\ c.Signature \in Array(KeyLen)
      /\ c.Source \in Word /\ c.Destination \in Word
      /\ c = [kind |-> "tx", Source |-> c.Source, Destination |-> c.Destination,
              Signature |-> c.Signature]
  BY DEF Transaction
<1> DEFINE j == wallet_stringify_transaction(c)
<1>2. /\ j.Source = stringify_hex(c.Source)
      /\ j.Destination = stringify_hex(c.Destination)
      /\ j.Signature = Strings(c.Signature)
  BY DEF wallet_stringify_transaction
<1>3. Entry(c).kind = "tx" /\ Entry(c).json = j
  BY <1>1 DEF Entry
<1> HIDE DEF j
<1>4. Malformed \notin Range(<<j.Destination, j.Source>> \o j.Signature)
  <2> DEFINE H == {stringify_hex(w) : w \in Word}
             s == <<j.Destination, j.Source>>
  <2>1. s \in Seq(H) /\ Malformed \notin Range(s)
    BY <1>1, <1>2, PairFacts
  <2>2. j.Signature \in Seq(H) /\ Malformed \notin Range(j.Signature)
    BY <1>1, <1>2, StringsFacts, WalletAssumption
  <2> HIDE DEF H, s
  <2>3. Malformed \notin Range(s \o j.Signature)
    BY <2>1, <2>2, ConcatRange
  <2> QED
    BY <2>3 DEF s
<1>5. /\ parse_hex(j.Source) = c.Source /\ parse_hex(j.Destination) = c.Destination
      /\ Words(j.Signature) = c.Signature
  BY <1>1, <1>2, HexFacts, StringsFacts, WalletAssumption
<1>6. Parse(Entry(c)) = wallet_parse_transaction(j)
  BY <1>3 DEF Parse
<1> QED
  BY <1>1, <1>4, <1>5, <1>6 DEF wallet_parse_transaction, Parses

(* The private part of a decider.                                          *)
LEMMA DeciderEntry ==
  ASSUME NEW c \in Decider PROVE Parse(Entry(c)) = c
<1>1. /\ c.kind = "decider" /\ c.Private \in Array(2)
      /\ c = [kind |-> "decider", Private |-> c.Private]
  BY DEF Decider
<1> DEFINE j == wallet_stringify_decider(c)
<1>2. j.Private = Strings(c.Private)
  BY DEF wallet_stringify_decider
<1>3. Entry(c).kind = "decider" /\ Entry(c).json = j
  BY <1>1 DEF Entry
<1> HIDE DEF j
<1>4. Malformed \notin Range(j.Private) /\ Words(j.Private) = c.Private
  BY <1>1, <1>2, StringsFacts
<1>5. Parse(Entry(c)) = wallet_parse_decider(j)
  BY <1>3 DEF Parse
<1> QED
  BY <1>1, <1>4, <1>5 DEF wallet_parse_decider, Parses

(* The five fields of a merkle segment.                                    *)
LEMMA MerkleEntry ==
  ASSUME NEW c \in MerkleSegment PROVE Parse(Entry(c)) = c
<1>1. /\ c.kind = "merkle" /\ c.Tips \in Array(2) /\ c.Signature \in Array(2)
      /\ c.Branches \in Array(BranchLen) /\ c.Leaf \in Word /\ c.Next \in Word
      /\ c = [kind |-> "merkle", Tips |-> c.Tips, Signature |-> c.Signature,
              Branches |-> c.Branches, Leaf |-> c.Leaf, Next |-> c.Next]
  BY DEF MerkleSegment
<1> DEFINE j == wallet_stringify_merkle_segment(c)
<1>2. /\ j.Tips = Strings(c.Tips) /\ j.Signature = Strings(c.Signature)
      /\ j.Branches = Strings(c.Branches)
      /\ j.Leaf = stringify_hex(c.Leaf) /\ j.Next = stringify_hex(c.Next)
  BY DEF wallet_stringify_merkle_segment
<1>3. Entry(c).kind = "merkle" /\ Entry(c).json = j
  BY <1>1 DEF Entry
<1> HIDE DEF j
<1>4. Malformed \notin Range(j.Tips \o j.Signature \o <<j.Leaf, j.Next>> \o j.Branches)
  <2> DEFINE H == {stringify_hex(w) : w \in Word}
             s == <<j.Leaf, j.Next>>
  <2>1. s \in Seq(H) /\ Malformed \notin Range(s)
    BY <1>1, <1>2, PairFacts
  <2>2. /\ j.Tips \in Seq(H) /\ Malformed \notin Range(j.Tips)
        /\ j.Signature \in Seq(H) /\ Malformed \notin Range(j.Signature)
        /\ j.Branches \in Seq(H) /\ Malformed \notin Range(j.Branches)
    BY <1>1, <1>2, StringsFacts, WalletAssumption
  <2> HIDE DEF H, s
  <2>3. j.Tips \o j.Signature \in Seq(H) /\ Malformed \notin Range(j.Tips \o j.Signature)
    BY <2>2, ConcatRange
  <2>4. /\ j.Tips \o j.Signature \o s \in Seq(H)
        /\ Malformed \notin Range(j.Tips \o j.Signature \o s)
    BY <2>1, <2>3, ConcatRange
  <2>5. Malformed \notin Range(j.Tips \o j.Signature \o s \o j.Branches)
    BY <2>2, <2>4, ConcatRange
  <2> QED
    BY <2>5 DEF s
<1>5. /\ Words(j.Tips) = c.Tips /\ Words(j.Signature) = c.Signature
      /\ Words(j.Branches) = c.Branches
      /\ parse_hex(j.Leaf) = c.Leaf /\ parse_hex(j.Next) = c.Next
  BY <1>1, <1>2, HexFacts, StringsFacts, WalletAssumption
<1>6. Parse(Entry(c)) = wallet_parse_merkle_segment(j)
  BY <1>3 DEF Parse
<1> QED
  BY <1>1, <1>4, <1>5, <1>6 DEF wallet_parse_merkle_segment, Parses

(* The three fields of an unsigned merkle segment.                         *)
LEMMA UnsignedMerkleEntry ==
  ASSUME NEW c \in UnsignedMerkleSegment PROVE Parse(Entry(c)) = c
<1>1. /\ c.kind = "unsigned_merkle" /\ c.Tips \in Array(2)
      /\ c.Next \in Word /\ c.Root \in Word
      /\ c = [kind |-> "unsigned_merkle", Tips |-> c.Tips, Next |-> c.Next,
              Root |-> c.Root]
  BY DEF UnsignedMerkleSegment
<1> DEFINE j == wallet_stringify_unsigned_merkle_segment(c)
<1>2. /\ j.Tips = Strings(c.Tips)
      /\ j.Next = stringify_hex(c.Next) /\ j.Root = stringify_hex(c.Root)
  BY DEF wallet_stringify_unsigned_merkle_segment
<1>3. Entry(c).kind = "unsigned_merkle" /\ Entry(c).json = j
  BY <1>1 DEF Entry
<1> HIDE DEF j
<1>4. Malformed \notin Range(j.Tips \o <<j.Next, j.Root>>)
  <2> DEFINE H == {stringify_hex(w) : w \in Word}
             s == <<j.Next, j.Root>>
  <2>1. s \in Seq(H) /\ Malformed \notin Range(s)
    BY <1>1, <1>2, PairFacts
  <2>2. j.Tips \in Seq(H) /\ Malformed \notin Range(j.Tips)
    BY <1>1, <1>2, StringsFacts
  <2> HIDE DEF H, s
  <2>3. Malformed \notin Range(j.Tips \o s)
    BY <2>1, <2>2, ConcatRange
  <2> QED
    BY <2>3 DEF s
<1>5. /\ Words(j.Tips) = c.Tips
      /\ parse_hex(j.Next) = c.Next /\ parse_hex(j.Root) = c.Root
  BY <1>1, <1>2, HexFacts, StringsFacts
<1>6. Parse(Entry(c)) = wallet_parse_unsigned_merkle_segment(j)
  BY <1>3 DEF Parse
<1> QED
  BY <1>1, <1>4, <1>5, <1>6 DEF wallet_parse_unsigned_merkle_segment, Parses

(* Every construct, listed as an entry of a JSON answer, is the construct  *)
(* that entry loads, for all six kinds (wallet_stringify, the Load calls   *)
(* of the control interface).                                              *)
THEOREM EntryRestores ==
  \A c \in Constructs : Parse(Entry(c)) = c
  BY KindFacts, KeyEntry, StackEntry, TransactionEntry, DeciderEntry, MerkleEntry,
     UnsignedMerkleEntry

-------------------------------------------------------------------------------
(* What steps leave alone.                                                 *)

Exporting == {"SaveWallet", "GetWallet", "GetCoinHistory"}

(* The libcomb call only adds.                                             *)
LEMMA LoadAdds ==
  ASSUME NEW c, LibLoad(c), TypeOK
  PROVE  loaded \subseteq loaded' /\ loaded' \subseteq Constructs \ Rejected
  BY DEF LibLoad, TypeOK

(* Answers are not disturbed by what is loaded meanwhile.                  *)
LEMMA KeepAnswers ==
  ASSUME AnswerInv, UNCHANGED export, loaded \subseteq loaded',
         \A p \in Callers : pc'[p] \in Exporting => pc[p] = pc'[p]
  PROVE  AnswerInv'
<1> USE DEF Exporting
<1>1. kinds' = kinds /\ want' = want /\ reply' = reply /\ before' = before
  BY DEF export
<1> SUFFICES ASSUME NEW p \in Callers, pc'[p] \in Exporting
             PROVE  /\ \A r \in reply'[p] : \E c \in loaded' \cap want'[p] : r = Form(pc'[p], c)
                    /\ \A c \in before'[p] \cap want'[p] :
                         c.kind \in Range(kinds'[p]) \/ Form(pc'[p], c) \in reply'[p]
  BY DEF AnswerInv
<1>2. pc[p] = pc'[p] /\ pc[p] \in Exporting
  OBVIOUS
<1>3. /\ \A r \in reply[p] : \E c \in loaded \cap want[p] : r = Form(pc[p], c)
      /\ \A c \in before[p] \cap want[p] :
           c.kind \in Range(kinds[p]) \/ Form(pc[p], c) \in reply[p]
  BY <1>2 DEF AnswerInv
<1> QED
  BY <1>1, <1>2, <1>3

(* Nor is what the log has called loaded.                                  *)
LEMMA KeepLogged ==
  ASSUME LoggedIsLoaded, said' = said, loaded \subseteq loaded'
  PROVE  LoggedIsLoaded'
  BY DEF LoggedIsLoaded

(* The status line is not disturbed by a goroutine that loads no wallet.   *)
LEMMA KeepStatus ==
  ASSUME StatusInv, UNCHANGED shared,
         \A p \in Callers : pc[p] \in {"lock", "lines", "unlocked", "finish"} => pc'[p] = pc[p]
  PROVE  StatusInv'
<1>1. status' = status /\ statusLock' = statusLock /\ value' = value /\ todo' = todo
  BY DEF shared
<1>2. \A x \in Callers \cup {Main} :
        value'[x] = "Loading Wallet..." /\ todo'[x] # {} => x \in Callers /\ pc'[x] = "lock"
  BY <1>1 DEF StatusInv
<1>3. statusLock' => \E q \in Callers : pc'[q] = "lines"
  BY <1>1 DEF StatusInv
<1>4. ASSUME NEW w \in {"data", "len"}, status'[w] = "Loading Wallet..."
      PROVE  \E q \in Callers : \/ pc'[q] \in {"lock", "lines", "unlocked"}
                                \/ pc'[q] = "finish" /\ w \in todo'[q]
  <2>1. PICK q \in Callers : \/ pc[q] \in {"lock", "lines", "unlocked"}
                             \/ pc[q] = "finish" /\ w \in todo[q]
    BY <1>1, <1>4 DEF StatusInv
  <2>2. pc'[q] = pc[q]
    BY <2>1
  <2> QED
    BY <1>1, <2>1, <2>2
<1> QED
  BY <1>2, <1>3, <1>4 DEF StatusInv

(* The strings of a type.                                                  *)
LEMMA KindOrderFacts ==
  /\ KindOrder \in Seq(Kinds) /\ Len(KindOrder) = 6
  /\ \A k \in Kinds : k \in Range(KindOrder)
<1>1. KindOrder \in Seq(Kinds) /\ Len(KindOrder) = 6
  BY DEF KindOrder, Kinds
<1>2. /\ DOMAIN KindOrder = 1 .. 6
      /\ KindOrder[1] = "key" /\ KindOrder[2] = "stack" /\ KindOrder[3] = "tx"
      /\ KindOrder[4] = "decider" /\ KindOrder[5] = "merkle"
      /\ KindOrder[6] = "unsigned_merkle"
  BY DEF KindOrder
<1>3. \A i \in 1 .. 6 : KindOrder[i] \in Range(KindOrder)
  BY <1>2 DEF Range
<1>4. \A k \in Kinds : k \in Range(KindOrder)
  BY <1>2, <1>3 DEF Kinds
<1> QED
  BY <1>1, <1>4

(* The end of a sequence.                                                  *)
LEMMA SuffixFacts ==
  ASSUME NEW S, NEW s \in Seq(S), NEW k \in 1 .. Len(s) + 1
  PROVE  SubSeq(s, k, Len(s)) \in Seq(S) /\ Len(SubSeq(s, k, Len(s))) = Len(s) + 1 - k
  OBVIOUS

(* What is left of the order after its first kind is done.                 *)
LEMMA KindsLeft ==
  ASSUME NEW s \in {SubSeq(KindOrder, k, 6) : k \in 1 .. 7}, s # <<>>
  PROVE  /\ Tail(s) \in {SubSeq(KindOrder, k, 6) : k \in 1 .. 7}
         /\ Range(s) \subseteq {Head(s)} \cup Range(Tail(s))
<1>1. PICK k \in 1 .. 7 : s = SubSeq(KindOrder, k, 6)
  OBVIOUS
<1>2. s \in Seq(Kinds) /\ Len(s) = 7 - k
  <2>1. KindOrder \in Seq(Kinds) /\ Len(KindOrder) = 6 /\ k \in 1 .. Len(KindOrder) + 1
    BY KindOrderFacts
  <2>2. /\ SubSeq(KindOrder, k, Len(KindOrder)) \in Seq(Kinds)
        /\ Len(SubSeq(KindOrder, k, Len(KindOrder))) = Len(KindOrder) + 1 - k
    BY <2>1, SuffixFacts
  <2> QED
    BY <1>1, <2>1, <2>2
<1>3. k < 7
  BY <1>1, <1>2
<1>4. Tail(s) = SubSeq(KindOrder, k + 1, 6)
  <2> HIDE DEF KindOrder
  <2>1. KindOrder \in Seq(Kinds) /\ Len(KindOrder) = 6
    BY KindOrderFacts
  <2> QED
    BY <1>1, <1>2, <1>3, <2>1
<1>5. Range(s) \subseteq {Head(s)} \cup Range(Tail(s))
  <2> SUFFICES ASSUME NEW i \in DOMAIN s PROVE s[i] \in {Head(s)} \cup Range(Tail(s))
    BY DEF Range
  <2>1. DOMAIN s = 1 .. Len(s) /\ Len(s) \in Nat
    BY <1>2
  <2>2. CASE i = 1
    BY <1>2, <2>2
  <2>3. CASE i # 1
    <3>1. i - 1 \in DOMAIN Tail(s) /\ Tail(s)[i - 1] = s[i]
      BY <1>2, <2>1, <2>3
    <3> QED
      BY <3>1 DEF Range
  <2> QED
    BY <2>2, <2>3
<1>6. \E j \in 1 .. 7 : Tail(s) = SubSeq(KindOrder, j, 6)
  <2>1. k + 1 \in 1 .. 7
    BY <1>3
  <2> QED
    BY <1>4, <2>1, Zenon
<1> QED
  BY <1>5, <1>6

(* A line with a prefix of the network gives a construct or an error.      *)
LEMMA LoadedKind ==
  ASSUME NEW l, l.prefix \in Kinds
  PROVE  wallet_load_construct(l).kind \in Kinds \cup {"error"}
<1> USE DEF Error, Kinds
<1>1. CASE l.prefix = "key"
  BY <1>1 DEF wallet_load_construct, wallet_load_key
<1>2. CASE l.prefix = "stack"
  BY <1>2 DEF wallet_load_construct, wallet_load_stack
<1>3. CASE l.prefix = "tx"
  BY <1>3 DEF wallet_load_construct, wallet_load_transaction
<1>4. CASE l.prefix = "decider"
  <2>1. wallet_load_construct(l) = wallet_load_decider(l.data)
    BY <1>4 DEF wallet_load_construct
  <2>2. CASE Len(l.data) = 3
    BY <2>1, <2>2 DEF wallet_load_decider
  <2>3. CASE Len(l.data) = 2
    BY <2>1, <2>3 DEF wallet_load_decider
  <2>4. CASE Len(l.data) # 3 /\ Len(l.data) # 2
    BY <2>1, <2>4 DEF wallet_load_decider
  <2> QED
    BY <2>2, <2>3, <2>4
<1>5. CASE l.prefix = "merkle"
  BY <1>5 DEF wallet_load_construct, wallet_load_merkle_segment
<1>6. CASE l.prefix = "unsigned_merkle"
  BY <1>6 DEF wallet_load_construct, wallet_load_unsigned_merkle_segment
<1> QED
  BY <1>1, <1>2, <1>3, <1>4, <1>5, <1>6

-------------------------------------------------------------------------------
(* The invariant holds initially and is kept by each action.               *)

(* Initially nothing is loaded and nobody calls.                           *)
LEMMA InitInv == Init => Inv
<1> SUFFICES ASSUME Init PROVE Inv
  OBVIOUS
<1>1. TypeOK
  <2>1. <<>> \in {SubSeq(KindOrder, k, 6) : k \in 1 .. 7}
    <3>1. KindOrder \in Seq(Kinds) /\ Len(KindOrder) = 6
      BY KindOrderFacts
    <3>2. SubSeq(KindOrder, 7, 6) = <<>>
      BY <3>1
    <3>3. 7 \in 1 .. 7
      OBVIOUS
    <3> QED
      BY <3>2, <3>3, Zenon
  <2>2. kinds \in [Callers -> {SubSeq(KindOrder, k, 6) : k \in 1 .. 7}]
    BY <2>1 DEF Init
  <2>3. text \in [Callers -> Seq(Lines)]
    BY DEF Init
  <2> QED
    BY <2>2, <2>3 DEF Init, TypeOK, Statuses
<1>2. StatusInv
  BY DEF Init, StatusInv
<1>3. AnswerInv
  BY DEF Init, AnswerInv
<1>4. LoggedIsLoaded
  BY DEF Init, LoggedIsLoaded
<1> QED
  BY <1>1, <1>2, <1>3, <1>4 DEF Inv

(* LoadKey, LoadStack, ...: one construct more.                            *)
LEMMA LoadConstructInv ==
  ASSUME Inv, NEW p \in Callers, LoadConstruct(p) PROVE Inv'
<1>1. /\ TypeOK /\ StatusInv /\ AnswerInv /\ LoggedIsLoaded
      /\ pc' = pc /\ UNCHANGED load /\ UNCHANGED export /\ UNCHANGED shared
  BY DEF Inv, LoadConstruct
<1>2. loaded \subseteq loaded' /\ loaded' \subseteq Constructs \ Rejected
  <2>1. PICK e \in Entries : LibLoad(Parse(e))
    BY DEF LoadConstruct
  <2> QED
    BY <1>1, <2>1, LoadAdds
<1>3. TypeOK'
  BY <1>1, <1>2 DEF TypeOK, load, export, shared
<1>4. StatusInv'
  BY <1>1, KeepStatus
<1>5. AnswerInv'
  BY <1>1, <1>2, KeepAnswers
<1>6. LoggedIsLoaded'
  BY <1>1, <1>2, KeepLogged DEF load
<1> QED
  BY <1>3, <1>4, <1>5, <1>6 DEF Inv

(* A wallet's load begins: the status is still to be written.              *)
LEMMA LoadWalletInv ==
  ASSUME Inv, NEW p \in Callers, LoadWallet(p) PROVE Inv'
<1>1. /\ TypeOK /\ StatusInv /\ AnswerInv /\ LoggedIsLoaded
      /\ loaded' = loaded /\ UNCHANGED export /\ status' = status
      /\ statusLock' = statusLock /\ pc[p] = "idle"
      /\ pc' = [pc EXCEPT ![p] = "lock"] /\ said' = [said EXCEPT ![p] = {}]
      /\ value' = [value EXCEPT ![p] = "Loading Wallet..."]
      /\ todo' = [todo EXCEPT ![p] = IF statusLock THEN {} ELSE {"data", "len"}]
  BY DEF Inv, LoadWallet, combcore_set_status
<1>2. PICK t \in Texts : text' = [text EXCEPT ![p] = t]
  BY DEF LoadWallet
<1>3. TypeOK'
  <2>1. text' \in [Callers -> Seq(Lines)]
    BY <1>1, <1>2, TextAssumption DEF TypeOK
  <2>2. said' \in [Callers -> SUBSET Lines]
    BY <1>1 DEF TypeOK
  <2>3. pc' \in [Callers -> {"idle", "lock", "lines", "unlocked", "finish",
                             "SaveWallet", "GetWallet", "GetCoinHistory"}]
    BY <1>1 DEF TypeOK
  <2>4. value' \in [Callers \cup {Main} -> Statuses]
    BY <1>1 DEF TypeOK, Statuses
  <2>5. todo' \in [Callers \cup {Main} -> SUBSET {"data", "len"}]
    BY <1>1 DEF TypeOK
  <2> QED
    BY <1>1, <2>1, <2>2, <2>3, <2>4, <2>5 DEF TypeOK, export
<1>4. /\ pc'[p] = "lock" /\ \A q \in Callers : q # p => pc'[q] = pc[q]
      /\ \A x \in Callers \cup {Main} : x # p => value'[x] = value[x] /\ todo'[x] = todo[x]
  BY <1>1 DEF TypeOK
<1>5. StatusInv'
  <2>1. \A x \in Callers \cup {Main} :
          value'[x] = "Loading Wallet..." /\ todo'[x] # {} => x \in Callers /\ pc'[x] = "lock"
    BY <1>1, <1>4 DEF StatusInv
  <2>2. statusLock' => \E q \in Callers : pc'[q] = "lines"
    BY <1>1, <1>4 DEF StatusInv
  <2>3. \A w \in {"data", "len"} : status'[w] = "Loading Wallet..." =>
          \E q \in Callers : \/ pc'[q] \in {"lock", "lines", "unlocked"}
                             \/ pc'[q] = "finish" /\ w \in todo'[q]
    BY <1>4
  <2> QED
    BY <2>1, <2>2, <2>3 DEF StatusInv
<1>6. AnswerInv'
  BY <1>1, <1>4, KeepAnswers DEF Exporting
<1>7. LoggedIsLoaded'
  BY <1>1 DEF LoggedIsLoaded, TypeOK
<1> QED
  BY <1>3, <1>5, <1>6, <1>7 DEF Inv

(* The status is locked.                                                   *)
LEMMA LockStatusInv ==
  ASSUME Inv, NEW p \in Callers, LockStatus(p) PROVE Inv'
<1>1. /\ TypeOK /\ StatusInv /\ AnswerInv /\ LoggedIsLoaded
      /\ loaded' = loaded /\ UNCHANGED load /\ UNCHANGED export /\ status' = status
      /\ value' = value /\ todo' = todo /\ statusLock' = TRUE
      /\ pc[p] = "lock" /\ todo[p] = {}
      /\ pc' = [pc EXCEPT ![p] = "lines"]
  BY DEF Inv, LockStatus
<1>2. TypeOK'
  <2>1. pc' \in [Callers -> {"idle", "lock", "lines", "unlocked", "finish",
                             "SaveWallet", "GetWallet", "GetCoinHistory"}]
    BY <1>1 DEF TypeOK
  <2> QED
    BY <1>1, <2>1 DEF TypeOK, export, load
<1>3. pc'[p] = "lines" /\ \A q \in Callers : q # p => pc'[q] = pc[q]
  BY <1>1 DEF TypeOK
<1>4. StatusInv'
  <2>1. \A x \in Callers \cup {Main} :
          value'[x] = "Loading Wallet..." /\ todo'[x] # {} => x \in Callers /\ pc'[x] = "lock"
    BY <1>1, <1>3 DEF StatusInv
  <2>2. statusLock' => \E q \in Callers : pc'[q] = "lines"
    BY <1>3
  <2>3. \A w \in {"data", "len"} : status'[w] = "Loading Wallet..." =>
          \E q \in Callers : \/ pc'[q] \in {"lock", "lines", "unlocked"}
                             \/ pc'[q] = "finish" /\ w \in todo'[q]
    BY <1>3
  <2> QED
    BY <2>1, <2>2, <2>3 DEF StatusInv
<1>5. AnswerInv'
  BY <1>1, <1>3, KeepAnswers DEF Exporting
<1>6. LoggedIsLoaded'
  BY <1>1, KeepLogged DEF load
<1> QED
  BY <1>2, <1>4, <1>5, <1>6 DEF Inv

(* One line is loaded and logged, or refused.                              *)
LEMMA LoadLineInv ==
  ASSUME Inv, NEW p \in Callers, LoadLine(p) PROVE Inv'
<1> DEFINE l == Head(text[p])
           c == wallet_load_construct(l)
<1>1. /\ TypeOK /\ StatusInv /\ AnswerInv /\ LoggedIsLoaded
      /\ pc' = pc /\ UNCHANGED export /\ UNCHANGED shared
      /\ text[p] # <<>> /\ LibLoad(c) /\ text' = [text EXCEPT ![p] = Tail(@)]
      /\ said' = [said EXCEPT ![p] = IF c = Error \/ c \in Rejected THEN @ ELSE @ \cup {l}]
  BY DEF Inv, LoadLine
<1>2. text[p] \in Seq(Lines) /\ l \in Lines /\ Tail(text[p]) \in Seq(Lines)
  BY <1>1 DEF TypeOK
<1> HIDE DEF l
<1>3. loaded \subseteq loaded' /\ loaded' \subseteq Constructs \ Rejected
  BY <1>1, LoadAdds
<1> HIDE DEF c
<1>4. TypeOK'
  <2>1. text' \in [Callers -> Seq(Lines)]
    BY <1>1, <1>2 DEF TypeOK
  <2>2. said' \in [Callers -> SUBSET Lines]
    BY <1>1, <1>2 DEF TypeOK
  <2> QED
    BY <1>1, <1>3, <2>1, <2>2 DEF TypeOK, export, shared
<1>5. StatusInv'
  BY <1>1, KeepStatus
<1>6. AnswerInv'
  BY <1>1, <1>3, KeepAnswers
<1>7. LoggedIsLoaded'
  <2> SUFFICES ASSUME NEW q \in Callers, NEW m \in said'[q], m.prefix \in Kinds
               PROVE  wallet_load_construct(m) \in loaded'
    BY DEF LoggedIsLoaded
  <2>1. CASE m \in said[q]
    BY <1>1, <1>3, <2>1 DEF LoggedIsLoaded
  <2>2. CASE m \notin said[q]
    <3>1. m = l /\ c # Error /\ c \notin Rejected
      BY <1>1, <2>2 DEF TypeOK
    <3>2. c # Nothing
      <4>1. c.kind \in Kinds \cup {"error"}
        BY <1>2, <3>1, LoadedKind DEF c
      <4> QED
        BY <4>1 DEF Nothing, Kinds
    <3>3. c \in Constructs \ Rejected
      BY <1>2, <3>1, <3>2, LineAssumption DEF c
    <3> QED
      BY <1>1, <3>1, <3>3 DEF LibLoad, c
  <2> QED
    BY <2>1, <2>2
<1> QED
  BY <1>4, <1>5, <1>6, <1>7 DEF Inv

(* The status is unlocked.                                                 *)
LEMMA UnlockStatusInv ==
  ASSUME Inv, NEW p \in Callers, UnlockStatus(p) PROVE Inv'
<1>1. /\ TypeOK /\ StatusInv /\ AnswerInv /\ LoggedIsLoaded
      /\ loaded' = loaded /\ UNCHANGED load /\ UNCHANGED export /\ status' = status
      /\ value' = value /\ todo' = todo /\ statusLock' = FALSE
      /\ pc[p] = "lines" /\ pc' = [pc EXCEPT ![p] = "unlocked"]
  BY DEF Inv, UnlockStatus
<1>2. TypeOK'
  <2>1. pc' \in [Callers -> {"idle", "lock", "lines", "unlocked", "finish",
                             "SaveWallet", "GetWallet", "GetCoinHistory"}]
    BY <1>1 DEF TypeOK
  <2> QED
    BY <1>1, <2>1 DEF TypeOK, export, load
<1>3. pc'[p] = "unlocked" /\ \A q \in Callers : q # p => pc'[q] = pc[q]
  BY <1>1 DEF TypeOK
<1>4. StatusInv'
  BY <1>1, <1>3 DEF StatusInv
<1>5. AnswerInv'
  BY <1>1, <1>3, KeepAnswers DEF Exporting
<1>6. LoggedIsLoaded'
  BY <1>1, KeepLogged DEF load
<1> QED
  BY <1>2, <1>4, <1>5, <1>6 DEF Inv

(* The load's last status: it is written unless another load has locked    *)
(* the line, and then that one will write it.                              *)
LEMMA IdleStatusInv ==
  ASSUME Inv, NEW p \in Callers, IdleStatus(p) PROVE Inv'
<1>1. /\ TypeOK /\ StatusInv /\ AnswerInv /\ LoggedIsLoaded
      /\ loaded' = loaded /\ UNCHANGED load /\ UNCHANGED export /\ status' = status
      /\ statusLock' = statusLock
      /\ pc[p] = "unlocked" /\ pc' = [pc EXCEPT ![p] = "finish"]
      /\ value' = [value EXCEPT ![p] = "Idle"]
      /\ todo' = [todo EXCEPT ![p] = IF statusLock THEN {} ELSE {"data", "len"}]
  BY DEF Inv, IdleStatus, combcore_set_status
<1>2. TypeOK'
  <2>1. pc' \in [Callers -> {"idle", "lock", "lines", "unlocked", "finish",
                             "SaveWallet", "GetWallet", "GetCoinHistory"}]
    BY <1>1 DEF TypeOK
  <2>2. value' \in [Callers \cup {Main} -> Statuses]
    BY <1>1 DEF TypeOK, Statuses
  <2>3. todo' \in [Callers \cup {Main} -> SUBSET {"data", "len"}]
    BY <1>1 DEF TypeOK
  <2> QED
    BY <1>1, <2>1, <2>2, <2>3 DEF TypeOK, export, load
<1>3. /\ pc'[p] = "finish" /\ \A q \in Callers : q # p => pc'[q] = pc[q]
      /\ value'[p] = "Idle" /\ (~statusLock => todo'[p] = {"data", "len"})
      /\ \A x \in Callers \cup {Main} : x # p => value'[x] = value[x] /\ todo'[x] = todo[x]
  BY <1>1 DEF TypeOK
<1>4. StatusInv'
  <2>1. \A x \in Callers \cup {Main} :
          value'[x] = "Loading Wallet..." /\ todo'[x] # {} => x \in Callers /\ pc'[x] = "lock"
    BY <1>1, <1>3 DEF StatusInv
  <2>2. statusLock' => \E q \in Callers : pc'[q] = "lines"
    BY <1>1, <1>3 DEF StatusInv
  <2>3. ASSUME NEW w \in {"data", "len"}, status'[w] = "Loading Wallet..."
        PROVE  \E q \in Callers : \/ pc'[q] \in {"lock", "lines", "unlocked"}
                                  \/ pc'[q] = "finish" /\ w \in todo'[q]
    <3>1. CASE statusLock
      BY <1>1, <2>2, <3>1
    <3>2. CASE ~statusLock
      BY <1>3, <3>2
    <3> QED
      BY <3>1, <3>2
  <2> QED
    BY <2>1, <2>2, <2>3 DEF StatusInv
<1>5. AnswerInv'
  BY <1>1, <1>3, KeepAnswers DEF Exporting
<1>6. LoggedIsLoaded'
  BY <1>1, KeepLogged DEF load
<1> QED
  BY <1>2, <1>4, <1>5, <1>6 DEF Inv

(* LoadWallet answers.                                                     *)
LEMMA LoadReturnsInv ==
  ASSUME Inv, NEW p \in Callers, LoadReturns(p) PROVE Inv'
<1>1. /\ TypeOK /\ StatusInv /\ AnswerInv /\ LoggedIsLoaded
      /\ loaded' = loaded /\ UNCHANGED load /\ UNCHANGED export /\ status' = status
      /\ value' = value /\ todo' = todo /\ statusLock' = statusLock
      /\ pc[p] = "finish" /\ todo[p] = {} /\ pc' = [pc EXCEPT ![p] = "idle"]
  BY DEF Inv, LoadReturns, shared
<1>2. TypeOK'
  <2>1. pc' \in [Callers -> {"idle", "lock", "lines", "unlocked", "finish",
                             "SaveWallet", "GetWallet", "GetCoinHistory"}]
    BY <1>1 DEF TypeOK
  <2> QED
    BY <1>1, <2>1 DEF TypeOK, export, load
<1>3. pc'[p] = "idle" /\ \A q \in Callers : q # p => pc'[q] = pc[q]
  BY <1>1 DEF TypeOK
<1>4. StatusInv'
  <2>1. \A x \in Callers \cup {Main} :
          value'[x] = "Loading Wallet..." /\ todo'[x] # {} => x \in Callers /\ pc'[x] = "lock"
    BY <1>1, <1>3 DEF StatusInv
  <2>2. statusLock' => \E q \in Callers : pc'[q] = "lines"
    BY <1>1, <1>3 DEF StatusInv
  <2>3. ASSUME NEW w \in {"data", "len"}, status'[w] = "Loading Wallet..."
        PROVE  \E q \in Callers : \/ pc'[q] \in {"lock", "lines", "unlocked"}
                                  \/ pc'[q] = "finish" /\ w \in todo'[q]
    <3>1. PICK q \in Callers : \/ pc[q] \in {"lock", "lines", "unlocked"}
                               \/ pc[q] = "finish" /\ w \in todo[q]
      BY <1>1, <2>3 DEF StatusInv
    <3>2. q # p
      BY <1>1, <3>1
    <3> QED
      BY <1>1, <1>3, <3>1, <3>2
  <2> QED
    BY <2>1, <2>2, <2>3 DEF StatusInv
<1>5. AnswerInv'
  BY <1>1, <1>3, KeepAnswers DEF Exporting
<1>6. LoggedIsLoaded'
  BY <1>1, KeepLogged DEF load
<1> QED
  BY <1>2, <1>4, <1>5, <1>6 DEF Inv

(* A call for an export or a listing comes: nothing is done yet, and every *)
(* kind is still to do.                                                    *)
LEMMA AskInv ==
  ASSUME Inv, NEW p \in Callers, Ask(p) PROVE Inv'
<1>1. /\ TypeOK /\ StatusInv /\ AnswerInv /\ LoggedIsLoaded
      /\ loaded' = loaded /\ UNCHANGED load /\ UNCHANGED shared
      /\ pc[p] = "idle"
      /\ kinds' = [kinds EXCEPT ![p] = KindOrder]
      /\ reply' = [reply EXCEPT ![p] = {}]
      /\ before' = [before EXCEPT ![p] = loaded]
  BY DEF Inv, Ask
<1>2. PICK call \in Exporting :
        /\ pc' = [pc EXCEPT ![p] = call]
        /\ \E w \in IF call = "GetCoinHistory" THEN SUBSET loaded ELSE {Constructs} :
             want' = [want EXCEPT ![p] = w]
  BY DEF Ask, Exporting
<1>3. PICK w \in SUBSET Constructs : want' = [want EXCEPT ![p] = w]
  <2>1. loaded \subseteq Constructs
    BY <1>1 DEF TypeOK
  <2> QED
    BY <1>2, <2>1
<1>4. TypeOK'
  <2>1. pc' \in [Callers -> {"idle", "lock", "lines", "unlocked", "finish",
                             "SaveWallet", "GetWallet", "GetCoinHistory"}]
    BY <1>1, <1>2 DEF TypeOK, Exporting
  <2>2. want' \in [Callers -> SUBSET Constructs]
    BY <1>1, <1>3 DEF TypeOK
  <2>3. before' \in [Callers -> SUBSET loaded']
    BY <1>1 DEF TypeOK
  <2>4. kinds' \in [Callers -> {SubSeq(KindOrder, k, 6) : k \in 1 .. 7}]
    <3>1. KindOrder \in {SubSeq(KindOrder, k, 6) : k \in 1 .. 7}
      <4>1. KindOrder \in Seq(Kinds) /\ Len(KindOrder) = 6
        BY KindOrderFacts
      <4>2. KindOrder = SubSeq(KindOrder, 1, Len(KindOrder))
        BY <4>1
      <4>3. KindOrder = SubSeq(KindOrder, 1, 6) /\ 1 \in 1 .. 7
        BY <4>1, <4>2
      <4> QED
        BY <4>3, Zenon
    <3> QED
      BY <1>1, <3>1 DEF TypeOK
  <2>5. DOMAIN reply' = Callers
    BY <1>1 DEF TypeOK
  <2> QED
    BY <1>1, <2>1, <2>2, <2>3, <2>4, <2>5 DEF TypeOK, load, shared
<1>5. StatusInv'
  <2>1. \A q \in Callers : pc[q] \in {"lock", "lines", "unlocked", "finish"} => pc'[q] = pc[q]
    BY <1>1, <1>2 DEF TypeOK
  <2> QED
    BY <1>1, <2>1, KeepStatus
<1>6. AnswerInv'
  <2> SUFFICES ASSUME NEW q \in Callers, pc'[q] \in Exporting
               PROVE  /\ \A r \in reply'[q] : \E c \in loaded' \cap want'[q] : r = Form(pc'[q], c)
                      /\ \A c \in before'[q] \cap want'[q] :
                           c.kind \in Range(kinds'[q]) \/ Form(pc'[q], c) \in reply'[q]
    BY DEF AnswerInv, Exporting
  <2>1. CASE q = p
    <3>1. reply'[q] = {} /\ kinds'[q] = KindOrder /\ before'[q] = loaded
      BY <1>1, <2>1 DEF TypeOK
    <3>2. \A c \in loaded : c.kind \in Range(KindOrder)
      BY <1>1, KindFacts, KindOrderFacts DEF TypeOK
    <3> QED
      BY <3>1, <3>2
  <2>2. CASE q # p
    <3>1. /\ pc'[q] = pc[q] /\ reply'[q] = reply[q] /\ kinds'[q] = kinds[q]
          /\ before'[q] = before[q] /\ want'[q] = want[q]
      BY <1>1, <1>2, <1>3, <2>2 DEF TypeOK
    <3> QED
      BY <1>1, <3>1 DEF AnswerInv, Exporting
  <2> QED
    BY <2>1, <2>2
<1>7. LoggedIsLoaded'
  BY <1>1, KeepLogged DEF load
<1> QED
  BY <1>4, <1>5, <1>6, <1>7 DEF Inv

(* One kind is answered, from what libcomb has by then.                    *)
LEMMA AnswerKindInv ==
  ASSUME Inv, NEW p \in Callers, AnswerKind(p) PROVE Inv'
<1> DEFINE found == {c \in loaded \cap want[p] : c.kind = Head(kinds[p])}
<1>1. /\ TypeOK /\ StatusInv /\ AnswerInv /\ LoggedIsLoaded
      /\ loaded' = loaded /\ pc' = pc /\ UNCHANGED load /\ UNCHANGED shared
      /\ want' = want /\ before' = before
      /\ pc[p] \in Exporting /\ kinds[p] # <<>>
      /\ reply' = [reply EXCEPT ![p] = @ \cup {Form(pc[p], c) : c \in found}]
      /\ kinds' = [kinds EXCEPT ![p] = Tail(@)]
  BY DEF Inv, AnswerKind, Exporting
<1>2. /\ Tail(kinds[p]) \in {SubSeq(KindOrder, k, 6) : k \in 1 .. 7}
      /\ Range(kinds[p]) \subseteq {Head(kinds[p])} \cup Range(Tail(kinds[p]))
  <2>1. kinds[p] \in {SubSeq(KindOrder, k, 6) : k \in 1 .. 7}
    BY <1>1 DEF TypeOK
  <2> QED
    BY <1>1, <2>1, KindsLeft
<1>3. TypeOK'
  <2>1. kinds' \in [Callers -> {SubSeq(KindOrder, k, 6) : k \in 1 .. 7}]
    BY <1>1, <1>2 DEF TypeOK
  <2>2. DOMAIN reply' = Callers
    BY <1>1 DEF TypeOK
  <2> QED
    BY <1>1, <2>1, <2>2 DEF TypeOK, load, shared
<1>4. StatusInv'
  BY <1>1, KeepStatus
<1>5. AnswerInv'
  <2> SUFFICES ASSUME NEW q \in Callers, pc'[q] \in Exporting
               PROVE  /\ \A r \in reply'[q] : \E c \in loaded' \cap want'[q] : r = Form(pc'[q], c)
                      /\ \A c \in before'[q] \cap want'[q] :
                           c.kind \in Range(kinds'[q]) \/ Form(pc'[q], c) \in reply'[q]
    BY DEF AnswerInv, Exporting
  <2> SUFFICES ASSUME pc[q] \in Exporting
               PROVE  /\ \A r \in reply'[q] : \E c \in loaded \cap want[q] : r = Form(pc[q], c)
                      /\ \A c \in before[q] \cap want[q] :
                           c.kind \in Range(kinds'[q]) \/ Form(pc[q], c) \in reply'[q]
    BY <1>1
  <2>1. /\ \A r \in reply[q] : \E c \in loaded \cap want[q] : r = Form(pc[q], c)
        /\ \A c \in before[q] \cap want[q] :
             c.kind \in Range(kinds[q]) \/ Form(pc[q], c) \in reply[q]
    BY <1>1 DEF AnswerInv, Exporting
  <2>2. CASE q = p
    <3>1. /\ reply'[q] = reply[q] \cup {Form(pc[q], c) : c \in found}
          /\ kinds'[q] = Tail(kinds[p])
      BY <1>1, <2>2 DEF TypeOK
    <3>2. ASSUME NEW r \in reply'[q]
          PROVE  \E c \in loaded \cap want[q] : r = Form(pc[q], c)
      BY <2>1, <2>2, <3>1
    <3>3. ASSUME NEW c \in before[q] \cap want[q]
          PROVE  c.kind \in Range(kinds'[q]) \/ Form(pc[q], c) \in reply'[q]
      <4>1. CASE c.kind = Head(kinds[p])
        <5>1. c \in found
          BY <1>1, <2>2, <4>1 DEF TypeOK
        <5> QED
          BY <3>1, <5>1
      <4>2. CASE c.kind # Head(kinds[p])
        BY <1>2, <2>1, <2>2, <3>1, <4>2
      <4> QED
        BY <4>1, <4>2
    <3> QED
      BY <3>2, <3>3
  <2>3. CASE q # p
    <3>1. reply'[q] = reply[q] /\ kinds'[q] = kinds[q]
      BY <1>1, <2>3 DEF TypeOK
    <3> QED
      BY <2>1, <3>1
  <2> QED
    BY <2>2, <2>3
<1>6. LoggedIsLoaded'
  BY <1>1, KeepLogged DEF load
<1> QED
  BY <1>3, <1>4, <1>5, <1>6 DEF Inv

(* The answer is given.                                                    *)
LEMMA AnswerStepInv ==
  ASSUME Inv, NEW p \in Callers, Answer(p) PROVE Inv'
<1>1. /\ TypeOK /\ StatusInv /\ AnswerInv /\ LoggedIsLoaded
      /\ loaded' = loaded /\ UNCHANGED load /\ UNCHANGED shared /\ kinds' = kinds
      /\ pc[p] \in Exporting
      /\ pc' = [pc EXCEPT ![p] = "idle"]
      /\ reply' = [reply EXCEPT ![p] = {}]
      /\ want' = [want EXCEPT ![p] = {}]
      /\ before' = [before EXCEPT ![p] = {}]
  BY DEF Inv, Answer, Exporting
<1>2. TypeOK'
  <2>1. pc' \in [Callers -> {"idle", "lock", "lines", "unlocked", "finish",
                             "SaveWallet", "GetWallet", "GetCoinHistory"}]
    BY <1>1 DEF TypeOK
  <2>2. want' \in [Callers -> SUBSET Constructs]
    BY <1>1 DEF TypeOK
  <2>3. before' \in [Callers -> SUBSET loaded']
    BY <1>1 DEF TypeOK
  <2>4. DOMAIN reply' = Callers
    BY <1>1 DEF TypeOK
  <2> QED
    BY <1>1, <2>1, <2>2, <2>3, <2>4 DEF TypeOK, load, shared
<1>3. StatusInv'
  <2>1. \A q \in Callers : pc[q] \in {"lock", "lines", "unlocked", "finish"} => pc'[q] = pc[q]
    BY <1>1 DEF TypeOK, Exporting
  <2> QED
    BY <1>1, <2>1, KeepStatus
<1>4. AnswerInv'
  <2> SUFFICES ASSUME NEW q \in Callers, pc'[q] \in Exporting
               PROVE  /\ \A r \in reply'[q] : \E c \in loaded' \cap want'[q] : r = Form(pc'[q], c)
                      /\ \A c \in before'[q] \cap want'[q] :
                           c.kind \in Range(kinds'[q]) \/ Form(pc'[q], c) \in reply'[q]
    BY DEF AnswerInv, Exporting
  <2>1. q # p
    BY <1>1 DEF TypeOK, Exporting
  <2>2. /\ pc'[q] = pc[q] /\ reply'[q] = reply[q] /\ kinds'[q] = kinds[q]
        /\ before'[q] = before[q] /\ want'[q] = want[q]
    BY <1>1, <2>1 DEF TypeOK
  <2> QED
    BY <1>1, <2>2 DEF AnswerInv, Exporting
<1>5. LoggedIsLoaded'
  BY <1>1, KeepLogged DEF load
<1> QED
  BY <1>2, <1>3, <1>4, <1>5 DEF Inv

(* One word of the status is written, by main or by a load.                *)
LEMMA WriteWordInv ==
  ASSUME Inv, NEW x \in Callers \cup {Main}, WriteWord(x) PROVE Inv'
<1>1. /\ TypeOK /\ StatusInv /\ AnswerInv /\ LoggedIsLoaded
      /\ loaded' = loaded /\ pc' = pc /\ UNCHANGED load /\ UNCHANGED export
      /\ statusLock' = statusLock /\ value' = value
  BY DEF Inv, WriteWord
<1>2. PICK v \in todo[x] : /\ status' = [status EXCEPT ![v] = value[x]]
                           /\ todo' = [todo EXCEPT ![x] = @ \ {v}]
  BY DEF WriteWord
<1>3. TypeOK'
  <2>1. status' \in [{"data", "len"} -> Statuses]
    BY <1>1, <1>2 DEF TypeOK
  <2>2. todo' \in [Callers \cup {Main} -> SUBSET {"data", "len"}]
    BY <1>1, <1>2 DEF TypeOK
  <2> QED
    BY <1>1, <2>1, <2>2 DEF TypeOK, load, export
<1>4. StatusInv'
  <2>1. /\ todo'[x] = todo[x] \ {v}
        /\ \A y \in Callers \cup {Main} : y # x => todo'[y] = todo[y]
        /\ v \in {"data", "len"} /\ status'[v] = value[x]
        /\ \A w \in {"data", "len"} : w # v => status'[w] = status[w]
    BY <1>1, <1>2 DEF TypeOK
  <2>2. \A y \in Callers \cup {Main} :
          value'[y] = "Loading Wallet..." /\ todo'[y] # {} => y \in Callers /\ pc'[y] = "lock"
    BY <1>1, <2>1 DEF StatusInv
  <2>3. statusLock' => \E q \in Callers : pc'[q] = "lines"
    BY <1>1 DEF StatusInv
  <2>4. ASSUME NEW w \in {"data", "len"}, status'[w] = "Loading Wallet..."
        PROVE  \E q \in Callers : \/ pc'[q] \in {"lock", "lines", "unlocked"}
                                  \/ pc'[q] = "finish" /\ w \in todo'[q]
    <3>1. CASE w = v
      <4>1. value[x] = "Loading Wallet..." /\ todo[x] # {}
        BY <1>2, <2>1, <2>4, <3>1
      <4>2. x \in Callers /\ pc[x] = "lock"
        BY <1>1, <4>1 DEF StatusInv
      <4> QED
        BY <1>1, <4>2
    <3>2. CASE w # v
      <4>1. PICK q \in Callers : \/ pc[q] \in {"lock", "lines", "unlocked"}
                                 \/ pc[q] = "finish" /\ w \in todo[q]
        BY <1>1, <2>1, <2>4, <3>2 DEF StatusInv
      <4>2. w \in todo[q] => w \in todo'[q]
        BY <2>1, <3>2
      <4> QED
        BY <1>1, <4>1, <4>2
    <3> QED
      BY <3>1, <3>2
  <2> QED
    BY <2>2, <2>3, <2>4 DEF StatusInv
<1>5. AnswerInv'
  BY <1>1, KeepAnswers
<1>6. LoggedIsLoaded'
  BY <1>1, KeepLogged DEF load
<1> QED
  BY <1>3, <1>4, <1>5, <1>6 DEF Inv

(* main sets the status.                                                   *)
LEMMA MainStatusInv ==
  ASSUME Inv, MainStatus PROVE Inv'
<1>1. /\ TypeOK /\ StatusInv /\ AnswerInv /\ LoggedIsLoaded
      /\ loaded' = loaded /\ pc' = pc /\ UNCHANGED load /\ UNCHANGED export
      /\ status' = status /\ statusLock' = statusLock /\ todo[Main] = {}
  BY DEF Inv, MainStatus
<1>2. PICK s \in {"Idle", "Mining..."} :
        /\ value' = [value EXCEPT ![Main] = s]
        /\ todo' = [todo EXCEPT ![Main] = IF statusLock THEN {} ELSE {"data", "len"}]
  BY DEF MainStatus, combcore_set_status
<1>3. TypeOK'
  <2>1. value' \in [Callers \cup {Main} -> Statuses]
    BY <1>1, <1>2 DEF TypeOK, Statuses
  <2>2. todo' \in [Callers \cup {Main} -> SUBSET {"data", "len"}]
    BY <1>1, <1>2 DEF TypeOK
  <2> QED
    BY <1>1, <2>1, <2>2 DEF TypeOK, load, export
<1>4. StatusInv'
  <2>1. /\ value'[Main] = s
        /\ \A y \in Callers \cup {Main} : y # Main => todo'[y] = todo[y] /\ value'[y] = value[y]
    BY <1>1, <1>2 DEF TypeOK
  <2>2. \A y \in Callers \cup {Main} :
          value'[y] = "Loading Wallet..." /\ todo'[y] # {} => y \in Callers /\ pc'[y] = "lock"
    BY <1>1, <2>1 DEF StatusInv
  <2>3. statusLock' => \E q \in Callers : pc'[q] = "lines"
    BY <1>1 DEF StatusInv
  <2>4. ASSUME NEW w \in {"data", "len"}, status'[w] = "Loading Wallet..."
        PROVE  \E q \in Callers : \/ pc'[q] \in {"lock", "lines", "unlocked"}
                                  \/ pc'[q] = "finish" /\ w \in todo'[q]
    <3>1. PICK q \in Callers : \/ pc[q] \in {"lock", "lines", "unlocked"}
                               \/ pc[q] = "finish" /\ w \in todo[q]
      BY <1>1, <2>4 DEF StatusInv
    <3>2. w \in todo[q] => w \in todo'[q]
      BY <1>1, <2>1
    <3> QED
      BY <1>1, <3>1, <3>2
  <2> QED
    BY <2>2, <2>3, <2>4 DEF StatusInv
<1>5. AnswerInv'
  BY <1>1, KeepAnswers
<1>6. LoggedIsLoaded'
  BY <1>1, KeepLogged DEF load
<1> QED
  BY <1>3, <1>4, <1>5, <1>6 DEF Inv

(* Every step keeps the invariant.                                         *)
LEMMA NextInv == Inv /\ [Next]_vars => Inv'
<1> SUFFICES ASSUME Inv, [Next]_vars PROVE Inv'
  OBVIOUS
<1>1. ASSUME NEW p \in Callers, Call(p) PROVE Inv'
  BY <1>1, LoadConstructInv, LoadWalletInv, AskInv DEF Call
<1>2. ASSUME NEW p \in Callers, Serve(p) PROVE Inv'
  BY <1>2, LockStatusInv, LoadLineInv, UnlockStatusInv, IdleStatusInv, LoadReturnsInv,
     AnswerKindInv, AnswerStepInv, WriteWordInv DEF Serve
<1>3. CASE StatusOfMain
  BY <1>3, MainStatusInv, WriteWordInv DEF StatusOfMain
<1>4. CASE UNCHANGED vars
  <2>1. /\ loaded' = loaded /\ pc' = pc /\ text' = text /\ said' = said /\ kinds' = kinds
        /\ want' = want /\ reply' = reply /\ before' = before /\ status' = status
        /\ statusLock' = statusLock /\ value' = value /\ todo' = todo
    BY <1>4 DEF vars, load, export, shared
  <2>2. TypeOK'
    BY <2>1 DEF Inv, TypeOK
  <2>3. StatusInv'
    BY <1>4, <2>1, KeepStatus DEF Inv, vars
  <2>4. AnswerInv'
    BY <1>4, <2>1, KeepAnswers DEF Inv, vars
  <2>5. LoggedIsLoaded'
    BY <2>1, KeepLogged DEF Inv
  <2> QED
    BY <2>2, <2>3, <2>4, <2>5 DEF Inv
<1> QED
  BY <1>1, <1>2, <1>3, <1>4 DEF Next

-------------------------------------------------------------------------------
(* The theorems.                                                           *)

(* The invariant holds however the calls interleave.                       *)
THEOREM Invariance == Spec => []Inv
  BY InitInv, NextInv, PTL DEF Spec

(* Every variable keeps its type, and libcomb has loaded only constructs   *)
(* it accepts.                                                             *)
THEOREM TypeCorrect == Spec => []TypeOK
<1>1. Inv => TypeOK
  BY DEF Inv
<1> QED
  BY <1>1, Invariance, PTL

(* A line the log calls loaded has been loaded (wallet_load).              *)
THEOREM LogTellsTheTruth == Spec => []LoggedIsLoaded
<1>1. Inv => LoggedIsLoaded
  BY DEF Inv
<1> QED
  BY <1>1, Invariance, PTL

(* The status line of a finished load is written over, however loads,      *)
(* their two accesses to the status and main's own overlap (wallet_load,   *)
(* combcore_set_status).                                                   *)
THEOREM LoadLeavesNoStatus == Spec => []StatusForgetsLoad
<1>1. Inv => StatusForgetsLoad
  BY DEF Inv, StatusInv, StatusForgetsLoad
<1> QED
  BY <1>1, Invariance, PTL

(* A complete answer restores what was loaded when the call came, and      *)
(* nothing that is not loaded (wallet_export, wallet_export_history,       *)
(* wallet_stringify, with their counterparts).                             *)
THEOREM AnswersAlwaysRestore == Spec => []AnswersRestore
<1>1. Inv => AnswersRestore
  <2> SUFFICES ASSUME Inv, NEW p \in Callers, pc[p] \in Exporting, kinds[p] = <<>>
               PROVE  /\ before[p] \cap want[p] \subseteq Restored(p)
                      /\ Restored(p) \subseteq loaded \cap want[p]
    BY DEF AnswersRestore, Exporting
  <2>1. /\ \A r \in reply[p] : \E c \in loaded \cap want[p] : r = Form(pc[p], c)
        /\ \A c \in before[p] \cap want[p] : Form(pc[p], c) \in reply[p]
    <3>1. Range(kinds[p]) = {}
      BY DEF Range
    <3> QED
      BY <3>1 DEF Inv, AnswerInv, Exporting
  <2>2. want[p] \subseteq Constructs
    BY DEF Inv, TypeOK
  <2>3. CASE pc[p] = "GetWallet"
    <3>1. \A c \in Constructs : Parse(Form(pc[p], c)) = c
      BY <2>3, EntryRestores DEF Form
    <3>2. Restored(p) = {Parse(e) : e \in reply[p]}
      BY <2>3 DEF Restored
    <3> QED
      BY <2>1, <2>2, <3>1, <3>2
  <2>4. CASE pc[p] # "GetWallet"
    <3>1. \A c \in Constructs : wallet_load_construct(Form(pc[p], c)) = c
      BY <2>4, LineRestores DEF Form
    <3>2. Restored(p) = {wallet_load_construct(l) : l \in reply[p]}
      BY <2>4 DEF Restored
    <3> QED
      BY <2>1, <2>2, <3>1, <3>2
  <2> QED
    BY <2>3, <2>4
<1> QED
  BY <1>1, Invariance, PTL

===============================================================================
