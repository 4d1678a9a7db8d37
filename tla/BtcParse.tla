------------------------------- MODULE BtcParse -------------------------------
(***************************************************************************)
(* btc_parse_block (btc.go): one pass over a raw Bitcoin block that        *)
(* collects the block's COMB commits, the 32-byte programs of its P2WSH    *)
(* outputs.  The parser drops what it has read from the front of data and  *)
(* trusts every length it meets; a slice past the end panics.              *)
(*                                                                         *)
(* Bytes are numbers; sha256 of the header is left out (external).  The    *)
(* input is the serialization of a small block, or a proper prefix of one  *)
(* (btc_rest_call hands over whatever body the server sent).               *)
(***************************************************************************)
EXTENDS Integers, Sequences, SequencesExt

CONSTANTS
  Blocks,       \* abstract blocks: [previous, txs]
  Cuts          \* how many bytes may be missing from the end

VARIABLES
  input,        \* the block the bytes stand for, and the missing bytes
  data,         \* what is left to read
  pc,
  t, i, w,      \* loop counters: transaction, input or output, witness item
  tx_count, in_count, out_count, witness_count,
  segwit,
  previous, commits

counts == <<tx_count, in_count, out_count, witness_count>>
vars == <<input, data, pc, t, i, w, counts, segwit, previous, commits>>

-------------------------------------------------------------------------------
(* Reference: Bitcoin's serialization (external).                          *)

Byte == 0 .. 255

(* No block is longer than this, so no length or count is larger.          *)
MaxLength == 4000000

(* A field whose bytes the parser drops without looking at them.           *)
Fill(n) == [k \in 1 .. n |-> 170]

CompactSize(n) ==
  IF n < 253 THEN <<n>>
  ELSE IF n < 65536 THEN <<253, n % 256, n \div 256>>
  ELSE <<254, n % 256, (n \div 256) % 256, (n \div 65536) % 256, n \div 16777216>>

Sized(bytes) == CompactSize(Len(bytes)) \o bytes

TxIn(script) == Fill(36) \o Sized(script) \o Fill(4)

TxOut(script) == Fill(8) \o Sized(script)

Witness(items) ==
  CompactSize(Len(items)) \o FlattenSeq([k \in DOMAIN items |-> Sized(items[k])])

(* tx.ins, tx.outs: scripts; tx.witness: per input a stack of items, or    *)
(* <<>> for a transaction without witnesses.                               *)
Transaction(tx) ==
  LET ins  == CompactSize(Len(tx.ins)) \o FlattenSeq([k \in DOMAIN tx.ins |-> TxIn(tx.ins[k])])
      outs == CompactSize(Len(tx.outs)) \o FlattenSeq([k \in DOMAIN tx.outs |-> TxOut(tx.outs[k])])
      wits == FlattenSeq([k \in DOMAIN tx.witness |-> Witness(tx.witness[k])])
  IN  Fill(4) \o (IF tx.witness = <<>> THEN <<>> ELSE <<0, 1>>) \o ins \o outs \o wits \o Fill(4)

Serialize(b) ==
  Fill(4) \o b.previous \o Fill(44) \o CompactSize(Len(b.txs))
    \o FlattenSeq([k \in DOMAIN b.txs |-> Transaction(b.txs[k])])

(* A P2WSH script: OP_0, a push of 32 bytes, the program.                  *)
IsCommit(script) == Len(script) = 34 /\ script[1] = 0 /\ script[2] = 32

CommitsOfTx(tx) ==
  FlattenSeq([k \in DOMAIN tx.outs |->
                IF IsCommit(tx.outs[k]) THEN <<SubSeq(tx.outs[k], 3, 34)>> ELSE <<>>])

(* The commits of a block: the programs of its P2WSH outputs, in order.    *)
CommitsOf(b) == FlattenSeq([k \in DOMAIN b.txs |-> CommitsOfTx(b.txs[k])])

(* Scripts and witness items.                                              *)
Bytes == {s \in Seq(Byte) : Len(s) <= MaxLength}

(* What Bitcoin's rules say of a transaction: it has an input, and         *)
(* witnesses for all of its inputs or for none.                            *)
IsTransaction(tx) ==
  /\ tx \in [ins : Seq(Bytes), outs : Seq(Bytes), witness : Seq(Seq(Bytes))]
  /\ tx.ins # <<>> /\ Len(tx.ins) <= MaxLength /\ Len(tx.outs) <= MaxLength
  /\ Len(tx.witness) \in {0, Len(tx.ins)}
  /\ \A k \in DOMAIN tx.witness : Len(tx.witness[k]) <= MaxLength

ASSUME BtcParseAssumption ==
  /\ \A b \in Blocks :
       /\ b.previous \in [1 .. 32 -> Byte]
       /\ b.txs \in Seq(Range(b.txs)) /\ Len(b.txs) <= MaxLength
       /\ \A k \in DOMAIN b.txs : IsTransaction(b.txs[k])
  /\ Cuts \subseteq Nat

-------------------------------------------------------------------------------
(* btc_parse_varint at offset k of data.  Where it panics, next is past    *)
(* the end of data, and so is every offset the callers make of it.         *)

Uint16(k) == data[k + 1] + 256 * data[k + 2]
Uint32(k) == Uint16(k) + 65536 * Uint16(k + 2)
Uint64(k) == Uint32(k) + 65536 * (65536 * Uint32(k + 4))

btc_parse_varint(k) ==
  LET prefix == IF k < Len(data) THEN data[k + 1] ELSE 0
      width  == CASE prefix = 253 -> 2 [] prefix = 254 -> 4 [] prefix = 255 -> 8
                  [] OTHER -> 0
      next   == k + 1 + width
  IN  [value |-> IF width = 0 \/ next > Len(data) THEN prefix
                 ELSE CASE width = 2 -> Uint16(k + 1)
                        [] width = 4 -> Uint32(k + 1)
                        [] width = 8 -> Uint64(k + 1),
       next  |-> next]

(* data = data[n:] and on to the next place, or the slice panics.          *)
Goto(n, place) ==
  IF n <= Len(data)
  THEN data' = SubSeq(data, n + 1, Len(data)) /\ pc' = place
  ELSE UNCHANGED data /\ pc' = "panic"

-------------------------------------------------------------------------------
(* btc_parse_block.                                                        *)

(* version(4), previous(32, byte order swapped at the end), 44 more bytes, *)
(* transaction count.                                                      *)
Header ==
  /\ pc = "header"
  /\ LET count == btc_parse_varint(80)
     IN  /\ Goto(count.next, "tx")
         /\ tx_count' = count.value
         /\ previous' = IF count.next <= Len(data) THEN Reverse(SubSeq(data, 5, 36))
                        ELSE previous
  /\ UNCHANGED <<input, t, i, w, in_count, out_count, witness_count, segwit, commits>>

(* Fault variant: the segwit marker is read as an input count of zero.     *)
TxBegin_no_segwit ==
  /\ pc = "tx"
  /\ t < tx_count
  /\ LET count == btc_parse_varint(4)
     IN  Goto(count.next, "in") /\ in_count' = count.value
  /\ segwit' = FALSE
  /\ i' = 0
  /\ UNCHANGED <<input, t, w, tx_count, out_count, witness_count, previous, commits>>

(* version(4), then the input count; zero is the segwit marker, which with *)
(* the flag comes before the count.                                        *)
TxBegin ==
  /\ pc = "tx"
  /\ t < tx_count
  /\ LET first == btc_parse_varint(4)
         count == IF first.value = 0 THEN btc_parse_varint(6) ELSE first
     IN  /\ Goto(count.next, "in")
         /\ in_count' = count.value
         /\ segwit' = (first.value = 0)
  /\ i' = 0
  /\ UNCHANGED <<input, t, w, tx_count, out_count, witness_count, previous, commits>>

(* txid(32), vout(4), script size, script, sequence(4).                    *)
Input ==
  /\ pc = "in"
  /\ i < in_count
  /\ LET size == btc_parse_varint(36)
     IN  Goto(size.next + size.value + 4, "in")
  /\ i' = i + 1
  /\ UNCHANGED <<input, t, w, counts, segwit, previous, commits>>

OutputCount ==
  /\ pc = "in"
  /\ i = in_count
  /\ LET count == btc_parse_varint(0)
     IN  Goto(count.next, "out") /\ out_count' = count.value
  /\ i' = 0
  /\ UNCHANGED <<input, t, w, tx_count, in_count, witness_count, segwit, previous, commits>>

(* Fault variant: any 34-byte script counts as a commit.                   *)
Output_any_version ==
  /\ pc = "out"
  /\ i < out_count
  /\ LET size == btc_parse_varint(8)
         n == size.next
     IN  /\ Goto(n + size.value, "out")
         /\ commits' = IF size.value = 34 /\ n + 34 <= Len(data)
                       THEN Append(commits, SubSeq(data, n + 3, n + 34)) ELSE commits
  /\ i' = i + 1
  /\ UNCHANGED <<input, t, w, counts, segwit, previous>>

(* value(8), script size, script; a script OP_0 PUSH32 holds a commit.  (A *)
(* commit cut off by the end of data panics in any case.)                  *)
Output ==
  /\ pc = "out"
  /\ i < out_count
  /\ LET size == btc_parse_varint(8)
         n == size.next
         commit == size.value = 34 /\ n + 34 <= Len(data)
                     /\ data[n + 1] = 0 /\ data[n + 2] = 32
     IN  /\ Goto(n + size.value, "out")
         /\ commits' = IF commit THEN Append(commits, SubSeq(data, n + 3, n + 34))
                       ELSE commits
  /\ i' = i + 1
  /\ UNCHANGED <<input, t, w, counts, segwit, previous>>

OutputsDone ==
  /\ pc = "out"
  /\ i = out_count
  /\ pc' = IF segwit THEN "witness" ELSE "locktime"
  /\ i' = 0
  /\ UNCHANGED <<input, data, t, w, counts, segwit, previous, commits>>

WitnessCount ==
  /\ pc = "witness"
  /\ i < in_count
  /\ LET count == btc_parse_varint(0)
     IN  Goto(count.next, "item") /\ witness_count' = count.value
  /\ w' = 0
  /\ UNCHANGED <<input, t, i, tx_count, in_count, out_count, segwit, previous, commits>>

WitnessItem ==
  /\ pc = "item"
  /\ w < witness_count
  /\ LET size == btc_parse_varint(0)
     IN  Goto(size.next + size.value, "item")
  /\ w' = w + 1
  /\ UNCHANGED <<input, t, i, counts, segwit, previous, commits>>

WitnessDone ==
  /\ pc = "item"
  /\ w = witness_count
  /\ pc' = "witness"
  /\ i' = i + 1
  /\ UNCHANGED <<input, data, t, w, counts, segwit, previous, commits>>

LockTime ==
  /\ pc = "locktime" \/ (pc = "witness" /\ i = in_count)
  /\ Goto(4, "tx")
  /\ t' = t + 1
  /\ UNCHANGED <<input, i, w, counts, segwit, previous, commits>>

Done ==
  /\ pc = "tx"
  /\ t = tx_count
  /\ pc' = "done"
  /\ UNCHANGED <<input, data, t, i, w, counts, segwit, previous, commits>>

Stopped == pc \in {"done", "panic"} /\ UNCHANGED vars

Init ==
  /\ input \in [block : Blocks, cut : Cuts]
  /\ LET raw == Serialize(input.block)
     IN  input.cut <= Len(raw) /\ data = SubSeq(raw, 1, Len(raw) - input.cut)
  /\ pc = "header"
  /\ t = 0 /\ i = 0 /\ w = 0
  /\ tx_count = 0 /\ in_count = 0 /\ out_count = 0 /\ witness_count = 0
  /\ segwit = FALSE
  /\ previous = <<>>
  /\ commits = <<>>

Next == \/ Header
        \/ TxBegin
        \/ Input
        \/ OutputCount
        \/ Output
        \/ OutputsDone
        \/ WitnessCount
        \/ WitnessItem
        \/ WitnessDone
        \/ LockTime
        \/ Done
        \/ Stopped

Spec == Init /\ [][Next]_vars

-------------------------------------------------------------------------------
(* The commits collected are at all times the first commits of the block,  *)
(* in block order, and at the end all of them; the previous hash is the    *)
(* header's in big-endian order (btc_parse_block).                         *)
CommitsInOrder ==
  /\ IsPrefix(commits, CommitsOf(input.block))
  /\ pc = "done" => /\ commits = CommitsOf(input.block)
                    /\ previous = Reverse(input.block.previous)

(* A whole block is read to its last byte and never past it; a block with  *)
(* bytes missing at its end is never taken for a block: the parser panics. *)
WholeBlocksOnly ==
  /\ pc = "done" => input.cut = 0 /\ data = <<>>
  /\ pc = "panic" => input.cut > 0

===============================================================================
