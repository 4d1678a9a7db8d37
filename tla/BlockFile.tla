------------------------------ MODULE BlockFile ------------------------------
(***************************************************************************)
(* Direct mining (btc_direct.go): the node reads the block files of a      *)
(* Bitcoin node that goes on writing them.  FullNode takes the traced      *)
(* blocks for whole; this module is about what the files hold when they    *)
(* are read, record by record, and what the trace makes of it.             *)
(*                                                                         *)
(* The Bitcoin node is external.  It appends blocks in the order they      *)
(* arrive, which need not be the chain's, to the newest of its files,      *)
(* whose end is filled with zeros; it announces a block as its best one    *)
(* after that block and all before it are written.                         *)
(***************************************************************************)
EXTENDS Integers, Sequences, SequencesExt, FiniteSetsExt

CONSTANTS
  Block, Prev,    \* Bitcoin's blocks above the known one, and their parents
  Known,          \* the checkpoint they descend from
  None,           \* no block
  FileCapacity,   \* the records of a block file
  MaxSyncs        \* bound on the traces

ASSUME BlockFileAssumption ==
  /\ IsFiniteSet(Block)
  /\ Known \notin Block /\ None \notin Block \cup {Known}
  /\ Prev \in [Block -> Block \cup {Known}]
  /\ FileCapacity \in Nat \ {0}
  /\ MaxSyncs \in Nat

VARIABLES
  files,      \* the block files, oldest first: sequences of records
  tip,        \* Bitcoin's best block
  active,     \* the blocks it has connected, each after its parent
  history,    \* COMBInfo.Chain: the blocks already ingested
  main,       \* "idle", "read" or "panic"
  target,     \* the best block rest_get_chains answered
  left,       \* how many of the files found are still to be read
  blocks,     \* RawData: block -> is it whole?
  feed,       \* the traced chain, oldest first
  syncs       \* how many traces there were

disk == <<files, tip, active>>
vars == <<disk, history, main, target, left, blocks, feed, syncs>>

-------------------------------------------------------------------------------
(* The Bitcoin node.  A record is a block and how much of it is there:     *)
(* its magic bytes and size ("size"), the header and some transactions     *)
(* before zeros ("header"), or all of it ("whole").                        *)

NoBlocks == [b \in {} |-> TRUE]

Newest == Len(files)

OnDisk == UNION {{f[i].block : i \in DOMAIN f} : f \in Range(files)}

Writing == files # <<>> /\ files[Newest] # <<>> /\ Last(files[Newest]).part # "whole"

BeginRecord ==
  /\ ~Writing
  /\ \E b \in Block \ OnDisk :
       LET r == [block |-> b, part |-> "size"]
       IN  files' = IF files = <<>> \/ Len(files[Newest]) = FileCapacity
                    THEN Append(files, <<r>>)
                    ELSE [files EXCEPT ![Newest] = Append(@, r)]
  /\ UNCHANGED <<tip, active, history, main, target, left, blocks, feed, syncs>>

WriteRecord ==
  /\ Writing
  /\ files' = [files EXCEPT ![Newest][Len(files[Newest])].part =
                 IF @ = "size" THEN "header" ELSE "whole"]
  /\ UNCHANGED <<tip, active, history, main, target, left, blocks, feed, syncs>>

IsWhole(b) == \E f \in Range(files) : [block |-> b, part |-> "whole"] \in Range(f)

(* A block is connected, and announced, when it and its chain are whole.   *)
Announce ==
  /\ \E b \in Block \ {tip} :
       /\ IsWhole(b)
       /\ Prev[b] \in active
       /\ tip' = b
       /\ active' = active \cup {b}
  /\ UNCHANGED <<files, history, main, target, left, blocks, feed, syncs>>

-------------------------------------------------------------------------------
(* The node.                                                               *)

(* The last trace's blocks are ingested.  Bitcoin's best block is another: *)
(* rest_get_chains, then direct_get_block_range and the file list of       *)
(* direct_load_trace.                                                      *)
Begin ==
  /\ main = "idle"
  /\ tip # Known
  /\ (feed # <<>> => tip # Last(feed))
  /\ history' = history \cup Range(feed)
  /\ syncs < MaxSyncs
  /\ syncs' = syncs + 1
  /\ target' = tip
  /\ left' = Len(files)
  /\ blocks' = NoBlocks
  /\ feed' = <<>>
  /\ main' = "read"
  /\ UNCHANGED disk

(* direct_parse_block_file.  The buffer is cut at the size of the file,    *)
(* records are parsed until the magic bytes are missing.  Without its      *)
(* header a block has another hash and is nobody's parent.  With its       *)
(* header it has the right hash, whatever follows: zeros parse as          *)
(* transactions without outputs, unless a slice runs out.                  *)
direct_parse_block_file(bs, f) ==
  LET seen == {r.block : r \in {q \in Range(f) : q.part # "size"}}
  IN  [b \in DOMAIN bs \cup seen |->
         IF b \in seen THEN [block |-> b, part |-> "whole"] \in Range(f) ELSE bs[b]]

(* direct_trace_chain: from the target, known or not, back to a child of a *)
(* known block, or nothing.                                                *)
direct_trace_chain(bs, known, h) ==
  LET back[n \in 0 .. Cardinality(Block)] ==
        IF n = 0 THEN <<>>
        ELSE LET p == back[n - 1]
                 x == IF p = <<>> THEN h ELSE Prev[p[1]]
             IN  IF x \in DOMAIN bs /\ (p = <<>> \/ x \notin known)
                 THEN <<x>> \o p ELSE p
      all == back[Cardinality(Block)]
  IN  IF all # <<>> /\ Prev[all[1]] \in known THEN all ELSE <<>>

(* Fault variant: the best block is asked for again after each file.       *)
ReadFile_asks_again ==
  /\ main = "read"
  /\ left > 0
  /\ blocks' = direct_parse_block_file(blocks, files[left])
  /\ target' = tip
  /\ feed' = direct_trace_chain(blocks', history, target')
  /\ left' = left - 1
  /\ main' = IF feed' # <<>> \/ left' = 0 THEN "idle" ELSE "read"
  /\ UNCHANGED <<disk, history, syncs>>

(* Fault variant: each file starts from an empty RawData.                  *)
ReadFile_forgets ==
  /\ main = "read"
  /\ left > 0
  /\ blocks' = direct_parse_block_file(NoBlocks, files[left])
  /\ feed' = direct_trace_chain(blocks', history, target)
  /\ left' = left - 1
  /\ main' = IF feed' # <<>> \/ left' = 0 THEN "idle" ELSE "read"
  /\ UNCHANGED <<disk, history, target, syncs>>

(* One turn of direct_load_trace's loop, newest file first, and of         *)
(* direct_get_block_range after the last one.  One Read call gets all of   *)
(* the file: the code does not look at its count, so that a short read     *)
(* would leave bytes of the previous file behind it, which is left out.    *)
ReadFile ==
  /\ main = "read"
  /\ left > 0
  /\ blocks' = direct_parse_block_file(blocks, files[left])
  /\ feed' = direct_trace_chain(blocks', history, target)
  /\ left' = left - 1
  /\ main' = IF feed' # <<>> \/ left' = 0 THEN "idle" ELSE "read"
  /\ UNCHANGED <<disk, history, target, syncs>>

(* btc_parse_block runs out of the record of a block that is being written *)
(* and panics; main is not recovered.                                      *)
ReadPanics ==
  /\ main = "read"
  /\ left > 0
  /\ \E r \in Range(files[left]) : r.part = "header"
  /\ main' = "panic"
  /\ UNCHANGED <<disk, history, target, left, blocks, feed, syncs>>

(* The process is started again.                                           *)
Restart ==
  /\ main = "panic"
  /\ main' = "idle"
  /\ UNCHANGED <<disk, history, target, left, blocks, feed, syncs>>

Sleep == main = "idle" /\ UNCHANGED vars

Init ==
  /\ files = <<>>
  /\ tip = Known
  /\ active = {Known}
  /\ history = {Known}
  /\ main = "idle"
  /\ target = None
  /\ left = 0
  /\ blocks = NoBlocks
  /\ feed = <<>>
  /\ syncs = 0

Next == \/ BeginRecord \/ WriteRecord \/ Announce
        \/ Begin \/ ReadFile \/ ReadPanics \/ Restart \/ Sleep

Spec == Init /\ [][Next]_vars

-------------------------------------------------------------------------------
(* Properties.                                                             *)

(* p is a chain from a child of a known block up to b.                     *)
IsChainTo(p, b) ==
  /\ p # <<>>
  /\ Last(p) = b
  /\ Prev[p[1]] \in history
  /\ \A i \in 2 .. Len(p) : Prev[p[i]] = p[i - 1]

(* Whatever Bitcoin is writing while its files are read: the blocks handed *)
(* to neominer are a chain from a known block to the best one, and each of *)
(* them was whole when it was parsed, so that no commit of it is missing.  *)
FeedsWholeChain ==
  feed # <<>> => IsChainTo(feed, target) /\ \A b \in Range(feed) : blocks[b]

(* A trace that has read all files without an answer was right to give up: *)
(* it never happens, since a best block's whole chain is on disk when it   *)
(* is announced, in whatever order and over however many files.            *)
TraceFinds == main = "idle" /\ syncs > 0 /\ left = 0 => feed # <<>>

-------------------------------------------------------------------------------
(* The inductive invariant behind both properties, and the proofs.         *)

Record == [block : Block, part : {"size", "header", "whole"}]

(* The blocks of S descend from the known one through blocks of S.         *)
Grounded(S) ==
  /\ Known \in S
  /\ S \subseteq Block \cup {Known}
  /\ \E rank \in [S -> Nat] :
       \A b \in S \ {Known} : Prev[b] \in S /\ rank[Prev[b]] < rank[b]

(* No block has two records.                                               *)
FilesInv ==
  /\ files \in Seq(Seq(Record))
  /\ \A i, j \in DOMAIN files : \A k \in DOMAIN files[i], l \in DOMAIN files[j] :
       files[i][k].block = files[j][l].block => i = j /\ k = l

(* What Bitcoin has connected is whole and descends from the known block.  *)
ActiveInv ==
  /\ Grounded(active)
  /\ tip \in active
  /\ \A b \in active \ {Known} : IsWhole(b)

(* The block is whole in one of the files that are still to be read.       *)
Ahead(b) == \E i \in 1 .. left : [block |-> b, part |-> "whole"] \in Range(files[i])

(* While the files are read: what was connected when the trace began has   *)
(* been read whole or is still ahead.  Blocks that are connected later may *)
(* have been read when they were not whole.                                *)
ReadInv ==
  main = "read" =>
    /\ feed = <<>>
    /\ left > 0
    /\ \E S \in SUBSET active :
         /\ Grounded(S)
         /\ target \in S \ {Known}
         /\ \A b \in S \ {Known} : IF b \in DOMAIN blocks THEN blocks[b] ELSE Ahead(b)

ControlInv ==
  /\ main \in {"idle", "read", "panic"}
  /\ left \in 0 .. Len(files)
  /\ syncs \in Nat
  /\ Known \in history
  /\ main = "panic" => left > 0

Inv ==
  /\ FilesInv
  /\ ActiveInv
  /\ ControlInv
  /\ ReadInv
  /\ FeedsWholeChain
  /\ TraceFinds

===============================================================================
