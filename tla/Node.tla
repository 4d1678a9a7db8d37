--------------------------------- MODULE Node ---------------------------------
(***************************************************************************)
(* The part of COMBCore every node mode shares: the commit database        *)
(* (db.go), the chain held in memory (combcore.go), and the block          *)
(* ingestion pipeline with its write batch (neominer.go).                  *)
(*                                                                         *)
(* A block is named by its hash.  The commits of a block are determined    *)
(* by its hash and are written and deleted together with its metadata, so  *)
(* one database entry per height stands for the metadata key and all the   *)
(* commit keys of that height.  A LevelDB write is atomic and synced, so   *)
(* the pipeline is cut at each database write: between two writes the      *)
(* process may die.                                                        *)
(*                                                                         *)
(* The drivers of the pipeline are in FullNode (mining from Bitcoin) and   *)
(* RemoteNode (blocks pushed over the private HTTP API).                   *)
(***************************************************************************)
EXTENDS Integers, Sequences, FiniteSetsExt

CONSTANTS
  Block,             \* hashes of the Bitcoin blocks
  Prev,              \* Prev[b]: the previous-block hash in the header of b
  BtcHeight,         \* BtcHeight[b]: the height of b in the Bitcoin block tree
  Checkpoint,        \* COMBInfo.Hash as combcore_set_network sets it
  CheckpointHeight,  \* COMBInfo.Height as combcore_set_network sets it
  Empty,             \* the all-zero hash
  BatchCapacity      \* NeoInfo.BatchCapacity (10000 in the code)

(* The blocks form a forest of which the checkpoint's descendants are one  *)
(* tree; the genesis block has the all-zero previous hash.                 *)
ASSUME TreeAssumption ==
  /\ Checkpoint \notin Block
  /\ Empty \notin Block
  /\ Checkpoint # Empty
  /\ CheckpointHeight \in Nat
  /\ \A b \in Block : Prev[b] \in Block \cup {Checkpoint, Empty}
  /\ BtcHeight \in [Block -> Nat]
  /\ \A b \in Block : Prev[b] = Checkpoint => BtcHeight[b] = CheckpointHeight + 1
  /\ \A b \in Block : Prev[b] \in Block => BtcHeight[b] = BtcHeight[Prev[b]] + 1

ASSUME CapacityAssumption == BatchCapacity \in Nat \ {0}

VARIABLES
  \* durable
  disk,      \* LevelDB: height -> [hash, previous]
  dbfile,    \* "missing", "created" (no version key yet), "unversioned"
             \* (the write of the version key failed) or "current"
  \* NeoInfo
  batch,     \* puts not written yet: height -> [hash, previous]
  cached,    \* NeoInfo.BatchCached
  \* COMBInfo
  height, hash,
  chain,     \* COMBInfo.Chain, child -> parent
  \* libcomb
  lib,       \* the blocks loaded into libcomb, oldest first
  \* control
  main,      \* where the main goroutine is
  pending,   \* heights db_load_blocks has still to deliver
  pc,        \* where the goroutine or handler that ingests blocks is
  block,     \* its block (Empty: a rollback with no block to ingest)
  target,    \* combcore_reorg: target
  meta       \* combcore_reorg: metadata.Height

durable == <<disk, dbfile>>
neo     == <<batch, cached>>
info    == <<height, hash, chain>>
call    == <<block, target, meta>>
nodeVars == <<disk, dbfile, batch, cached, height, hash, chain, lib,
              main, pending, pc, block, target, meta>>

-------------------------------------------------------------------------------
(* Maps.  (TLC's :> and @@ mean the same; tlapm cannot expand them.)       *)

NoBlocks == [h \in {} |-> Empty]

Put(f, k, v) == [x \in DOMAIN f \cup {k} |-> IF x = k THEN v ELSE f[x]]

(* leveldb.DB.Write: every put of the batch, atomically.                   *)
Write(b, d) ==
  [h \in DOMAIN b \cup DOMAIN d |-> IF h \in DOMAIN b THEN b[h] ELSE d[h]]

(* Fault variant: the two hashes are swapped.                              *)
Entry_swapped(b) == [hash |-> Prev[b], previous |-> b]

(* What encode_block_metadata stores of a block, and its commits with it.  *)
(* A block received without a hash (RemoteNode) has the all-zero one.      *)
Entry(b) == [hash |-> IF b \in Block THEN b ELSE Empty, previous |-> Prev[b]]

-------------------------------------------------------------------------------
(* Panics.  Each is a log.Panic of the code, named after its message.      *)

ChainPanics == {"chain broken", "reorg failed",
                "chain is broken", "height mismatch", "past checkpoint"}
LoadPanics  == {"legacy db", "corruption height 0"}

Panicked == pc \in ChainPanics \/ main \in LoadPanics

-------------------------------------------------------------------------------
(* Database operations (db.go).                                            *)

(* neominer_write: db_write(NeoInfo.Batch), which resets the batch.        *)
neominer_write ==
  /\ disk' = Write(batch, disk)
  /\ batch' = NoBlocks
  /\ cached' = 0

(* Fault variant: the block at the given height survives.                  *)
db_remove_blocks_after_off_by_one(h) ==
  disk' = [k \in {j \in DOMAIN disk : j <= h} |-> disk[k]]

(* db_remove_blocks_after: deletes every key from height h upwards.        *)
db_remove_blocks_after(h) ==
  disk' = [k \in {j \in DOMAIN disk : j < h} |-> disk[k]]

(* Fault variant: the search stops one block late.                         *)
db_get_block_by_hash_late(d, b) ==
  LET found == {k \in DOMAIN d : d[k].hash = b}
  IN  IF found # {} THEN Max(found) - 1 ELSE 0

(* db_get_block_by_hash, the Height of the metadata it returns.  The loop  *)
(* runs from the last key to the first and keeps what it decoded last: a   *)
(* hash that is not stored yields the metadata of the LOWEST block, and    *)
(* an empty database the zero metadata.                                    *)
db_get_block_by_hash(d, b) ==
  LET found == {k \in DOMAIN d : d[k].hash = b}
  IN  IF found # {} THEN Max(found)
      ELSE IF DOMAIN d # {} THEN Min(DOMAIN d) ELSE 0

(* db_process_block: delete what is stored at that height, put the block.  *)
db_process_block(e, h) == batch' = Put(batch, h, e)

-------------------------------------------------------------------------------
(* The chain in memory (combcore.go).                                      *)

(* libcomb.GetHeight: SetHeight(checkpoint height), one up per LoadBlock.  *)
LibHeight(l) == CheckpointHeight + Len(l)

(* combcore_init, combcore_set_network and neominer_init.                  *)
combcore_init ==
  /\ height' = CheckpointHeight
  /\ hash' = Checkpoint
  /\ chain' = Put(NoBlocks, Checkpoint, Empty)
  /\ lib' = <<>>
  /\ batch' = NoBlocks
  /\ cached' = 0

(* What combcore_process_block makes of entry e filed under height h.      *)
Verdict(e, h) ==
  IF e.hash = Empty THEN "discarded"
  ELSE IF e.previous # hash THEN "chain is broken"
  ELSE IF LibHeight(lib) + 1 # h THEN "height mismatch"
  ELSE "loaded"

combcore_process_block(e, h) ==
  /\ IF Verdict(e, h) \in {"loaded", "height mismatch"}
     THEN /\ lib' = Append(lib, e.hash)
          /\ height' = LibHeight(lib) + 1
     ELSE UNCHANGED <<lib, height>>
  /\ IF Verdict(e, h) = "loaded"
     THEN /\ chain' = Put(chain, e.hash, hash)
          /\ hash' = e.hash
     ELSE UNCHANGED <<chain, hash>>

-------------------------------------------------------------------------------
(* Ingesting a block: neominer_process_block and combcore_reorg.  The      *)
(* caller sets pc = "process" and block; pc = "ready" is the return.       *)

PipelinePcs == {"process", "flush", "trace", "unload", "store", "full"}

(* Is the previous block the tip, a block of COMBInfo.Chain, or unknown?   *)
Detect ==
  /\ pc = "process"
  /\ pc' = IF Prev[block] = hash THEN "store"
           ELSE IF Prev[block] \in DOMAIN chain THEN "flush"
           ELSE "chain broken"
  /\ UNCHANGED <<durable, neo, info, lib, main, pending, call>>

(* neominer_write, then combcore_reorg up to its database lookup.          *)
FlushForReorg ==
  /\ pc = "flush"
  /\ neominer_write
  /\ target' = Prev[block]
  /\ meta' = db_get_block_by_hash(disk', target')
  /\ pc' = "trace"
  /\ UNCHANGED <<dbfile, info, lib, main, pending, block>>

(* Fault variant: the loop assigns a hash of its own (:= for =), and       *)
(* COMBInfo.Hash stays.                                                    *)
TraceBack_shadows ==
  /\ pc = "trace"
  /\ hash # target
  /\ pc' = IF hash \in DOMAIN chain THEN "trace" ELSE "past checkpoint"
  /\ UNCHANGED <<durable, neo, info, lib, main, pending, call>>

(* One turn of the loop that walks COMBInfo.Hash back to the target.  A    *)
(* missing key yields the zero hash, which is stored before the panic.     *)
TraceBack ==
  /\ pc = "trace"
  /\ hash # target
  /\ hash' = IF hash \in DOMAIN chain THEN chain[hash] ELSE Empty
  /\ pc' = IF hash \in DOMAIN chain THEN "trace" ELSE "past checkpoint"
  /\ UNCHANGED <<durable, neo, height, chain, lib, main, pending, call>>

RemoveBlocks ==
  /\ pc = "trace"
  /\ hash = target
  /\ db_remove_blocks_after(meta + 1)
  /\ pc' = "unload"
  /\ UNCHANGED <<dbfile, neo, info, lib, main, pending, call>>

(* Fault variant: the loop does not keep COMBInfo.Height up to date.       *)
UnloadBlocks_stale_height ==
  /\ pc = "unload"
  /\ meta \in CheckpointHeight .. height
  /\ lib' = SubSeq(lib, 1, Len(lib) - (height - meta))
  /\ pc' = IF block = Empty THEN "ready" ELSE "store"
  /\ UNCHANGED <<durable, neo, info, main, pending, call>>

(* The UnloadBlock loop; its exit test is height = meta, so it ends only   *)
(* if meta is a height libcomb can be unloaded to.                         *)
UnloadBlocks ==
  /\ pc = "unload"
  /\ meta \in CheckpointHeight .. height
  /\ lib' = SubSeq(lib, 1, Len(lib) - (height - meta))
  /\ height' = meta
  /\ pc' = IF block = Empty THEN "ready" ELSE "store"
  /\ UNCHANGED <<durable, neo, hash, chain, main, pending, call>>

(* Fault variant: the batch is never found full.                           *)
Store_unbounded ==
  /\ pc = "store"
  /\ db_process_block(Entry(block), height + 1)
  /\ cached' = cached + 1
  /\ combcore_process_block(Entry(block), height + 1)
  /\ pc' = "ready"
  /\ UNCHANGED <<durable, main, pending, call>>

(* The rest of neominer_process_block: the check that the rollback worked, *)
(* the batch, libcomb, and whether the batch is full.                      *)
Store ==
  /\ pc = "store"
  /\ IF Prev[block] # hash
     THEN /\ pc' = "reorg failed"
          /\ UNCHANGED <<batch, cached, info, lib>>
     ELSE /\ db_process_block(Entry(block), height + 1)
          /\ cached' = cached + 1
          /\ combcore_process_block(Entry(block), height + 1)
          /\ pc' = IF Verdict(Entry(block), height + 1) \in ChainPanics
                   THEN Verdict(Entry(block), height + 1)
                   ELSE IF cached' >= BatchCapacity THEN "full" ELSE "ready"
  /\ UNCHANGED <<durable, main, pending, call>>

FlushFull ==
  /\ pc = "full"
  /\ neominer_write
  /\ pc' = "ready"
  /\ UNCHANGED <<dbfile, info, lib, main, pending, call>>

Ingest == \/ Detect
          \/ FlushForReorg
          \/ TraceBack
          \/ RemoveBlocks
          \/ UnloadBlocks
          \/ Store
          \/ FlushFull

-------------------------------------------------------------------------------
(* Starting: main up to the node-mode switch, db_open, db_start, db_load.  *)

(* db_open.  Opening a database that does not exist creates it.            *)
Start ==
  /\ main = "down"
  /\ main' = IF dbfile = "missing" THEN "new" ELSE "open"
  /\ dbfile' = IF dbfile = "missing" THEN "created" ELSE dbfile
  /\ UNCHANGED <<disk, neo, info, lib, pending, pc, call>>

(* Fault variant: the version key is not written.                          *)
DbNew_unversioned ==
  /\ main = "new"
  /\ main' = "idle"
  /\ UNCHANGED <<durable, neo, info, lib, pending, pc, call>>

(* db_new writes the version key; a new database is not loaded.  The error *)
(* of db_write is dropped: if the write failed, the node goes on without   *)
(* the key.                                                                *)
DbNew ==
  /\ main = "new"
  /\ dbfile' \in {"current", "unversioned"}
  /\ main' = "idle"
  /\ UNCHANGED <<disk, neo, info, lib, pending, pc, call>>

(* A database without a version key has version 1.                         *)
db_get_version == IF dbfile = "current" THEN 2 ELSE 1

(* db_start: only a database of the current version (2) is loaded.         *)
DbVersion ==
  /\ main = "open"
  /\ main' = IF db_get_version = 2 THEN "load" ELSE "legacy db"
  /\ pending' = IF db_get_version = 2 THEN DOMAIN disk ELSE {}
  /\ UNCHANGED <<durable, neo, info, lib, pc, call>>

(* db_load_blocks delivers the blocks in key order.  A panic of            *)
(* combcore_process_block is recovered with corruption_height still 0,     *)
(* which panics again.  (Fingerprint mismatches, the other way into the    *)
(* recovery, need commits, which this module does not have.)               *)
LoadNext ==
  /\ main = "load"
  /\ pending # {}
  /\ LET k == Min(pending)
     IN  /\ combcore_process_block(disk[k], k)
         /\ pending' = pending \ {k}
         /\ main' = IF Verdict(disk[k], k) \in ChainPanics
                    THEN "corruption height 0" ELSE "load"
  /\ UNCHANGED <<durable, neo, pc, call>>

LoadDone ==
  /\ main = "load"
  /\ pending = {}
  /\ main' = "idle"
  /\ UNCHANGED <<durable, neo, info, lib, pending, pc, call>>

Startup == \/ Start
           \/ DbNew
           \/ DbVersion
           \/ LoadNext
           \/ LoadDone

(* The process ends: what was in memory is gone, and the next process      *)
(* begins with combcore_init.                                              *)
Halt ==
  /\ combcore_init
  /\ main' = "down"
  /\ pending' = {}
  /\ pc' = "none"
  /\ block' = Empty
  /\ target' = Empty
  /\ meta' = 0
  /\ UNCHANGED durable

NodeInit ==
  /\ disk = NoBlocks
  /\ dbfile = "missing"
  /\ batch = NoBlocks
  /\ cached = 0
  /\ height = CheckpointHeight
  /\ hash = Checkpoint
  /\ chain = Put(NoBlocks, Checkpoint, Empty)
  /\ lib = <<>>
  /\ main = "down"
  /\ pending = {}
  /\ pc = "none"
  /\ block = Empty
  /\ target = Empty
  /\ meta = 0

-------------------------------------------------------------------------------
(* Vocabulary of the properties.                                           *)

BlockEntry ==
  [hash : Block \cup {Empty}, previous : Block \cup {Checkpoint, Empty}]

(* What libcomb holds, as the database should store it.                    *)
Image(l) ==
  [h \in CheckpointHeight + 1 .. LibHeight(l) |-> Entry(l[h - CheckpointHeight])]

(* The hash of the last block loaded.                                      *)
Tip(l) == IF l = <<>> THEN Checkpoint ELSE l[Len(l)]

(* Blocks i + 1 .. j of l, as the database stores them.                    *)
Segment(l, i, j) ==
  [h \in CheckpointHeight + i + 1 .. CheckpointHeight + j |->
     Entry(l[h - CheckpointHeight])]

(* The heights of d are an interval that starts above the checkpoint.      *)
Gapless(d) ==
  d = NoBlocks \/ \E m \in DOMAIN d : DOMAIN d = CheckpointHeight + 1 .. m

(* d is a chain of blocks without a gap from the checkpoint upwards, each  *)
(* at its Bitcoin height and naming the one below it as its previous.      *)
ChainStored(d) ==
  /\ \A h \in DOMAIN d :
       /\ h > CheckpointHeight
       /\ d[h].hash \in Block
       /\ d[h] = Entry(d[h].hash)
       /\ BtcHeight[d[h].hash] = h
       /\ h = CheckpointHeight + 1 => d[h].previous = Checkpoint
       /\ h > CheckpointHeight + 1 =>
            h - 1 \in DOMAIN d /\ d[h].previous = d[h - 1].hash

===============================================================================
