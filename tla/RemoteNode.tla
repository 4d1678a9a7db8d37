------------------------------ MODULE RemoteNode ------------------------------
(***************************************************************************)
(* A node in MID_NODE_REMOTE mode: it mines nothing; a peer pushes blocks  *)
(* to it, or rolls it back, through the private HTTP API (ghettoapi.go).   *)
(* Each handler holds gapi_db_mutex from its first database access to its  *)
(* return, so at most one is inside the pipeline of Node.  Requests come   *)
(* in any order, may be lost and may be repeated.  api_db_push_block does  *)
(* not look at what it unmarshals: the hash or the previous hash may be    *)
(* the all-zero one, which is what a JSON without the field leaves.        *)
(*                                                                         *)
(* net/http recovers a panic of a handler and keeps the process running:   *)
(* whatever the handler had changed in memory by then stays changed.       *)
(***************************************************************************)
EXTENDS Node

CONSTANTS
  Pushed,        \* the blocks a peer pushes: a block of Block has its hash
                 \* and always the same previous hash; any other element
                 \* names a push without a hash
  MaxHeight,     \* bound on the heights a peer asks to roll back to
  MaxBlocks,     \* bound on the blocks loaded at the same time
  MaxCrashes     \* bound on crashes

ASSUME RemoteNodeAssumption ==
  /\ Empty \notin Pushed
  /\ \A b \in Pushed : Prev[b] \in Block \cup {Checkpoint, Empty}
  /\ MaxHeight \in Nat
  /\ MaxBlocks \in Nat
  /\ MaxCrashes \in Nat

VARIABLES
  arg,       \* the height api_db_remove_blocks_after_height was asked for
  crashes    \* how many crashes have happened

vars == <<nodeVars, arg, crashes>>

-------------------------------------------------------------------------------
(* The handlers.                                                           *)

(* db_get_block_by_height, the hash of the metadata it returns: Seek finds *)
(* the first key not below the height; without one the metadata is zero.   *)
(* (A database holds nothing but whole blocks, so that key is metadata.)   *)
db_get_block_by_height(h) ==
  LET above == {k \in DOMAIN disk : k >= h}
  IN  IF above = {} THEN Empty ELSE disk[Min(above)].hash

(* api_db_push_block takes the mutex and calls neominer_process_block.     *)
PushBlock ==
  /\ main = "idle"
  /\ pc = "none"
  /\ Len(lib) < MaxBlocks
  /\ \E b \in Pushed : block' = b
  /\ pc' = "process"
  /\ UNCHANGED <<durable, neo, info, lib, main, pending, target, meta, arg, crashes>>

(* api_db_remove_blocks_after_height takes the mutex, looks the block up   *)
(* and calls combcore_reorg, up to the database lookup in it.              *)
RemoveAfterHeight ==
  /\ main = "idle"
  /\ pc = "none"
  /\ \E h \in 0 .. MaxHeight :
       /\ arg' = h
       /\ target' = db_get_block_by_height(h)
  /\ meta' = db_get_block_by_hash(disk, target')
  /\ block' = Empty
  /\ pc' = "trace"
  /\ UNCHANGED <<durable, neo, info, lib, main, pending, crashes>>

(* Fault variant: a pushed block is left in the batch.                     *)
Return_unwritten ==
  /\ pc = "ready"
  /\ pc' = "none"
  /\ UNCHANGED <<durable, neo, info, lib, main, pending, call, arg, crashes>>

(* The handler returns; after a push it has written the batch.             *)
Return ==
  /\ pc = "ready"
  /\ IF block = Empty THEN UNCHANGED <<disk, neo>> ELSE neominer_write
  /\ pc' = "none"
  /\ UNCHANGED <<dbfile, info, lib, main, pending, call, arg, crashes>>

(* net/http recovers the panic; the deferred Unlock releases the mutex.    *)
Recover ==
  /\ pc \in ChainPanics
  /\ pc' = "none"
  /\ UNCHANGED <<durable, neo, info, lib, main, pending, call, arg, crashes>>

-------------------------------------------------------------------------------
(* The process.                                                            *)

(* main's endless loop does nothing in this mode.                          *)
Sleep ==
  /\ main = "idle"
  /\ UNCHANGED vars

Die ==
  /\ main \in LoadPanics
  /\ Halt
  /\ UNCHANGED <<arg, crashes>>

Crash ==
  /\ main \notin {"down"} \cup LoadPanics
  /\ crashes < MaxCrashes
  /\ crashes' = crashes + 1
  /\ Halt
  /\ UNCHANGED arg

Init == NodeInit /\ arg = 0 /\ crashes = 0

NodeStep == (Ingest \/ Startup) /\ UNCHANGED <<arg, crashes>>

Next == \/ PushBlock
        \/ RemoveAfterHeight
        \/ Return
        \/ Recover
        \/ NodeStep
        \/ Sleep
        \/ Die
        \/ Crash

Spec == Init /\ [][Next]_vars

(* A handler runs in a goroutine of its own, which the Go runtime          *)
(* schedules; nothing obliges a peer to send anything.                     *)
FairSpec ==
  /\ Spec
  /\ WF_vars(Ingest /\ UNCHANGED <<arg, crashes>>)
  /\ WF_vars(Return)
  /\ WF_vars(Recover)

-------------------------------------------------------------------------------
(* Safety.                                                                 *)

Mains == {"down", "new", "open", "load", "idle"} \cup LoadPanics
Pcs   == {"none", "ready"} \cup PipelinePcs \cup ChainPanics

(* Every variable has its type, in particular after a recovered panic.     *)
TypeOK ==
  /\ DOMAIN disk \subseteq Nat /\ disk \in [DOMAIN disk -> BlockEntry]
  /\ dbfile \in {"missing", "created", "unversioned", "current"}
  /\ DOMAIN batch \subseteq Nat /\ batch \in [DOMAIN batch -> BlockEntry]
  /\ cached \in Nat
  /\ height \in Nat
  /\ hash \in Block \cup {Checkpoint, Empty}
  /\ DOMAIN chain \subseteq Block \cup {Checkpoint}
  /\ chain \in [DOMAIN chain -> Block \cup {Checkpoint, Empty}]
  /\ lib \in Seq(Block)
  /\ main \in Mains
  /\ pending \subseteq DOMAIN disk
  /\ pc \in Pcs
  /\ block \in Pushed \cup {Empty}
  /\ target \in Block \cup {Checkpoint, Empty}
  /\ meta \in Nat
  /\ arg \in 0 .. MaxHeight
  /\ crashes \in 0 .. MaxCrashes

(* d is what libcomb holds, and on top of it at most one entry without a   *)
(* hash: neominer_process_block stores such a block and                    *)
(* combcore_process_block discards it.                                     *)
Mirrors(d, l) ==
  \/ d = Image(l)
  \/ \E e \in BlockEntry : e.hash = Empty /\ d = Put(Image(l), LibHeight(l) + 1, e)

(* Whatever was pushed, repeated, rolled back or panicked before: when no  *)
(* handler holds gapi_db_mutex, the database holds block for block what    *)
(* libcomb has loaded, and at most the last block pushed without a hash    *)
(* above it, COMBInfo.Height is libcomb's height and no write is pending   *)
(* (api_db_push_block, api_db_remove_blocks_after_height).                 *)
DatabaseMirrorsLib ==
  main = "idle" /\ pc = "none" =>
    /\ Mirrors(disk, lib)
    /\ height = LibHeight(lib)
    /\ batch = NoBlocks

(* A recovered panic is one of the two that come before anything is        *)
(* stored: no panic leaves a block in the batch or half a block loaded     *)
(* (neominer_process_block, combcore_process_block).                       *)
PanicsStoreNothing == pc \in ChainPanics => pc \in {"chain broken", "past checkpoint"}

(* No push, in whatever order and after whatever recovered panic, stores   *)
(* a block above one that is not the previous block it names.  Two kinds   *)
(* are exempt: blocks that follow the checkpoint, which combcore_reorg     *)
(* stores above the lowest block, and blocks with an all-zero previous     *)
(* hash, which are stored whenever a recovered panic or a rollback above   *)
(* the tip has left COMBInfo.Hash zero (neominer_process_block).           *)
StoredOnParent ==
  [][ \A h \in DOMAIN disk' :
        \/ h \in DOMAIN disk /\ disk'[h] = disk[h]
        \/ disk'[h].previous \in {Checkpoint, Empty}
        \/ h - 1 \in DOMAIN disk' /\ disk'[h].previous = disk'[h - 1].hash ]_vars

(* A rollback to a height that is not above the tip deletes only blocks    *)
(* after that height, whatever was pushed before                           *)
(* (api_db_remove_blocks_after_height).  Above the tip the lookup finds    *)
(* nothing, and all blocks but the lowest are deleted.                     *)
RemovesOnlyAfterHeight ==
  [][ \A h \in DOMAIN disk \ DOMAIN disk' :
        block = Empty /\ arg <= Max(DOMAIN disk) => h > arg ]_vars

(* Whatever was pushed, repeated, rolled back or panicked before, and      *)
(* wherever the process died, the next start loads the database; it panics *)
(* only if a push the handler should have refused was stored: a second     *)
(* block that follows the checkpoint, or one with an all-zero previous     *)
(* hash (neominer_process_block, combcore_reorg, db_load).                 *)
FailsOnlyIfMisplaced ==
  main = "corruption height 0" =>
    \E h \in DOMAIN disk :
      \/ disk[h].previous = Empty
      \/ disk[h].previous = Checkpoint /\ h > CheckpointHeight + 1

-------------------------------------------------------------------------------
(* The inductive invariant behind these properties.                        *)

(* Each block of l follows the one before or, after a push that rolled the *)
(* node back to the checkpoint, the checkpoint itself: that rollback       *)
(* leaves the lowest block.  After COMBInfo.Hash was left zero, it follows *)
(* nothing.                                                                *)
LinkedOrRestarted(l) ==
  \A i \in 1 .. Len(l) :
    Prev[l[i]] \in {Checkpoint, Empty} \/ (i > 1 /\ Prev[l[i]] = l[i - 1])

(* COMBInfo.Chain is part of the block tree.                               *)
ChainInv ==
  /\ Checkpoint \in DOMAIN chain
  /\ chain[Checkpoint] = Empty
  /\ \A x \in DOMAIN chain \ {Checkpoint} : chain[x] = Prev[x]

(* libcomb's blocks.  COMBInfo.Hash is the last of them, unless a panic or *)
(* a rollback above the tip has walked it past the checkpoint, or a block  *)
(* without a hash was pushed onto the checkpoint.                          *)
LibInv ==
  /\ height = LibHeight(lib)
  /\ LinkedOrRestarted(lib)
  /\ \A i \in 1 .. Len(lib) : lib[i] \in DOMAIN chain
  /\ pc \notin {"trace", "unload", "store"} => hash \in {Tip(lib), Checkpoint, Empty}

(* Entry h of d is a block as it was pushed; only the last has no hash.    *)
StoredAs(d, h) ==
  /\ h > CheckpointHeight
  /\ IF d[h].hash = Empty THEN h + 1 \notin DOMAIN d
     ELSE d[h] = Entry(d[h].hash)
  /\ \/ d[h].previous \in {Checkpoint, Empty}
     \/ h - 1 \in DOMAIN d /\ d[h].previous = d[h - 1].hash

WellStored(d) == Gapless(d) /\ \A h \in DOMAIN d : StoredAs(d, h)

(* The database holds such blocks, without a gap.                          *)
DiskInv ==
  /\ WellStored(disk)
  /\ dbfile \in {"missing", "created"} => disk = NoBlocks

(* The database with the batch on top of it mirrors libcomb; the batch     *)
(* outlives no handler.                                                    *)
MirrorInv ==
  /\ main = "idle" /\ pc # "unload" =>
       Mirrors(Write(batch, disk), lib) /\ WellStored(Write(batch, disk))
  /\ pc \notin {"full", "ready"} => cached = 0
  /\ cached = 0 => batch = NoBlocks
  /\ cached > 0 => block # Empty

(* While the initial load runs, libcomb holds the lower part of the        *)
(* database; before it, nothing.                                           *)
LoadInv ==
  /\ main # "idle" => pc = "none" /\ batch = NoBlocks
  /\ main \in {"down", "new", "open"} => lib = <<>> /\ hash = Checkpoint
  /\ main \in {"down", "new", "open", "idle"} => pending = {}
  /\ main = "new" => dbfile = "created"
  /\ main = "load" => dbfile = "current"
  /\ main = "idle" => dbfile \in {"current", "unversioned"}
  /\ main = "load" =>
       /\ hash = Tip(lib)
       /\ \/ pending = {h \in DOMAIN disk : h > LibHeight(lib)}
          \/ /\ pending = {}
             /\ \A h \in DOMAIN disk : h > LibHeight(lib) => disk[h].hash = Empty
       /\ \A i \in 1 .. Len(lib) :
            CheckpointHeight + i \in DOMAIN disk
              /\ disk[CheckpointHeight + i].hash = lib[i]

(* What a handler knows: its block or its height, where COMBInfo.Hash has  *)
(* got to, and the height combcore_reorg cuts at.                          *)
HandlerInv ==
  /\ pc \in {"process", "flush", "store"} => block \in Pushed
  /\ pc \in {"trace", "unload"} =>
       /\ IF block = Empty THEN target # Checkpoint
          ELSE block \in Pushed /\ target = Prev[block]
       /\ batch = NoBlocks
  /\ pc = "trace" =>
       /\ hash \in {Checkpoint, Empty} \/ \E k \in 1 .. Len(lib) : hash = lib[k]
       /\ meta = db_get_block_by_hash(disk, target)
       /\ block = Empty => target = db_get_block_by_height(arg)
  /\ pc = "unload" =>
       /\ hash = target
       /\ \/ /\ meta - CheckpointHeight \in 1 .. Len(lib)
             /\ hash \in {Checkpoint, Empty, lib[meta - CheckpointHeight]}
             /\ disk = Segment(lib, 0, meta - CheckpointHeight)
          \/ lib = <<>> /\ disk = NoBlocks /\ meta = 0
                 /\ hash \in {Checkpoint, Empty}
          \/ meta = LibHeight(lib) + 1
  /\ pc = "store" => Prev[block] = hash /\ hash \in {Tip(lib), Checkpoint, Empty}

(* The two panics that come before anything is stored are the only ones.   *)
Inv ==
  /\ TypeOK
  /\ PanicsStoreNothing
  /\ ChainInv
  /\ LibInv
  /\ DiskInv
  /\ MirrorInv
  /\ LoadInv
  /\ HandlerInv
  /\ FailsOnlyIfMisplaced

-------------------------------------------------------------------------------
(* Liveness.                                                               *)

(* A handler that took gapi_db_mutex releases it, by its return or by a    *)
(* panic, whatever was pushed or rolled back before; the exceptions are    *)
(* rollbacks that find no block: of a node with nothing stored, whose      *)
(* UnloadBlock loop waits for height 0, below the checkpoint, and of one   *)
(* whose last block was pushed without a hash, whose loop waits for the    *)
(* height of that block, above libcomb's                                   *)
(* (api_db_push_block, api_db_remove_blocks_after_height, combcore_reorg). *)
HandlersReturn ==
  pc # "none" ~> \/ pc = "none"
                 \/ /\ pc = "unload" /\ block = Empty /\ target = Empty
                    /\ disk = NoBlocks \/ disk[Max(DOMAIN disk)].hash = Empty

===============================================================================
