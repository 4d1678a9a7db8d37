------------------------------ MODULE BlockStore ------------------------------
(***************************************************************************)
(* The commit database (db.go) key by key, which Node models block by      *)
(* block: a metadata key for each height and a commit key for each commit  *)
(* of it, ordered as LevelDB orders them; what the readers of the database *)
(* make of any set of keys; and the recovery of a load that meets a block  *)
(* whose commits do not match its fingerprint.  The ingestion pipeline     *)
(* (neominer.go, combcore.go) is reduced to what it does to the keys.      *)
(*                                                                         *)
(* SHA256 is ideal: no two sequences of commits have the same fingerprint  *)
(* (that of no commits is all zero).                                       *)
(***************************************************************************)
EXTENDS Integers, Sequences, SequencesExt, FiniteSetsExt

CONSTANTS
  Block, Prev,       \* Bitcoin's blocks, and the block each one follows
  Commits,           \* Commits[b]: the commits of block b, in order
  Checkpoint, CheckpointHeight,
  Empty,             \* the all-zero hash
  Garbage,           \* a damaged hash or commit
  MaxDamage,         \* bound on the keys damaged, the removals that fail and
                     \* the rollbacks to the checkpoint
  MaxCrashes         \* bound on the ends of the process

ASSUME BlockStoreAssumption ==
  /\ {Checkpoint, Empty, Garbage} \cap Block = {}
  /\ Checkpoint # Garbage
  /\ Prev \in [Block -> Block \cup {Checkpoint}]
  /\ DOMAIN Commits = Block
  /\ \A b \in Block : Commits[b] \in Seq(Range(Commits[b]))
  /\ CheckpointHeight \in Nat
  /\ MaxDamage \in Nat
  /\ MaxCrashes \in Nat

VARIABLES
  store,       \* LevelDB: key -> value
  batch,       \* NeoInfo.Batch: key -> value or Deleted
  line,        \* COMBInfo.Chain from the checkpoint's child to COMBInfo.Hash
  lib,         \* libcomb: the commits of each block loaded
  main,        \* "down", "load" (in db_load) or "run"
  loader,      \* where the goroutine db_load starts is
  scan,        \* the blocks db_load_blocks has still to send
  corruption,  \* corruption_height
  doomed,      \* the keys the recovery has listed for deletion
  pc, block, meta,   \* neominer_process_block and combcore_reorg
  damage,      \* how many keys were damaged, removals failed and rollbacks
               \* went to the checkpoint
  crashes      \* how often the process was ended

memory == <<batch, line, lib>>
load   == <<main, loader, scan, corruption, doomed>>
call   == <<pc, block, meta>>
faults == <<damage, crashes>>
vars   == <<store, memory, load, call, faults>>

-------------------------------------------------------------------------------
(* Keys.  <<h, 0>> is the metadata key of height h (8 bytes) and           *)
(* <<h, i>> the key of its commit of order i - 1 (16 bytes, of which the   *)
(* first 8 are the height): big-endian, so LevelDB's order is this one.    *)

Before(k, l) == k[1] < l[1] \/ (k[1] = l[1] /\ k[2] < l[2])

MetaKey(h) == <<h, 0>>

IsMeta(k) == k[2] = 0

Heights(s) == {k[1] : k \in {l \in DOMAIN s : IsMeta(l)}}

NoKeys == [k \in {} |-> Empty]

Deleted == [deleted |-> TRUE]

ASSUME CommitAssumption == \A b \in Block : Deleted \notin Range(Commits[b])

Only(s, K) == [k \in K |-> s[k]]

(* leveldb.DB.Write: the batch's puts and deletes, atomically.             *)
Write(b, s) ==
  LET K == {k \in DOMAIN b \cup DOMAIN s : k \in DOMAIN b => b[k] # Deleted}
  IN  [k \in K |-> IF k \in DOMAIN b THEN b[k] ELSE s[k]]

db_compute_block_fingerprint(cs) == [sha256 |-> cs]

(* A fingerprint or a previous hash that was altered on disk: that of no   *)
(* commits at all, and of no block.                                        *)
Altered == [altered |-> TRUE]

ASSUME AlteredAssumption == Altered \notin Block \cup {Checkpoint, Garbage}

(* The metadata of block b.                                                *)
Metadata(b) ==
  [hash |-> b, previous |-> Prev[b],
   fingerprint |-> db_compute_block_fingerprint(Commits[b])]

(* What db_store_block puts for block b at height h.                       *)
db_store_block(b, h) ==
  [k \in {MetaKey(h)} \cup {<<h, i>> : i \in DOMAIN Commits[b]} |->
     IF IsMeta(k) THEN Metadata(b) ELSE Commits[b][k[2]]]

(* db_remove_block: the keys of that height in the database; those that    *)
(* are only in the batch are not found.                                    *)
db_remove_block(s, h) == [k \in {l \in DOMAIN s : l[1] = h} |-> Deleted]

(* db_process_block adds to the batch; a key's last operation counts.      *)
db_process_block(s, bt, b, h) ==
  LET new == db_store_block(b, h)
      del == db_remove_block(s, h)
  IN  [k \in DOMAIN bt \cup DOMAIN del \cup DOMAIN new |->
         IF k \in DOMAIN new THEN new[k]
         ELSE IF k \in DOMAIN del THEN del[k] ELSE bt[k]]

(* Fault variant: the block at that height is not among them.              *)
KeysAfter_above(s, h) == {k \in DOMAIN s : k[1] > h}

(* The keys db_remove_blocks_after lists.                                  *)
KeysAfter(s, h) == {k \in DOMAIN s : k[1] >= h}

-------------------------------------------------------------------------------
(* Readers.  Each iterates over a snapshot of the keys.                    *)

(* LevelDB's iterator: the i-th key of K has i - 1 keys of K before it.    *)
InOrder(K) ==
  [i \in 1 .. Cardinality(K) |->
     CHOOSE k \in K : Cardinality({l \in K : Before(l, k)}) = i - 1]

(* The commits of the keys after metadata height lo and before height hi,  *)
(* whatever height they name themselves.                                   *)
CommitsBetween(s, lo, hi) ==
  LET ks == InOrder({k \in DOMAIN s : ~IsMeta(k) /\ lo <= k[1] /\ k[1] < hi})
  IN  [i \in DOMAIN ks |-> s[ks[i]]]

(* Fault variant: the search does not stop at the next metadata key.       *)
NextHeight_none(s, h) == Max({k[1] : k \in DOMAIN s}) + 1

(* The height of the next metadata key after height h, or one past the end.*)
NextHeight(s, h) ==
  LET above == {g \in Heights(s) : g > h}
  IN  IF above = {} THEN Max({k[1] : k \in DOMAIN s}) + 1 ELSE Min(above)

(* db_load_blocks: the blocks it sends, lowest first.  A block is sent     *)
(* when the metadata key after it comes; so the zero block is sent first,  *)
(* with the commits before any metadata.                                   *)
db_load_blocks(s) ==
  IF Heights(s) = {} THEN {}
  ELSE {[height |-> 0, hash |-> Empty, previous |-> Empty,
         fingerprint |-> db_compute_block_fingerprint(<<>>),
         commits |-> CommitsBetween(s, 0, Min(Heights(s)))]}
       \cup {LET m == s[MetaKey(h)]
             IN  [height |-> h, hash |-> m.hash, previous |-> m.previous,
                  fingerprint |-> m.fingerprint,
                  commits |-> CommitsBetween(s, h, NextHeight(s, h))] : h \in Heights(s)}

(* The next of the blocks still to be sent.                                *)
First(blocks) == CHOOSE b \in blocks : \A c \in blocks : b.height <= c.height

(* Fault variant: the search stops one block late.                         *)
db_get_block_by_hash_late(s, x) ==
  LET found == {h \in Heights(s) : s[MetaKey(h)].hash = x}
  IN  IF found # {} THEN Max(found) - 1 ELSE 0

(* db_get_block_by_hash: see Node.                                         *)
db_get_block_by_hash(s, x) ==
  LET found == {h \in Heights(s) : s[MetaKey(h)].hash = x}
  IN  IF found # {} THEN Max(found)
      ELSE IF Heights(s) # {} THEN Min(Heights(s)) ELSE 0

(* db_get_full_block_by_height, for a first key at or above h that is      *)
(* metadata.  The hashes are set only if its height is h; its commits are  *)
(* added in any case.  (value is read once, at Seek: the iterator keeps    *)
(* the current value in that buffer, so each turn finds the commit there.) *)
db_get_full_block_by_height(s, h) ==
  LET above == {g \in Heights(s) : g >= h}
      first == Min(above)
      m     == s[MetaKey(first)]
  IN  IF above = {} THEN [hash |-> Empty, previous |-> Empty, commits |-> <<>>]
      ELSE [hash     |-> IF first = h THEN m.hash ELSE Empty,
            previous |-> IF first = h THEN m.previous ELSE Empty,
            commits  |-> CommitsBetween(s, first, NextHeight(s, first))]

(* db_find_commits: the height of the last metadata key before each commit *)
(* key that has value c, in key order.                                     *)
db_find_commits(s, c) ==
  LET ks == InOrder({k \in DOMAIN s : ~IsMeta(k) /\ s[k] = c})
  IN  [i \in DOMAIN ks |-> Max({0} \cup {h \in Heights(s) : h <= ks[i][1]})]

-------------------------------------------------------------------------------
(* The list of a loaded block's commits, made from libcomb's map of commit *)
(* to tag, which Go ranges over in any order.  An entry is the place that  *)
(* its tag gives the commit in the block (Order + 1).                      *)

(* The places a map has: one for each commit of cs, also if cs repeats it. *)
raw_commits(cs) ==
  {P \in SUBSET DOMAIN cs :
     \A i \in DOMAIN cs : \E j \in P : {k \in P : cs[k] = cs[i]} = {j}}

(* Fault variant: the search stops at the first entry with a lower order.  *)
insert_at_swapped(e, out) ==
  LET after == {i \in DOMAIN out : out[i] < e}
  IN  IF after = {} THEN Len(out) + 1 ELSE Min(after)

(* The first entry of a higher order, or the end (Go counts from 0).       *)
insert_at(e, out) ==
  LET after == {i \in DOMAIN out : e < out[i]}
  IN  IF after = {} THEN Len(out) + 1 ELSE Min(after)

(* The list after each entry, for the entries es in the order Go ranges.   *)
Listed(es) ==
  LET out[n \in 0 .. Len(es)] ==
        IF n = 0 THEN <<>>
        ELSE InsertAt(out[n - 1], insert_at(es[n], out[n - 1]), es[n])
  IN  out[Len(es)]

api_lib_get_block_commits(h) ==
  LET cs == lib[h - CheckpointHeight]
  IN  UNION {{[i \in DOMAIN es |-> cs[Listed(es)[i]]] : es \in SetToSeqs(P)} :
               P \in raw_commits(cs)}

-------------------------------------------------------------------------------
(* Ingesting blocks: what neominer_process_block does to the keys.         *)

Height == CheckpointHeight + Len(lib)

Tip == IF line = <<>> THEN Checkpoint ELSE Last(line)

(* db_process_block and combcore_process_block for block b on the tip.     *)
StoreBlock(b) ==
  /\ batch' = db_process_block(store, batch, b, Height + 1)
  /\ line' = Append(line, b)
  /\ lib' = Append(lib, Commits[b])

Process ==
  /\ main = "run"
  /\ pc = "ready"
  /\ \E b \in Block : Prev[b] = Tip /\ StoreBlock(b)
  /\ UNCHANGED <<store, load, call, faults>>

(* neominer_write, when the batch is full or the sync is over.  (If its    *)
(* db_write fails it panics, which ends the process: Crash.)               *)
neominer_write ==
  /\ store' = Write(batch, store)
  /\ batch' = NoKeys

Flush ==
  /\ main = "run"
  /\ pc = "ready"
  /\ batch # NoKeys
  /\ neominer_write
  /\ UNCHANGED <<line, lib, load, call, faults>>

(* The target of a rollback: an earlier block of the branch or, which is   *)
(* counted as damage, the checkpoint.                                      *)
Target(x) ==
  \/ x \in Range(line) /\ UNCHANGED damage
  \/ x = Checkpoint /\ damage < MaxDamage /\ damage' = damage + 1

(* Fault variant: the batch is not written before the rollback.            *)
ReorgFlush_missing ==
  /\ main = "run"
  /\ pc = "ready"
  /\ \E b \in Block : Prev[b] # Tip /\ Target(Prev[b]) /\ block' = b
  /\ meta' = db_get_block_by_hash(store, Prev[block'])
  /\ pc' = "trace"
  /\ UNCHANGED <<store, memory, load, crashes>>

(* A block that follows an earlier block or the checkpoint: the batch is   *)
(* written, and combcore_reorg looks the target up.  The checkpoint is not *)
(* stored, so the lowest block is found in its place.  (A target that is   *)
(* not on the way back panics after the same write: Flush and Crash.)      *)
ReorgFlush ==
  /\ main = "run"
  /\ pc = "ready"
  /\ \E b \in Block : Prev[b] # Tip /\ Target(Prev[b]) /\ block' = b
  /\ neominer_write
  /\ meta' = db_get_block_by_hash(store', Prev[block'])
  /\ pc' = "trace"
  /\ UNCHANGED <<line, lib, load, crashes>>

(* COMBInfo.Hash goes back to the target, then db_remove_blocks_after,     *)
(* which returns nil even if its db_write failed.                          *)
ReorgRemove ==
  /\ pc = "trace"
  /\ line' = IF Prev[block] = Checkpoint THEN <<>>
             ELSE SubSeq(line, 1, CHOOSE j \in DOMAIN line : line[j] = Prev[block])
  /\ \/ /\ store' = Only(store, DOMAIN store \ KeysAfter(store, meta + 1))
        /\ UNCHANGED damage
     \/ /\ damage < MaxDamage
        /\ damage' = damage + 1
        /\ UNCHANGED store
  /\ pc' = "unload"
  /\ UNCHANGED <<batch, lib, load, block, meta, crashes>>

(* The UnloadBlock loop, which ends at height meta, and only there.        *)
ReorgUnload ==
  /\ pc = "unload"
  /\ meta \in CheckpointHeight .. Height
  /\ lib' = SubSeq(lib, 1, meta - CheckpointHeight)
  /\ pc' = "store"
  /\ UNCHANGED <<store, batch, line, load, block, meta, faults>>

ReorgSpin ==
  /\ pc = "unload"
  /\ meta \notin CheckpointHeight .. Height
  /\ UNCHANGED vars

ReorgStore ==
  /\ pc = "store"
  /\ StoreBlock(block)
  /\ pc' = "ready"
  /\ UNCHANGED <<store, load, block, meta, faults>>

-------------------------------------------------------------------------------
(* db_load and its recovery.                                               *)

(* db_load: the goroutine starts, and main sends it the blocks.            *)
Start ==
  /\ main = "down"
  /\ main' = "load"
  /\ loader' = "receive"
  /\ scan' = db_load_blocks(store)
  /\ UNCHANGED <<store, memory, corruption, doomed, call, faults>>

(* Fault variant: the commits are not compared with the fingerprint.       *)
Mismatch_unchecked(b) == FALSE

Mismatch(b) == b.fingerprint # db_compute_block_fingerprint(b.commits)

(* One block: its fingerprint, then combcore_process_block.  The zero      *)
(* block is dropped.  Only a wrong fingerprint sets corruption_height;     *)
(* the panics of combcore_process_block leave it 0.  It compares heights   *)
(* after libcomb has loaded the block.                                     *)
LoadBlock ==
  /\ loader = "receive"
  /\ scan # {}
  /\ scan' = scan \ {First(scan)}
  /\ LET new   == First(scan)
         taken == ~Mismatch(new) /\ new.hash # Empty /\ new.previous = Tip
         fits  == taken /\ new.height = Height + 1
     IN  /\ loader' = IF Mismatch(new) \/ (new.hash # Empty /\ ~fits)
                      THEN "drain" ELSE "receive"
         /\ corruption' = IF Mismatch(new) THEN new.height ELSE corruption
         /\ lib' = IF taken THEN Append(lib, new.commits) ELSE lib
         /\ line' = IF fits THEN Append(line, new.hash) ELSE line
  /\ UNCHANGED <<store, batch, main, doomed, call, faults>>

LoadEnd ==
  /\ loader = "receive"
  /\ scan = {}
  /\ loader' = "none"
  /\ main' = "run"
  /\ UNCHANGED <<store, memory, scan, corruption, doomed, call, faults>>

(* Fault variant: the panic is recovered and nothing more is received.     *)
LoadDrain_stops ==
  /\ loader = "drain"
  /\ scan # {}
  /\ loader' = "none"
  /\ UNCHANGED <<store, memory, main, scan, corruption, doomed, call, faults>>

(* The panic is recovered: the deferred function receives the rest.        *)
LoadDrain ==
  /\ loader = "drain"
  /\ scan # {}
  /\ scan' = scan \ {First(scan)}
  /\ UNCHANGED <<store, memory, main, loader, corruption, doomed, call, faults>>

(* wait.Unlock lets main go on; the deferred function has not finished.    *)
LoadUnlock ==
  /\ loader = "drain"
  /\ scan = {}
  /\ loader' = IF corruption = 0 THEN "panic" ELSE "list"
  /\ main' = "run"
  /\ UNCHANGED <<store, memory, scan, corruption, doomed, call, faults>>

(* db_remove_blocks_after(corruption_height), in the goroutine: the keys   *)
(* are listed from a snapshot, and deleted in one write.                   *)
RecoverList ==
  /\ loader = "list"
  /\ doomed' = KeysAfter(store, corruption)
  /\ loader' = "delete"
  /\ UNCHANGED <<store, memory, main, scan, corruption, call, faults>>

RecoverDelete ==
  /\ loader = "delete"
  /\ store' = Only(store, DOMAIN store \ doomed)
  /\ loader' = "none"
  /\ UNCHANGED <<memory, main, scan, corruption, doomed, call, faults>>

-------------------------------------------------------------------------------
(* The process and its disk.                                               *)

Halt ==
  /\ batch' = NoKeys /\ line' = <<>> /\ lib' = <<>>
  /\ main' = "down" /\ loader' = "none" /\ scan' = {}
  /\ corruption' = 0 /\ doomed' = {}
  /\ pc' = "ready" /\ block' = Empty /\ meta' = 0
  /\ UNCHANGED <<store, damage>>

(* "Corruption height 0!!!": a panic nothing recovers ends the process.    *)
Die ==
  /\ loader = "panic"
  /\ Halt
  /\ UNCHANGED crashes

Crash ==
  /\ main # "down"
  /\ crashes < MaxCrashes
  /\ crashes' = crashes + 1
  /\ Halt

(* A key is lost or its value altered on disk: what db_debug_remove_after  *)
(* and db_debug_corrupt_after do on purpose.                               *)
Damage ==
  /\ main = "down"
  /\ damage < MaxDamage
  /\ damage' = damage + 1
  /\ \E k \in DOMAIN store :
       \/ store' = Only(store, DOMAIN store \ {k})
       \/ ~IsMeta(k) /\ store' = [store EXCEPT ![k] = Garbage]
       \/ IsMeta(k) /\ store' = [store EXCEPT ![k].hash = Garbage]
       \/ IsMeta(k) /\ store' = [store EXCEPT ![k].previous = Altered]
       \/ IsMeta(k) /\ store' = [store EXCEPT ![k].fingerprint = Altered]
  /\ UNCHANGED <<memory, load, call, crashes>>

(* main's endless loop, when Bitcoin has nothing new.                      *)
Sleep == main = "run" /\ pc = "ready" /\ UNCHANGED vars

Init ==
  /\ store = NoKeys
  /\ batch = NoKeys /\ line = <<>> /\ lib = <<>>
  /\ main = "down" /\ loader = "none" /\ scan = {}
  /\ corruption = 0 /\ doomed = {}
  /\ pc = "ready" /\ block = Empty /\ meta = 0
  /\ damage = 0 /\ crashes = 0

db_load == Start \/ LoadBlock \/ LoadEnd \/ LoadDrain \/ LoadUnlock

Next == \/ Process \/ Flush
        \/ ReorgFlush \/ ReorgRemove \/ ReorgUnload \/ ReorgSpin \/ ReorgStore
        \/ db_load \/ RecoverList \/ RecoverDelete
        \/ Die \/ Crash \/ Damage \/ Sleep

Spec == Init /\ [][Next]_vars

(* db_load waits for nothing but its own goroutine, which runs.            *)
FairSpec == Spec /\ WF_vars(db_load)

-------------------------------------------------------------------------------
(* Properties.  Most are stated for damage = 0: as long as no key has been *)
(* damaged, no removal has failed and no rollback has gone to the          *)
(* checkpoint, which leaves the lowest block (see FullNode).               *)

(* Every variable has its type; but for the unload loop of a rollback,     *)
(* libcomb has one block for each block down from COMBInfo.Hash.           *)
TypeOK ==
  /\ DOMAIN store \cup DOMAIN batch \subseteq Nat \X Nat
  /\ line \in Seq(Block \cup {Garbage})
  /\ lib \in Seq({Commits[b] : b \in Block})
  /\ damage = 0 /\ pc # "unload" => DOMAIN lib = DOMAIN line
  /\ main \in {"down", "load", "run"}
  /\ loader \in {"none", "receive", "drain", "panic", "list", "delete"}
  /\ corruption \in Nat
  /\ doomed \subseteq Nat \X Nat
  /\ pc \in {"ready", "trace", "unload", "store"}
  /\ block \in Block \cup {Empty}
  /\ meta \in Nat

(* Without damage, between any two writes and after any crash, a reader    *)
(* that asks for a stored height gets one Bitcoin block: its hashes and    *)
(* exactly its commits, in order, none left by a block stored at that      *)
(* height before; and one that asks for a commit gets the heights of those *)
(* blocks that have it (db_process_block, db_get_full_block_by_height,     *)
(* db_find_commits).  A height that is not stored is answered without a    *)
(* hash.                                                                   *)
ReadersSeeWholeBlocks ==
  damage = 0 =>
  /\ \A h \in Heights(store) :
       LET full == db_get_full_block_by_height(store, h)
       IN  /\ full.hash \in Block
           /\ full.previous = Prev[full.hash]
           /\ full.commits = Commits[full.hash]
  /\ \A c \in UNION {Range(Commits[b]) : b \in Block} :
       Range(db_find_commits(store, c)) =
         {h \in Heights(store) : c \in Range(Commits[store[MetaKey(h)].hash])}
  /\ \A h \in (0 .. Height + 1) \ Heights(store) :
       db_get_full_block_by_height(store, h).hash = Empty

(* What readers make of s is what libcomb has loaded.                      *)
Mirrors(s) ==
  /\ Heights(s) = CheckpointHeight + 1 .. Height
  /\ \A i \in DOMAIN lib :
       LET full == db_get_full_block_by_height(s, CheckpointHeight + i)
       IN  full.hash = line[i] /\ full.commits = lib[i]

(* Without damage, whenever no block is being ingested, the database with  *)
(* the pending batch holds what libcomb has: a restart would load the same *)
(* (neominer_process_block, combcore_reorg, db_load).                      *)
StoreMirrorsLib ==
  main = "run" /\ pc = "ready" /\ damage = 0 => Mirrors(Write(batch, store))

(* Without damage, a list the public API makes of a loaded block's commits *)
(* in any order Go may range over libcomb's map has what the database,     *)
(* once the batch is written, holds for that height: each of them, once,   *)
(* and in block order (api_lib_get_block_commits).                         *)
ListsAgree ==
  main = "run" /\ pc = "ready" /\ damage = 0 =>
    \A h \in CheckpointHeight + 1 .. Height :
      LET cs == db_get_full_block_by_height(Write(batch, store), h).commits
      IN  \A list \in api_lib_get_block_commits(h) :
            /\ Range(list) = Range(cs)
            /\ IsInjective(list)
            /\ \E at \in [DOMAIN list -> DOMAIN cs] :
                 /\ \A i \in DOMAIN list : list[i] = cs[at[i]]
                 /\ \A i, j \in DOMAIN list : i < j => at[i] < at[j]

(* Whatever keys were lost or altered, whatever removal failed, whatever   *)
(* rollback went to the checkpoint, whatever a recovery deleted under the  *)
(* hands of main and wherever the process died: what a load has given      *)
(* libcomb so far is the commits of a branch of Bitcoin's blocks (db_load, *)
(* combcore_process_block).  Of the last block the hash may be garbage: no *)
(* block has named it yet.  libcomb is a block ahead of COMBInfo.Chain if  *)
(* that block has a wrong height.                                          *)
LoadsOnlyABranch ==
  main = "load" =>
    /\ Len(lib) - Len(line) \in {0, 1}
    /\ \A i \in DOMAIN lib :
         \E b \in Block :
           /\ Prev[b] = IF i = 1 THEN Checkpoint ELSE line[i - 1]
           /\ lib[i] = Commits[b]
           /\ i < Len(lib) => line[i] = b

(* Every load comes to its end, also when the goroutine that receives the  *)
(* blocks has panicked before main has sent the last one (db_load).        *)
LoadEnds == main = "load" ~> main # "load"

(* If one damaged key is all that has gone wrong, and at the end of its    *)
(* recovery main has nothing in memory from the removed heights upwards,   *)
(* the recovery has cut the database back to exactly what the load had     *)
(* accepted: no orphan commit and no block is left above it, and none      *)
(* below it is gone (db_load, db_remove_blocks_after).  (If a removal of   *)
(* main fails meanwhile, keys it stored after the listing may stay.)       *)
RecoveryCutsToLib ==
  [][ /\ loader = "delete" /\ loader' = "none" /\ main' = "run"
      /\ pc = "ready" /\ batch = NoKeys /\ Height < corruption
      /\ damage = 1
      => Mirrors(store') ]_vars

(* The promise of the database: one branch of Bitcoin's blocks, appended   *)
(* to or cut, in every step as long as no key is damaged, no removal fails *)
(* and no rollback goes to the checkpoint (neominer_write,                 *)
(* db_remove_blocks_after).                                                *)
ledger == [h \in Heights(store) |-> store[MetaKey(h)].hash]

L == INSTANCE Ledger

ImplementsLedger == L!Init /\ [][damage' = 0 => [L!Next]_ledger]_vars

-------------------------------------------------------------------------------
(* The inductive invariant.                                                *)

(* What the metadata of block b may have become: each of its fields is as  *)
(* it was or altered beyond recognition.                                   *)
MetadataOf(b) ==
  [hash        : {b, Garbage},
   previous    : {Prev[b], Altered},
   fingerprint : {db_compute_block_fingerprint(Commits[b]), Altered}]

(* Every metadata key of s has the metadata of some block.                 *)
MetadataInv(s) ==
  /\ DOMAIN s \subseteq Nat \X Nat
  /\ IsFiniteSet(DOMAIN s)
  /\ \E n \in Nat : \A k \in DOMAIN s : k[1] <= n
  /\ \A k \in DOMAIN s :
       IsMeta(k) => s[k] = Deleted \/ \E b \in Block : s[k] \in MetadataOf(b)

DiskInv ==
  /\ MetadataInv(store)
  /\ MetadataInv(batch)
  /\ \A k \in DOMAIN store : IsMeta(k) => store[k] # Deleted

(* What db_load_blocks may send: the zero block, and stored ones.          *)
Sendable(r) ==
  /\ r.height \in Nat
  /\ \/ r.hash = Empty
     \/ \E b \in Block : /\ r.hash \in {b, Garbage}
                         /\ r.previous \in {Prev[b], Altered}
                         /\ r.fingerprint \in
                              {db_compute_block_fingerprint(Commits[b]), Altered}

ScanInv == \A r \in scan : Sendable(r)

(* What main, the loader and a rollback know of each other.                *)
ControlInv ==
  /\ main # "run" => pc = "ready" /\ DOMAIN batch = {}
  /\ main = "down" => line = <<>> /\ lib = <<>>
  /\ main = "load" => loader \in {"receive", "drain"}
  /\ loader \in {"receive", "drain"} => main = "load"
  /\ main = "down" \/ loader = "receive" => corruption = 0
  /\ pc # "ready" => block \in Block
  /\ pc = "trace" => Prev[block] \in Range(line) \cup {Checkpoint}

(* The hash of every block a load has accepted is its own or garbage; that *)
(* of one that another block was accepted on is its own.  libcomb is ahead *)
(* only by a block that the load has refused for its height.               *)
LoadInv ==
  main = "load" =>
    /\ \/ Len(lib) = Len(line)
       \/ Len(lib) = Len(line) + 1 /\ loader = "drain" /\ corruption = 0
    /\ \A i \in DOMAIN lib :
         \E b \in Block :
           /\ Prev[b] = IF i = 1 THEN Checkpoint ELSE line[i - 1]
           /\ lib[i] = Commits[b]
           /\ i \in DOMAIN line => line[i] \in {b, Garbage}
           /\ i < Len(lib) => line[i] = b

Links(l) ==
  \A i \in DOMAIN l : Prev[l[i]] = IF i = 1 THEN Checkpoint ELSE l[i - 1]

(* s has exactly the keys of the blocks i + 1 to j of branch l.            *)
Holds(s, l, i, j) ==
  /\ \A k \in DOMAIN s :
       LET n == k[1] - CheckpointHeight
       IN  n \in i + 1 .. j /\ k[2] <= Len(Commits[l[n]])
  /\ \A n \in i + 1 .. j :
       /\ MetaKey(CheckpointHeight + n) \in DOMAIN s
       /\ s[MetaKey(CheckpointHeight + n)] = Metadata(l[n])
       /\ \A c \in DOMAIN Commits[l[n]] :
            /\ <<CheckpointHeight + n, c>> \in DOMAIN s
            /\ s[<<CheckpointHeight + n, c>>] = Commits[l[n]][c]

(* Block n of branch l, as db_load_blocks sends it.                        *)
Sent(l, n) ==
  [height |-> CheckpointHeight + n, hash |-> l[n], previous |-> Prev[l[n]],
   fingerprint |-> db_compute_block_fingerprint(Commits[l[n]]),
   commits |-> Commits[l[n]]]

Branches == {l \in Seq(Block) : Links(l)}

(* An undamaged database holds a branch, of which a load has passed some.  *)
RestInv ==
  \E l \in Branches :
    /\ Holds(store, l, 0, Len(l))
    /\ Len(line) <= Len(l)
    /\ \A i \in DOMAIN line : line[i] = l[i]
    /\ \A r \in scan :
         \/ r.hash = Empty /\ r.height = 0 /\ ~Mismatch(r)
         \/ \E n \in Len(line) + 1 .. Len(l) : r = Sent(l, n)
    /\ main = "load" => \A n \in Len(line) + 1 .. Len(l) : Sent(l, n) \in scan

(* Once the process runs, the branch in memory is in part in the database  *)
(* and the rest of it in the batch; in a rollback all is in the database.  *)
RunInv ==
  \E m \in 0 .. Len(line) :
    /\ Holds(store, line, 0, m)
    /\ Holds(batch, line, m, Len(line))
    /\ pc # "ready" => m = Len(line)

(* libcomb has the commits of the branch, and of what is being unloaded.   *)
LibInv ==
  /\ line \in Branches
  /\ Len(line) <= Len(lib)
  /\ \A i \in DOMAIN line : lib[i] = Commits[line[i]]
  /\ pc # "unload" => Len(lib) = Len(line)
  /\ pc = "trace" => \E i \in DOMAIN line :
                       line[i] = Prev[block] /\ meta = CheckpointHeight + i
  /\ pc \in {"unload", "store"} =>
       Prev[block] = Tip /\ meta = CheckpointHeight + Len(line)

HealthInv ==
  damage = 0 =>
    /\ loader \in {"none", "receive"}
    /\ LibInv
    /\ IF main = "run" THEN RunInv ELSE RestInv

Inv ==
  /\ TypeOK /\ damage \in Nat
  /\ DiskInv /\ ScanInv /\ ControlInv /\ LoadInv /\ HealthInv

-------------------------------------------------------------------------------
(* What a comment of the code says and the code does not do.               *)

(* db.go:439, "For now consider this block and all others after it         *)
(* corrupted, remove and let the rest of the program fix it I guess": at   *)
(* the end of a recovery the database holds what libcomb has loaded, and   *)
(* nothing that the rest of the program has fixed by then is removed.      *)
RecoveryKeepsFixed ==
  [][ loader = "delete" /\ loader' = "none" /\ main' = "run" /\ pc = "ready"
      => Mirrors(Write(batch, store')) ]_vars

===============================================================================
