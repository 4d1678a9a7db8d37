------------------------------- MODULE FullNode -------------------------------
(***************************************************************************)
(* A node in FULL_NODE mode: main's endless loop of btc_sync (btc.go),     *)
(* which traces Bitcoin's best block back to a block the node knows        *)
(* (btc_rest.go, btc_direct.go), and hands the blocks found, oldest first, *)
(* over an unbuffered channel to a goroutine that ingests them (Node).     *)
(* The Bitcoin node is external: it may change its tip at any moment and   *)
(* any of its answers may fail.                                            *)
(***************************************************************************)
EXTENDS Node

CONSTANTS
  Tips,            \* the blocks Bitcoin's best block can be
  TipMayRegress,   \* FALSE: Bitcoin's tip only ever moves to a higher block
  DirectPath,      \* TRUE: BTC.DirectPath # "", block files can be read
  DirectDelta,     \* the delta above which they are (10 in the code)
  UintSize,        \* 2^64: the number of values of a uint64
  MaxFaults        \* bound on crashes and failed Bitcoin answers

ASSUME FullNodeAssumption ==
  /\ Tips \subseteq Block
  /\ TipMayRegress \in BOOLEAN
  /\ DirectPath \in BOOLEAN
  /\ DirectDelta \in Nat
  /\ UintSize \in Nat \ {0}
  /\ MaxFaults \in Nat

VARIABLES
  top,      \* the Bitcoin node's best block
  mode,     \* "rest" or "direct": which btc_get_block_range is running
  probe,    \* hash, the variable of rest_trace_chain and direct_trace_chain
  feed,     \* the traced blocks not yet sent, oldest first
  faults    \* how many faults have happened

btc  == <<top, mode, probe, feed>>
vars == <<nodeVars, btc, faults>>

Fault == faults < MaxFaults /\ faults' = faults + 1

-------------------------------------------------------------------------------
(* btc_sync.                                                               *)

(* The Bitcoin node adopts another best block.                             *)
BtcTip ==
  /\ \E t \in Tips \ {top} :
       /\ TipMayRegress \/ BtcHeight[t] > BtcHeight[top]
       /\ top' = t
  /\ UNCHANGED <<nodeVars, mode, probe, feed, faults>>

(* The best block the Bitcoin node answers (its height is BtcHeight's).    *)
rest_get_chains == top

(* btc_sync finds that the node's tip is Bitcoin's.  (If Bitcoin does not  *)
(* answer at all, btc_sync changes nothing either.)                        *)
SyncNothing ==
  /\ main = "idle"
  /\ hash = rest_get_chains
  /\ UNCHANGED vars

(* int64(BTC.Chain.Height) - int64(COMBInfo.Height), passed on as uint64.  *)
Delta(t) == (BtcHeight[t] - height) % UintSize

(* rest_get_chains answered, the ingesting goroutine starts, and           *)
(* btc_get_block_range chooses where the blocks come from.                 *)
SyncBegin ==
  /\ main = "idle"
  /\ hash # rest_get_chains
  /\ main' = "trace"
  /\ pc' = "ready"
  /\ mode' = IF DirectPath /\ Delta(rest_get_chains) > DirectDelta
             THEN "direct" ELSE "rest"
  /\ probe' = rest_get_chains
  /\ feed' = <<>>
  /\ UNCHANGED <<durable, neo, info, lib, pending, call, top, faults>>

(* The exit test of the tracing loop.  The REST trace looks a block up in  *)
(* COMBInfo.Chain before it takes it, the direct trace afterwards: it      *)
(* takes its target even if that is known.                                 *)
Known == probe \in DOMAIN chain /\ (mode = "rest" \/ feed # <<>>)

(* Fault variant: the answer for one block is taken for the next one.      *)
TraceStep_same_header ==
  /\ main = "trace"
  /\ ~Known
  /\ probe \in Block
  /\ feed' = IF feed = <<>> THEN <<probe>> ELSE feed
  /\ UNCHANGED <<nodeVars, top, mode, probe, faults>>

(* One header (REST), or one block of the files (direct); feed is kept in  *)
(* the order of the reversed slice.                                        *)
TraceStep ==
  /\ main = "trace"
  /\ ~Known
  /\ probe \in Block
  /\ mode = "direct" \/ Prev[probe] # Empty
  /\ feed' = <<probe>> \o feed
  /\ probe' = Prev[probe]
  /\ UNCHANGED <<nodeVars, top, mode, faults>>

TraceEnd ==
  /\ main = "trace"
  /\ Known
  /\ main' = "feed"
  /\ UNCHANGED <<durable, neo, info, lib, pending, pc, call, btc, faults>>

(* The REST trace at the genesis block, whose header has no                *)
(* previousblockhash: json.Unmarshal leaves the field of the reused        *)
(* headers slice as the last answer set it, to the genesis block itself,   *)
(* and the loop goes round.  (The genesis block it appends each time is    *)
(* left out of feed: only an error, which discards feed, ends the loop.)   *)
AtGenesis ==
  /\ main = "trace"
  /\ ~Known
  /\ mode = "rest"
  /\ feed # <<>>
  /\ Prev[probe] = Empty

TraceSpin == AtGenesis /\ UNCHANGED vars

(* No block to go on with: the direct trace has passed the genesis block,  *)
(* or the first header the REST trace asked for is the genesis block's.    *)
TraceLost ==
  /\ main = "trace"
  /\ ~Known
  /\ IF mode = "direct" THEN probe = Empty ELSE feed = <<>> /\ Prev[probe] = Empty
  /\ main' = "feed"
  /\ feed' = <<>>
  /\ UNCHANGED <<durable, neo, info, lib, pending, pc, call,
                 top, mode, probe, faults>>

(* A header or a block file could not be read.  The channel closes.        *)
TraceFail ==
  /\ main = "trace"
  /\ Fault
  /\ main' = "feed"
  /\ feed' = <<>>
  /\ UNCHANGED <<durable, neo, info, lib, pending, pc, call, top, mode, probe>>

(* out <- block, received by the goroutine.                                *)
FeedBlock ==
  /\ main = "feed"
  /\ feed # <<>>
  /\ pc = "ready"
  /\ block' = Head(feed)
  /\ feed' = Tail(feed)
  /\ pc' = "process"
  /\ UNCHANGED <<durable, neo, info, lib, main, pending, target, meta,
                 top, mode, probe, faults>>

(* Fault variant: a block that could not be downloaded is skipped.         *)
FeedFail_skips ==
  /\ main = "feed"
  /\ feed # <<>>
  /\ mode = "rest"
  /\ Fault
  /\ feed' = Tail(feed)
  /\ UNCHANGED <<nodeVars, top, mode, probe>>

(* rest_get_block fails for the next block (the direct blocks are in       *)
(* memory already); the goroutine may still be busy with the last one.     *)
FeedFail ==
  /\ main = "feed"
  /\ feed # <<>>
  /\ mode = "rest"
  /\ Fault
  /\ feed' = <<>>
  /\ UNCHANGED <<nodeVars, top, mode, probe>>

(* Fault variant: btc_sync returns without the final flush.                *)
FinalFlush_forgotten ==
  /\ main = "feed"
  /\ feed = <<>>
  /\ pc = "ready"
  /\ pc' = "none"
  /\ main' = "idle"
  /\ UNCHANGED <<durable, neo, info, lib, pending, call, btc, faults>>

(* The channel is closed and drained: the goroutine writes the batch and   *)
(* lets btc_sync return.                                                   *)
FinalFlush ==
  /\ main = "feed"
  /\ feed = <<>>
  /\ pc = "ready"
  /\ neominer_write
  /\ pc' = "none"
  /\ main' = "idle"
  /\ UNCHANGED <<dbfile, info, lib, pending, call, btc, faults>>

-------------------------------------------------------------------------------
(* The end of the process.                                                 *)

(* A panic of a goroutine that nothing recovers.                           *)
Die ==
  /\ Panicked
  /\ Halt
  /\ mode' = "rest"
  /\ probe' = Empty
  /\ feed' = <<>>
  /\ UNCHANGED <<top, faults>>

(* Power loss or a kill at any moment; a failed database write in          *)
(* neominer_write and a block body that btc_parse_block cannot read are    *)
(* panics that end the process the same way.  The handler of SIGTERM waits *)
(* for the critical lock, that is for the end of a database write, and     *)
(* exits: since writes are atomic here, it does the same.                  *)
Crash ==
  /\ main # "down"
  /\ ~Panicked
  /\ Fault
  /\ Halt
  /\ mode' = "rest"
  /\ probe' = Empty
  /\ feed' = <<>>
  /\ UNCHANGED top

-------------------------------------------------------------------------------
Init ==
  /\ NodeInit
  /\ top \in Tips
  /\ mode = "rest"
  /\ probe = Empty
  /\ feed = <<>>
  /\ faults = 0

NodeStep == (Ingest \/ Startup) /\ UNCHANGED <<btc, faults>>

Sync == SyncBegin \/ TraceStep \/ TraceEnd \/ TraceLost \/ FeedBlock \/ FinalFlush

Next == \/ BtcTip
        \/ SyncNothing
        \/ NodeStep
        \/ Sync
        \/ TraceSpin
        \/ TraceFail
        \/ FeedFail
        \/ Die
        \/ Crash

Spec == Init /\ [][Next]_vars

(* main and the ingesting goroutine are scheduled by the Go runtime; main  *)
(* loops for ever, so a running node goes on.  Nothing restarts a node     *)
(* that is down, and nothing obliges Bitcoin to do anything.               *)
Running == (Ingest \/ DbNew \/ DbVersion \/ LoadNext \/ LoadDone)
           /\ UNCHANGED <<btc, faults>>

FairSpec == Spec /\ WF_vars(Running) /\ WF_vars(Sync) /\ WF_vars(Die)

-------------------------------------------------------------------------------
(* Safety.                                                                 *)

Mains == {"down", "new", "open", "load", "idle", "trace", "feed"} \cup LoadPanics
Pcs   == {"none", "ready"} \cup PipelinePcs \cup ChainPanics

(* Every variable has its type; in particular the database and the batch   *)
(* file whole block entries under natural heights and COMBInfo.Chain maps  *)
(* hashes to hashes.                                                       *)
TypeOK ==
  /\ DOMAIN disk \subseteq Nat /\ disk \in [DOMAIN disk -> BlockEntry]
  /\ dbfile \in {"missing", "created", "unversioned", "current"}
  /\ DOMAIN batch \subseteq Nat /\ batch \in [DOMAIN batch -> BlockEntry]
  /\ cached \in Nat
  /\ height \in Nat
  /\ hash \in Block \cup {Checkpoint, Empty}
  /\ DOMAIN chain \subseteq Block \cup {Checkpoint}
  /\ chain \in [DOMAIN chain -> Block \cup {Checkpoint, Empty}]
  /\ lib \in Seq(Block)
  /\ main \in Mains
  /\ pending \subseteq DOMAIN disk
  /\ pc \in Pcs
  /\ block \in Block \cup {Empty}
  /\ target \in Block \cup {Checkpoint, Empty}
  /\ meta \in Nat
  /\ top \in Tips
  /\ mode \in {"rest", "direct"}
  /\ probe \in Block \cup {Checkpoint, Empty}
  /\ feed \in Seq(Block)
  /\ faults \in 0 .. MaxFaults

(* What the database holds can be loaded again after a crash at any        *)
(* moment, the middle of a reorg included: it is a gapless branch from the *)
(* checkpoint, every block under its Bitcoin height (db_remove_blocks_     *)
(* after, neominer_write, combcore_reorg).                                 *)
DiskIsChain == ChainStored(disk)

(* Outside a reorg (combcore_reorg) and the initial load, the database     *)
(* with the batch on top of it is exactly what libcomb has loaded,         *)
(* COMBInfo.Height and COMBInfo.Hash are its height and its last block,    *)
(* and a node between two syncs has nothing unwritten.                     *)
MinedIsLoaded ==
  main \in {"idle", "trace", "feed"}
    /\ pc \in {"none", "ready", "process", "flush", "store", "full"} =>
       /\ Write(batch, disk) = Image(lib)
       /\ height = LibHeight(lib)
       /\ hash = IF lib = <<>> THEN Checkpoint ELSE lib[Len(lib)]
       /\ main = "idle" => batch = NoBlocks

(* The panics that report a broken chain ("mining has fucked up", "reorg   *)
(* failed!", the two sanity checks of combcore_process_block, "Corruption  *)
(* height 0!!!") cannot happen.                                            *)
NoBrokenChain ==
  /\ pc \notin {"chain broken", "reorg failed", "chain is broken", "height mismatch"}
  /\ main # "corruption height 0"

(* The batch never outgrows NeoInfo.BatchCapacity, and BatchCached counts  *)
(* the blocks in it.                                                       *)
BatchBounded ==
  /\ cached = Cardinality(DOMAIN batch)
  /\ cached <= BatchCapacity

(* Block x is block y or an ancestor of it.                                *)
OnBranch(x, y) ==
  BtcHeight[x] <= BtcHeight[y] /\
  \E path \in [BtcHeight[x] .. BtcHeight[y] -> Block] :
    /\ path[BtcHeight[x]] = x
    /\ path[BtcHeight[y]] = y
    /\ \A h \in BtcHeight[x] + 1 .. BtcHeight[y] : Prev[path[h]] = path[h - 1]

(* A step deletes from the database only while a block is being ingested,  *)
(* only blocks off the branch that block extends, and only once every      *)
(* block ingested before was written (neominer.go: flush, then reorg).     *)
RemovesOnlyAbandoned ==
  [][ \A h \in DOMAIN disk \ DOMAIN disk' :
        /\ block \in Block
        /\ Prev[block] \in Block => ~OnBranch(disk[h].hash, Prev[block])
        /\ batch = NoBlocks ]_vars

(* A crash between the creation of the database and the write of its       *)
(* version key makes every later start refuse the database as a legacy     *)
(* one; a database that is refused so never holds a block that was mined.  *)
(* The exception is a database whose version key could not be written:     *)
(* db_new drops that error, the node mines into the database, and every    *)
(* later start refuses it (db_open, db_new, db_start).                     *)
RefusedIsEmpty == main = "legacy db" /\ disk # NoBlocks => dbfile = "unversioned"

(* The database implements the abstract ledger: the ledger at height h is  *)
(* the hash stored there.                                                  *)
Abstract == INSTANCE Ledger WITH ledger <- [h \in DOMAIN disk |-> disk[h].hash]

LedgerSpec == Abstract!Spec

-------------------------------------------------------------------------------
(* The inductive invariant behind these properties.  It holds when no      *)
(* reorg reaches the checkpoint: one block follows it, and Bitcoin's tip   *)
(* is above that block.                                                    *)

CheckpointSettled ==
  /\ \A x, y \in Block : Prev[x] = Checkpoint /\ Prev[y] = Checkpoint => x = y
  /\ \A x \in Tips : Prev[x] # Checkpoint

(* l is a branch of the block tree above the checkpoint.                   *)
Linked(l) ==
  \A i \in 1 .. Len(l) :
    /\ BtcHeight[l[i]] = CheckpointHeight + i
    /\ Prev[l[i]] = IF i = 1 THEN Checkpoint ELSE l[i - 1]

BeforeStore == {"process", "flush", "trace", "unload", "store"}

(* COMBInfo.Chain is part of the block tree, closed under previous blocks. *)
ChainInv ==
  /\ Checkpoint \in DOMAIN chain
  /\ chain[Checkpoint] = Empty
  /\ \A x \in DOMAIN chain \ {Checkpoint} :
       chain[x] = Prev[x] /\ Prev[x] \in DOMAIN chain

(* libcomb holds a branch of it, from the checkpoint upwards.              *)
LibInv ==
  /\ height = LibHeight(lib)
  /\ Linked(lib)
  /\ \A i \in 1 .. Len(lib) : lib[i] \in DOMAIN chain
  /\ pc \notin {"trace", "unload", "past checkpoint"} => hash = Tip(lib)

(* The database holds a branch, without a gap.                             *)
DiskInv ==
  /\ ChainStored(disk)
  /\ Gapless(disk)
  /\ dbfile \in {"missing", "created"} => disk = NoBlocks

(* Database and batch split what libcomb holds between them.               *)
MirrorInv ==
  main \in {"idle", "trace", "feed"} /\ pc # "unload" =>
    /\ cached <= Len(lib)
    /\ disk = Segment(lib, 0, Len(lib) - cached)
    /\ batch = Segment(lib, Len(lib) - cached, Len(lib))

(* While the initial load runs, libcomb holds the lower part of the        *)
(* database; before it, nothing.                                           *)
LoadInv ==
  /\ main \notin {"idle", "trace", "feed"} => batch = NoBlocks /\ cached = 0
  /\ main \in {"down", "new", "open"} => lib = <<>>
  /\ main = "new" => dbfile = "created"
  /\ main = "load" => dbfile = "current"
  /\ main \in {"idle", "trace", "feed"} => dbfile \in {"current", "unversioned"}
  /\ main # "load" => pending = {}
  /\ main = "load" =>
       /\ pending = {h \in DOMAIN disk : h > LibHeight(lib)}
       /\ \A i \in 1 .. Len(lib) :
            CheckpointHeight + i \in DOMAIN disk
              /\ disk[CheckpointHeight + i].hash = lib[i]

(* Who is where: the pipeline runs only while btc_sync feeds it.           *)
ControlInv ==
  /\ main = "feed" <=> pc # "none" /\ main # "trace"
  /\ main = "trace" => pc = "ready"
  /\ main \in {"idle", "trace"} => cached = 0
  /\ pc # "full" => cached < BatchCapacity
  /\ cached <= BatchCapacity

(* What the pipeline knows about its block.                                *)
BlockInv ==
  /\ pc \in BeforeStore =>
       /\ block \in Block
       /\ Prev[block] \in DOMAIN chain
       /\ Prev[block] = Checkpoint => block \notin DOMAIN chain
  /\ pc = "flush" => Prev[block] \in Block
  /\ pc \in {"trace", "unload"} =>
       /\ target = Prev[block]
       /\ target \in Block
       /\ cached = 0
       /\ batch = NoBlocks
  /\ pc = "trace" =>
       /\ hash \in {Checkpoint, Empty} \/ \E k \in 1 .. Len(lib) : hash = lib[k]
       /\ \A k \in 1 .. Len(lib) : lib[k] = target => meta = CheckpointHeight + k
  /\ pc = "unload" =>
       /\ meta - CheckpointHeight \in 1 .. Len(lib)
       /\ hash = target
       /\ hash = lib[meta - CheckpointHeight]
       /\ disk = Segment(lib, 0, meta - CheckpointHeight)
  /\ pc = "store" => Prev[block] = hash

(* The blocks still to be sent follow one another, and the first follows   *)
(* the block being ingested, or one the node knows.                        *)
FeedInv ==
  /\ main \notin {"trace", "feed"} => feed = <<>>
  /\ \A i \in 1 .. Len(feed) - 1 : Prev[feed[i + 1]] = feed[i]
  /\ main = "trace" /\ feed = <<>> => probe \in Tips
  /\ main = "trace" /\ feed # <<>> => Prev[feed[1]] = probe
  /\ main = "feed" /\ feed # <<>> =>
       /\ pc \in BeforeStore => Prev[feed[1]] = block
       /\ pc \in {"ready", "full"} => Prev[feed[1]] \in DOMAIN chain
  /\ feed # <<>> /\ Prev[feed[1]] = Checkpoint => feed[1] \notin DOMAIN chain

(* TypeOK, NoBrokenChain and the parts above; inductive.                   *)
Inv ==
  /\ TypeOK
  /\ NoBrokenChain
  /\ ChainInv
  /\ LibInv
  /\ DiskInv
  /\ MirrorInv
  /\ LoadInv
  /\ ControlInv
  /\ BlockInv
  /\ FeedInv

-------------------------------------------------------------------------------
(* Liveness.                                                               *)

(* The chain that ends in b does not contain the checkpoint.               *)
Foreign(b) ==
  \E S \in SUBSET Block : b \in S /\ \A x \in S : Prev[x] \in S \cup {Empty}

(* Once Bitcoin and the faults have come to rest, a node that stays up     *)
(* reaches Bitcoin's best block (main's loop over btc_sync).  There are    *)
(* two exceptions: a best block that does not descend from the checkpoint, *)
(* and a REST trace that met such a block while it was the best one: it    *)
(* repeats the genesis block even after Bitcoin has returned to a chain    *)
(* with the checkpoint (rest_trace_chain).                                 *)
Converges ==
  []<>( \/ main = "down"
        \/ main = "idle" /\ hash = top
        \/ Foreign(top)
        \/ AtGenesis )

-------------------------------------------------------------------------------
(* What comments and messages of the code say and the code does not do.    *)

(* combcore.go:146, "target is the highest common block between our chain  *)
(* and the new reorged chain": when combcore_reorg is called, its target   *)
(* is on the node's own chain.                                             *)
ReorgTargetOnChain ==
  pc = "flush" => Prev[block] = Checkpoint \/ \E i \in DOMAIN lib : lib[i] = Prev[block]

(* combcore.go:147, "this function should remove all block data after      *)
(* target, and rollback libcomb to target": when combcore_reorg is done,   *)
(* neither the database nor libcomb holds a block above the target.        *)
RollbackComplete ==
  pc = "store" /\ Prev[block] = Checkpoint => DOMAIN disk = {} /\ lib = <<>>

===============================================================================
