---------------------------- MODULE FullNodeProofs ----------------------------
(***************************************************************************)
(* Proofs about FullNode, for every block tree, every batch capacity and   *)
(* any number of faults, where no reorg reaches the checkpoint             *)
(* (CheckpointSettled): Inv is inductive, one lemma per action, and the    *)
(* properties follow from it.                                              *)
(***************************************************************************)
EXTENDS FullNode, NodeProofs

-------------------------------------------------------------------------------
(* Facts about the operators.                                              *)

(* The places that main and the pipeline move to.                          *)
LEMMA Places ==
  /\ {"down", "new", "open", "load", "idle", "trace", "feed", "legacy db"} \subseteq Mains
  /\ {"none", "ready", "process", "flush", "trace", "unload", "store", "full",
      "chain broken", "past checkpoint"} \subseteq Pcs
  BY DEF Mains, Pcs, PipelinePcs, ChainPanics, LoadPanics

(* The blocks of a branch, stored in the database, are a chain.            *)
LEMMA SegmentStored ==
  ASSUME NEW l \in Seq(Block), Linked(l), NEW k \in 0 .. Len(l)
  PROVE  /\ ChainStored(Segment(l, 0, k))
         /\ Gapless(Segment(l, 0, k))
         /\ DOMAIN Segment(l, 0, k) \subseteq Nat
         /\ Segment(l, 0, k) \in [DOMAIN Segment(l, 0, k) -> BlockEntry]
<1> USE TreeAssumption
<1> DEFINE d == Segment(l, 0, k)
<1>1. DOMAIN d = CheckpointHeight + 1 .. CheckpointHeight + k
  BY DEF Segment
<1>2. \A h \in DOMAIN d : /\ h - CheckpointHeight \in 1 .. Len(l)
                          /\ l[h - CheckpointHeight] \in Block
                          /\ d[h] = Entry(l[h - CheckpointHeight])
  BY <1>1 DEF Segment
<1>3. ChainStored(d)
  <2> SUFFICES ASSUME NEW h \in DOMAIN d
               PROVE  /\ h > CheckpointHeight
                      /\ d[h].hash \in Block
                      /\ d[h] = Entry(d[h].hash)
                      /\ BtcHeight[d[h].hash] = h
                      /\ h = CheckpointHeight + 1 => d[h].previous = Checkpoint
                      /\ h > CheckpointHeight + 1 =>
                           h - 1 \in DOMAIN d /\ d[h].previous = d[h - 1].hash
    BY DEF ChainStored
  <2>1. /\ d[h].hash = l[h - CheckpointHeight]
        /\ d[h].previous = Prev[l[h - CheckpointHeight]]
        /\ d[h] = Entry(d[h].hash)
    BY <1>2 DEF Entry
  <2>2. h > CheckpointHeight /\ BtcHeight[d[h].hash] = h
    BY <1>1, <1>2, <2>1 DEF Linked
  <2>3. h = CheckpointHeight + 1 => d[h].previous = Checkpoint
    BY <1>2, <2>1 DEF Linked
  <2>4. ASSUME h > CheckpointHeight + 1
        PROVE  h - 1 \in DOMAIN d /\ d[h].previous = d[h - 1].hash
    <3>1. h - 1 \in DOMAIN d
      BY <1>1, <2>4
    <3>2. d[h - 1].hash = l[(h - 1) - CheckpointHeight]
      BY <1>2, <3>1 DEF Entry
    <3>3. Prev[l[h - CheckpointHeight]] = l[(h - CheckpointHeight) - 1]
      BY <1>1, <1>2, <2>4, SMTT(30) DEF Linked
    <3>4. (h - CheckpointHeight) - 1 = (h - 1) - CheckpointHeight
      BY <1>1
    <3> QED
      BY <2>1, <3>1, <3>2, <3>3, <3>4
  <2> QED
    BY <1>2, <2>1, <2>2, <2>3, <2>4
<1>4. Gapless(d)
  <2>1. CASE k = 0
    BY <1>1, <2>1 DEF Gapless, NoBlocks, Segment
  <2>2. CASE k > 0
    BY <1>1, <2>2 DEF Gapless
  <2> QED
    BY <2>1, <2>2
<1>5. d \in [DOMAIN d -> BlockEntry]
  <2>1. \A h \in DOMAIN d : d[h] \in BlockEntry
    BY <1>2 DEF Entry, BlockEntry
  <2> QED
    BY <2>1 DEF Segment
<1> QED
  BY <1>1, <1>3, <1>4, <1>5

(* db_get_block_by_hash finds the height of a stored block.                *)
LEMMA GetBlockByHash ==
  ASSUME NEW l \in Seq(Block), Linked(l), NEW k \in 1 .. Len(l)
  PROVE  db_get_block_by_hash(Segment(l, 0, Len(l)), l[k]) = CheckpointHeight + k
<1> USE TreeAssumption
<1> DEFINE d == Segment(l, 0, Len(l))
           found == {h \in DOMAIN d : d[h].hash = l[k]}
<1>1. /\ DOMAIN d = CheckpointHeight + 1 .. CheckpointHeight + Len(l)
      /\ \A h \in DOMAIN d : d[h].hash = l[h - CheckpointHeight]
  BY DEF Segment, Entry
<1>2. found = {CheckpointHeight + k}
  <2>1. CheckpointHeight + k \in found
    BY <1>1
  <2>2. ASSUME NEW h \in found PROVE h = CheckpointHeight + k
    <3>1. h - CheckpointHeight \in 1 .. Len(l) /\ l[h - CheckpointHeight] = l[k]
      BY <1>1
    <3>2. /\ BtcHeight[l[h - CheckpointHeight]] = CheckpointHeight + (h - CheckpointHeight)
          /\ BtcHeight[l[k]] = CheckpointHeight + k
      BY <3>1 DEF Linked
    <3> QED
      BY <1>1, <3>1, <3>2
  <2> QED
    BY <2>1, <2>2
<1>3. Max({CheckpointHeight + k}) = CheckpointHeight + k
  BY DEF Max
<1> QED
  BY <1>2, <1>3 DEF db_get_block_by_hash

-------------------------------------------------------------------------------
(* The invariant holds at the start.                                       *)

(* Init: a node that was never started.                                     *)
LEMMA InitInv == Init => Inv
<1> SUFFICES ASSUME Init PROVE Inv
  OBVIOUS
<1> USE TreeAssumption, CapacityAssumption, FullNodeAssumption DEF Init, NodeInit
<1>1. TypeOK
  BY DEF TypeOK, NoBlocks, Put, Mains, Pcs, BlockEntry
<1>2. NoBrokenChain
  BY DEF NoBrokenChain
<1>3. ChainInv
  BY DEF ChainInv, NoBlocks, Put
<1>4. LibInv
  BY DEF LibInv, Linked, LibHeight, Tip
<1>5. DiskInv
  BY DEF DiskInv, ChainStored, Gapless, NoBlocks
<1>6. MirrorInv /\ LoadInv /\ ControlInv /\ BlockInv /\ FeedInv
  BY DEF MirrorInv, LoadInv, ControlInv, BlockInv, FeedInv, BeforeStore
<1> QED
  BY <1>1, <1>2, <1>3, <1>4, <1>5, <1>6 DEF Inv

-------------------------------------------------------------------------------
(* The steps of btc_sync preserve it.                                      *)

(* Bitcoin changes its best block.                                          *)
LEMMA BtcTipInv == ASSUME Inv, BtcTip PROVE Inv'
<1> USE DEF BtcTip, nodeVars, Inv
<1>1. TypeOK'
  BY DEF TypeOK
<1>2. NoBrokenChain' /\ ChainInv' /\ LibInv' /\ DiskInv'
  BY DEF NoBrokenChain, ChainInv, LibInv, DiskInv
<1>3. MirrorInv' /\ LoadInv' /\ ControlInv' /\ BlockInv' /\ FeedInv'
  BY DEF MirrorInv, LoadInv, ControlInv, BlockInv, FeedInv
<1> QED
  BY <1>1, <1>2, <1>3

(* btc_sync starts a trace at Bitcoin's best block.                         *)
LEMMA SyncBeginInv == ASSUME Inv, SyncBegin PROVE Inv'
<1> USE FullNodeAssumption DEF SyncBegin, rest_get_chains, durable, neo, info, call, Inv
<1>1. TypeOK'
  <2>1. main' \in Mains /\ pc' \in Pcs
    BY Places
  <2>2. probe' \in Block \cup {Checkpoint, Empty} /\ feed' \in Seq(Block)
    BY DEF TypeOK
  <2>3. mode' \in {"rest", "direct"}
    OBVIOUS
  <2> QED
    BY <2>1, <2>2, <2>3 DEF TypeOK
<1>2. NoBrokenChain' /\ ChainInv' /\ DiskInv'
  BY DEF NoBrokenChain, ChainInv, DiskInv
<1>3. LibInv'
  BY DEF LibInv, ControlInv
<1>4. MirrorInv' /\ LoadInv'
  BY DEF MirrorInv, ControlInv, LoadInv
<1>5. ControlInv'
  BY DEF ControlInv
<1>6. BlockInv'
  BY DEF BlockInv, BeforeStore
<1>7. FeedInv'
  BY DEF FeedInv, TypeOK
<1> QED
  BY <1>1, <1>2, <1>3, <1>4, <1>5, <1>6, <1>7

(* The trace takes a block and goes on to the one before it.                *)
LEMMA TraceStepInv == ASSUME CheckpointSettled, Inv, TraceStep PROVE Inv'
<1> USE TreeAssumption, FullNodeAssumption DEF TraceStep, nodeVars, Known, Inv
<1>1. feed \in Seq(Block) /\ probe \in Block
  BY DEF TypeOK
<1>2. TypeOK'
  <2>1. probe' \in Block \cup {Checkpoint, Empty} /\ feed' \in Seq(Block)
    BY <1>1
  <2> QED
    BY <2>1 DEF TypeOK
<1>3. NoBrokenChain' /\ ChainInv' /\ LibInv' /\ DiskInv'
  BY DEF NoBrokenChain, ChainInv, LibInv, DiskInv
<1>4. MirrorInv' /\ LoadInv' /\ ControlInv' /\ BlockInv'
  BY DEF MirrorInv, LoadInv, ControlInv, BlockInv
<1>5. FeedInv'
  <2>1. /\ Len(feed') = Len(feed) + 1
        /\ feed'[1] = probe
        /\ \A i \in 1 .. Len(feed) : feed'[i + 1] = feed[i]
        /\ feed' # <<>>
    BY <1>1
  <2>2. \A i \in 1 .. Len(feed') - 1 : Prev[feed'[i + 1]] = feed'[i]
    <3>range. 1 .. Len(feed') - 1 = 1 .. Len(feed)
      <4>1. Len(feed) \in Nat
        BY <1>1
      <4> HIDE DEF TraceStep, Inv, Known
      <4> QED
        BY <2>1, <4>1
    <3> SUFFICES ASSUME NEW i \in 1 .. Len(feed)
                 PROVE  Prev[feed'[i + 1]] = feed'[i]
      BY <3>range, Zenon
    <3>1. CASE i = 1
      <4>1. feed # <<>> /\ main = "trace" /\ feed'[i + 1] = feed[1] /\ feed'[i] = probe
        BY <1>1, <2>1, <3>1
      <4>2. Prev[feed[1]] = probe
        BY <4>1 DEF FeedInv
      <4> QED
        BY <4>1, <4>2
    <3>2. CASE i # 1
      <4>1. i - 1 \in 1 .. Len(feed) - 1 /\ (i - 1) + 1 = i /\ i - 1 \in 1 .. Len(feed)
        BY <1>1, <3>2
      <4>2. Prev[feed[i]] = feed[i - 1]
        BY <4>1 DEF FeedInv
      <4>3. feed'[i + 1] = feed[i] /\ feed'[i] = feed[i - 1]
        BY <2>1, <4>1
      <4> QED
        BY <4>2, <4>3
    <3> QED
      BY <3>1, <3>2
  <2>3. Prev[probe] = Checkpoint => probe \notin DOMAIN chain
    BY <1>1 DEF FeedInv, CheckpointSettled
  <2> QED
    BY <2>1, <2>2, <2>3 DEF FeedInv
<1> QED
  BY <1>2, <1>3, <1>4, <1>5

(* The trace has reached a block of COMBInfo.Chain.                         *)
LEMMA TraceEndInv == ASSUME Inv, TraceEnd PROVE Inv'
<1> USE DEF TraceEnd, durable, neo, info, call, btc, Known, Inv
<1>1. TypeOK'
  BY Places DEF TypeOK
<1>2. NoBrokenChain' /\ ChainInv' /\ LibInv' /\ DiskInv'
  BY DEF NoBrokenChain, ChainInv, LibInv, DiskInv
<1>3. MirrorInv' /\ LoadInv' /\ ControlInv'
  BY DEF MirrorInv, LoadInv, ControlInv
<1>4. BlockInv'
  BY DEF BlockInv, BeforeStore, ControlInv
<1>5. FeedInv'
  BY DEF FeedInv, ControlInv, BeforeStore
<1> QED
  BY <1>1, <1>2, <1>3, <1>4, <1>5

(* The three ways a range of blocks is given up.                           *)
LEMMA GiveUpInv == ASSUME Inv, TraceLost \/ TraceFail \/ FeedFail PROVE Inv'
<1> USE DEF TraceLost, TraceFail, FeedFail, Fault, nodeVars, durable, neo, info, call, Inv
<1>1. TypeOK'
  <2>1. main' \in Mains
    BY Places DEF TypeOK
  <2>2. feed' = <<>>
    OBVIOUS
  <2>3. faults' \in 0 .. MaxFaults
    BY FullNodeAssumption DEF TypeOK
  <2> QED
    BY <2>1, <2>2, <2>3 DEF TypeOK
<1>2. NoBrokenChain' /\ ChainInv' /\ LibInv' /\ DiskInv'
  BY DEF NoBrokenChain, ChainInv, LibInv, DiskInv
<1>3. MirrorInv' /\ LoadInv' /\ ControlInv'
  BY DEF MirrorInv, LoadInv, ControlInv
<1>4. BlockInv' /\ FeedInv'
  BY DEF BlockInv, FeedInv, ControlInv, BeforeStore
<1> QED
  BY <1>1, <1>2, <1>3, <1>4

(* The next traced block is handed to the pipeline.                         *)
LEMMA FeedBlockInv == ASSUME Inv, FeedBlock PROVE Inv'
<1> USE TreeAssumption DEF FeedBlock, durable, neo, info, call, Inv
<1>1. /\ feed \in Seq(Block)
      /\ feed' \in Seq(Block)
      /\ block' = feed[1]
      /\ block' \in Block
      /\ Len(feed') = Len(feed) - 1
      /\ \A i \in 1 .. Len(feed') : feed'[i] = feed[i + 1]
  BY DEF TypeOK
<1>2. TypeOK'
  BY Places, <1>1 DEF TypeOK
<1>3. NoBrokenChain' /\ ChainInv' /\ DiskInv'
  BY DEF NoBrokenChain, ChainInv, DiskInv
<1>4. LibInv' /\ MirrorInv' /\ LoadInv' /\ ControlInv'
  BY DEF LibInv, MirrorInv, LoadInv, ControlInv
<1>5. BlockInv'
  BY <1>1 DEF BlockInv, FeedInv, BeforeStore
<1>6. FeedInv'
  <2>1. \A i \in 1 .. Len(feed') - 1 : Prev[feed'[i + 1]] = feed'[i]
    <3> SUFFICES ASSUME NEW i \in 1 .. Len(feed') - 1
                 PROVE  Prev[feed'[i + 1]] = feed'[i]
      OBVIOUS
    <3>1. i + 1 \in 1 .. Len(feed) - 1 /\ i \in 1 .. Len(feed') /\ i + 1 \in 1 .. Len(feed')
      BY <1>1
    <3>2. Prev[feed[(i + 1) + 1]] = feed[i + 1]
      BY <3>1 DEF FeedInv
    <3> QED
      BY <1>1, <3>1, <3>2
  <2>2. feed' # <<>> => Prev[feed'[1]] = block'
    <3> SUFFICES ASSUME feed' # <<>> PROVE Prev[feed'[1]] = block'
      OBVIOUS
    <3>1. 1 \in 1 .. Len(feed) - 1 /\ feed'[1] = feed[1 + 1]
      BY <1>1
    <3> QED
      BY <1>1, <3>1 DEF FeedInv
  <2> QED
    BY <1>1, <2>1, <2>2 DEF FeedInv, BeforeStore
<1> QED
  BY <1>2, <1>3, <1>4, <1>5, <1>6

-------------------------------------------------------------------------------
(* Starting and stopping.                                                  *)

(* db_open.                                                                 *)
LEMMA StartInv == ASSUME Inv, Start, UNCHANGED <<btc, faults>> PROVE Inv'
<1> USE DEF Start, neo, info, call, btc, Inv
<1>1. TypeOK'
  BY Places DEF TypeOK
<1>2. NoBrokenChain' /\ ChainInv' /\ LibInv' /\ DiskInv'
  BY DEF NoBrokenChain, ChainInv, LibInv, DiskInv
<1>3. MirrorInv' /\ LoadInv' /\ ControlInv' /\ BlockInv' /\ FeedInv'
  BY DEF MirrorInv, LoadInv, ControlInv, BlockInv, FeedInv
<1> QED
  BY <1>1, <1>2, <1>3

(* db_new.                                                                  *)
LEMMA DbNewInv == ASSUME Inv, DbNew, UNCHANGED <<btc, faults>> PROVE Inv'
<1> USE DEF DbNew, neo, info, call, btc, Inv
<1>1. TypeOK'
  BY Places DEF TypeOK
<1>2. NoBrokenChain' /\ ChainInv' /\ LibInv' /\ DiskInv'
  BY DEF NoBrokenChain, ChainInv, LibInv, DiskInv
<1>3. MirrorInv'
  <2>1. lib' = <<>> /\ cached' = 0 /\ disk' = NoBlocks /\ batch' = NoBlocks
    BY DEF LoadInv, DiskInv
  <2> QED
    BY <2>1, EmptySegment DEF MirrorInv
<1>4. LoadInv' /\ ControlInv' /\ BlockInv' /\ FeedInv'
  BY DEF LoadInv, ControlInv, BlockInv, FeedInv
<1> QED
  BY <1>1, <1>2, <1>3, <1>4

(* db_get_version, and the start of db_load.                                *)
LEMMA DbVersionInv == ASSUME Inv, DbVersion, UNCHANGED <<btc, faults>> PROVE Inv'
<1>version. db_get_version = 2 <=> dbfile = "current"
  BY DEF db_get_version
<1> USE <1>version DEF DbVersion, durable, neo, info, call, btc, Inv
<1>1. TypeOK'
  <2>1. main' \in Mains /\ pending' \subseteq DOMAIN disk
    BY Places
  <2> QED
    BY <2>1 DEF TypeOK
<1>2. NoBrokenChain' /\ ChainInv' /\ LibInv' /\ DiskInv'
  BY DEF NoBrokenChain, ChainInv, LibInv, DiskInv
<1>3. MirrorInv' /\ ControlInv' /\ BlockInv' /\ FeedInv'
  BY DEF MirrorInv, ControlInv, BlockInv, FeedInv
<1>4. LoadInv'
  <2>1. lib' = <<>> /\ Len(lib') = 0
    BY DEF LoadInv
  <2>2. LibHeight(lib') = CheckpointHeight
    BY <2>1, EmptyLibHeight
  <2>3. \A h \in DOMAIN disk' : h > CheckpointHeight
    BY DEF DiskInv, ChainStored
  <2>4. /\ main' \in {"load", "legacy db"}
        /\ main' = "load" => dbfile' = "current"
        /\ main' # "load" => pending' = {}
        /\ main' = "load" => pending' = DOMAIN disk'
        /\ batch' = NoBlocks /\ cached' = 0
    <3>1. \/ dbfile = "current" /\ main' = "load" /\ pending' = DOMAIN disk
          \/ main' = "legacy db" /\ pending' = {}
      OBVIOUS
    <3>2. UNCHANGED <<disk, dbfile, batch, cached>> /\ main = "open"
      OBVIOUS
    <3>3. batch = NoBlocks /\ cached = 0
      BY <3>2 DEF LoadInv
    <3> HIDE DEF DbVersion, Inv
    <3> QED
      BY <3>1, <3>2, <3>3
  <2>5. pending' = {h \in DOMAIN disk' : h > LibHeight(lib')} \/ main' # "load"
    BY <2>2, <2>3, <2>4
  <2> HIDE DEF DbVersion, Inv
  <2>6. Len(lib') = 0
    BY <2>1
  <2>7. main' \notin {"idle", "trace", "feed"} => batch' = NoBlocks /\ cached' = 0
    BY <2>4
  <2>8. main' \in {"down", "new", "open"} => lib' = <<>>
    BY <2>1
  <2>9. /\ main' # "load" => pending' = {}
        /\ main' = "new" => dbfile' = "created"
        /\ main' \in {"load", "idle", "trace", "feed"} => dbfile' = "current"
    BY <2>4
  <2>10. \A i \in 1 .. Len(lib') :
            CheckpointHeight + i \in DOMAIN disk'
              /\ disk'[CheckpointHeight + i].hash = lib'[i]
    BY <2>6, SMTT(30)
  <2> QED
    BY <2>4, <2>5, <2>7, <2>8, <2>9, <2>10 DEF LoadInv
<1> QED
  BY <1>1, <1>2, <1>3, <1>4

(* combcore_process_block, given the block that follows the tip: it loads  *)
(* the block and keeps COMBInfo and libcomb as the invariant has them.     *)
LEMMA LoadedBlock ==
  ASSUME TypeOK, ChainInv, LibInv, hash = Tip(lib),
         NEW b \in Block, Prev[b] = hash,
         combcore_process_block(Entry(b), LibHeight(lib) + 1)
  PROVE  /\ Verdict(Entry(b), LibHeight(lib) + 1) = "loaded"
         /\ lib' = Append(lib, b)
         /\ height' = LibHeight(lib')
         /\ hash' = b
         /\ hash' = Tip(lib')
         /\ chain' = Put(chain, b, hash)
         /\ Linked(lib')
         /\ \A i \in 1 .. Len(lib') : lib'[i] \in DOMAIN chain'
         /\ ChainInv'
<1> USE TreeAssumption
<1>1. lib \in Seq(Block) /\ DOMAIN chain \subseteq Block \cup {Checkpoint}
  BY DEF TypeOK
<1>2. Verdict(Entry(b), LibHeight(lib) + 1) = "loaded"
  BY DEF Verdict, Entry
<1>3. /\ lib' = Append(lib, b)
      /\ height' = LibHeight(lib) + 1
      /\ hash' = b
      /\ chain' = Put(chain, b, hash)
  BY <1>2 DEF combcore_process_block, Entry
<1>4. /\ lib' \in Seq(Block)
      /\ Len(lib') = Len(lib) + 1
      /\ lib'[Len(lib) + 1] = b
      /\ \A i \in 1 .. Len(lib) : lib'[i] = lib[i]
  BY <1>1, <1>3, AppendFacts
<1>5. height' = LibHeight(lib')
  BY <1>1, <1>3, <1>4 DEF LibHeight
<1>6. hash' = Tip(lib')
  BY <1>3, <1>4 DEF Tip
<1>7. BtcHeight[b] = CheckpointHeight + Len(lib) + 1 /\ hash \in DOMAIN chain
  <2>1. CASE lib = <<>>
    BY <2>1 DEF Tip, ChainInv
  <2>2. CASE lib # <<>>
    <3>1. Len(lib) \in 1 .. Len(lib) /\ hash = lib[Len(lib)] /\ hash \in Block
      BY <1>1, <2>2 DEF Tip
    <3>2. BtcHeight[hash] = CheckpointHeight + Len(lib) /\ hash \in DOMAIN chain
      BY <3>1 DEF LibInv, Linked
    <3> QED
      BY <1>1, <3>1, <3>2
  <2> QED
    BY <2>1, <2>2
<1>8. Linked(lib')
  <2> SUFFICES ASSUME NEW i \in 1 .. Len(lib')
               PROVE  /\ BtcHeight[lib'[i]] = CheckpointHeight + i
                      /\ Prev[lib'[i]] = IF i = 1 THEN Checkpoint ELSE lib'[i - 1]
    BY DEF Linked
  <2>1. CASE i \in 1 .. Len(lib)
    <3>1. lib'[i] = lib[i]
      BY <1>4, <2>1
    <3>2. ASSUME i # 1 PROVE lib'[i - 1] = lib[i - 1]
      <4>1. i - 1 \in 1 .. Len(lib)
        BY <1>1, <2>1, <3>2
      <4> QED
        BY <1>4, <4>1
    <3> QED
      BY <2>1, <3>1, <3>2 DEF LibInv, Linked
  <2>2. CASE i = Len(lib) + 1
    <3>1. lib'[i] = b /\ BtcHeight[b] = CheckpointHeight + i
      BY <1>1, <1>4, <1>7, <2>2
    <3>2. CASE lib = <<>>
      BY <2>2, <3>1, <3>2 DEF Tip
    <3>3. CASE lib # <<>>
      <4>1. i # 1 /\ i - 1 = Len(lib) /\ Len(lib) \in 1 .. Len(lib)
        BY <1>1, <2>2, <3>3
      <4>2. lib'[i - 1] = hash
        BY <1>4, <3>3, <4>1 DEF Tip
      <4> QED
        BY <3>1, <4>1, <4>2
    <3> QED
      BY <3>2, <3>3
  <2> QED
    BY <1>1, <1>4, <2>1, <2>2
<1>9. /\ DOMAIN chain' = DOMAIN chain \cup {b}
      /\ chain'[b] = Prev[b]
      /\ \A x \in DOMAIN chain \ {b} : chain'[x] = chain[x]
  BY <1>3 DEF Put
<1>10. \A i \in 1 .. Len(lib') : lib'[i] \in DOMAIN chain'
  <2> SUFFICES ASSUME NEW i \in 1 .. Len(lib') PROVE lib'[i] \in DOMAIN chain'
    OBVIOUS
  <2>1. i \in 1 .. Len(lib) \/ i = Len(lib) + 1
    BY <1>1, <1>4
  <2>2. \A j \in 1 .. Len(lib) : lib[j] \in DOMAIN chain
    BY DEF LibInv
  <2> QED
    BY <1>4, <1>9, <2>1, <2>2
<1>11. ChainInv'
  BY <1>1, <1>7, <1>9 DEF ChainInv
<1> QED
  BY <1>2, <1>3, <1>5, <1>6, <1>8, <1>10, <1>11

(* The initial load delivers the block that follows the last one.           *)
LEMMA LoadNextInv == ASSUME Inv, LoadNext, UNCHANGED <<btc, faults>> PROVE Inv'
<1> USE TreeAssumption DEF Inv
<1> DEFINE k == Min(pending)
           b == disk[k].hash
<1>1. /\ main = "load" /\ pending # {} /\ pending' = pending \ {k}
      /\ combcore_process_block(disk[k], k)
      /\ main' = IF Verdict(disk[k], k) \in ChainPanics
                 THEN "corruption height 0" ELSE "load"
      /\ UNCHANGED <<disk, dbfile, batch, cached, pc, block, target, meta,
                     top, mode, probe, feed, faults>>
  BY DEF LoadNext, durable, neo, call, btc
<1>2. /\ pending = {h \in DOMAIN disk : h > LibHeight(lib)}
      /\ pc = "none"
      /\ hash = Tip(lib)
      /\ lib \in Seq(Block)
      /\ LibHeight(lib) = CheckpointHeight + Len(lib)
  BY <1>1 DEF LoadInv, ControlInv, LibInv, TypeOK, LibHeight
<1>3. k = LibHeight(lib) + 1 /\ k \in DOMAIN disk
  <2>1. disk # NoBlocks
    BY <1>1, <1>2 DEF NoBlocks
  <2>2. PICK m \in DOMAIN disk : DOMAIN disk = CheckpointHeight + 1 .. m
    BY <2>1 DEF DiskInv, Gapless
  <2>3. \A h \in pending : h \in Int /\ LibHeight(lib) + 1 <= h /\ h <= m
    BY <1>2, <2>2 DEF TypeOK
  <2>4. PICK h \in pending : TRUE
    BY <1>1
  <2>5. LibHeight(lib) + 1 \in DOMAIN disk
    BY <1>2, <2>2, <2>3, <2>4, SMTT(30) DEF TypeOK
  <2>6. LibHeight(lib) + 1 \in pending
    BY <1>2, <2>5
  <2>7. k = LibHeight(lib) + 1
    BY <1>2, <2>3, <2>6 DEF Min
  <2> QED
    BY <2>5, <2>7
<1>4. b \in Block /\ disk[k] = Entry(b) /\ Prev[b] = hash
  <2>1. b \in Block /\ disk[k] = Entry(b)
    BY <1>3 DEF DiskInv, ChainStored
  <2>2. CASE lib = <<>>
    BY <1>2, <1>3, <2>1, <2>2 DEF DiskInv, ChainStored, Tip, Entry
  <2>3. CASE lib # <<>>
    <3>1. Len(lib) \in 1 .. Len(lib) /\ k > CheckpointHeight + 1
             /\ k - 1 = CheckpointHeight + Len(lib)
      BY <1>2, <1>3, <2>3
    <3>2. disk[k].previous = disk[k - 1].hash
      BY <1>3, <3>1 DEF DiskInv, ChainStored
    <3>3. disk[CheckpointHeight + Len(lib)].hash = lib[Len(lib)]
      BY <1>1, <3>1 DEF LoadInv
    <3> QED
      BY <1>2, <2>1, <2>3, <3>1, <3>2, <3>3 DEF Tip, Entry
  <2> QED
    BY <2>1, <2>2, <2>3
<1>5. /\ Verdict(disk[k], k) = "loaded"
      /\ lib' = Append(lib, b)
      /\ height' = LibHeight(lib')
      /\ hash' = b
      /\ hash' = Tip(lib')
      /\ chain' = Put(chain, b, hash)
      /\ Linked(lib')
      /\ \A i \in 1 .. Len(lib') : lib'[i] \in DOMAIN chain'
      /\ ChainInv'
  BY <1>1, <1>2, <1>3, <1>4, LoadedBlock
<1>6. main' = "load"
  BY <1>1, <1>5 DEF ChainPanics
<1>7. /\ lib' \in Seq(Block)
      /\ Len(lib') = Len(lib) + 1
      /\ lib'[Len(lib) + 1] = b
      /\ \A i \in 1 .. Len(lib) : lib'[i] = lib[i]
  BY <1>2, <1>4, <1>5, AppendFacts
<1>8. TypeOK'
  <2>1. /\ DOMAIN chain' \subseteq Block \cup {Checkpoint}
        /\ chain' \in [DOMAIN chain' -> Block \cup {Checkpoint, Empty}]
    BY <1>4, <1>5 DEF TypeOK, Put
  <2>2. height' \in Nat /\ hash' \in Block
    BY <1>4, <1>5, <1>7 DEF LibHeight
  <2>3. main' \in Mains /\ pending' \subseteq DOMAIN disk'
    BY <1>1, <1>6, Places DEF TypeOK
  <2> QED
    BY <1>1, <1>7, <2>1, <2>2, <2>3 DEF TypeOK
<1>9. NoBrokenChain' /\ DiskInv' /\ MirrorInv' /\ ControlInv'
  BY <1>1, <1>2, <1>6 DEF NoBrokenChain, DiskInv, MirrorInv, ControlInv
<1>10. LibInv'
  BY <1>5 DEF LibInv
<1>11. LoadInv'
  <2>1. LibHeight(lib') = k
    BY <1>2, <1>3, <1>7 DEF LibHeight
  <2>2. pending' = {h \in DOMAIN disk' : h > LibHeight(lib')}
    <3>1. \A h \in DOMAIN disk : h \in Nat
      BY DEF TypeOK
    <3>2. \A h \in DOMAIN disk : h > k <=> h > LibHeight(lib) /\ h # k
      BY <1>2, <1>3, <3>1
    <3>3. /\ pending = {h \in DOMAIN disk : h > LibHeight(lib)}
          /\ pending' = pending \ {k} /\ disk' = disk
      BY <1>1, <1>2
    <3> HIDE DEF k, Inv
    <3> QED
      BY <2>1, <3>2, <3>3
  <2>3. \A i \in 1 .. Len(lib') : CheckpointHeight + i \in DOMAIN disk'
                                    /\ disk'[CheckpointHeight + i].hash = lib'[i]
    <3> SUFFICES ASSUME NEW i \in 1 .. Len(lib')
                 PROVE  CheckpointHeight + i \in DOMAIN disk
                          /\ disk[CheckpointHeight + i].hash = lib'[i]
      BY <1>1
    <3>1. CASE i \in 1 .. Len(lib)
      BY <1>1, <1>7, <3>1 DEF LoadInv
    <3>2. CASE i = Len(lib) + 1
      <4>1. CheckpointHeight + i = k
        BY <1>2, <1>3, <3>2
      <4> QED
        BY <1>3, <1>7, <3>2, <4>1
    <3> QED
      BY <1>2, <1>7, <3>1, <3>2
  <2> QED
    BY <1>1, <1>6, <2>2, <2>3 DEF LoadInv
<1>12. BlockInv'
  BY <1>1, <1>2 DEF BlockInv, BeforeStore
<1>13. FeedInv'
  BY <1>1, <1>6 DEF FeedInv, TypeOK
<1> QED
  BY <1>5, <1>8, <1>9, <1>10, <1>11, <1>12, <1>13

(* When nothing is pending, libcomb holds what the database stores.         *)
LEMMA LoadDoneInv == ASSUME Inv, LoadDone, UNCHANGED <<btc, faults>> PROVE Inv'
<1> USE TreeAssumption DEF LoadDone, durable, neo, info, call, btc, Inv
<1>1. TypeOK'
  BY Places DEF TypeOK
<1>2. NoBrokenChain' /\ ChainInv' /\ LibInv' /\ DiskInv'
  BY DEF NoBrokenChain, ChainInv, LibInv, DiskInv
<1>3. LoadInv' /\ ControlInv' /\ BlockInv' /\ FeedInv'
  BY CapacityAssumption DEF LoadInv, ControlInv, BlockInv, FeedInv, BeforeStore
<1>4. MirrorInv'
  <2>1. /\ lib \in Seq(Block)
        /\ disk \in [DOMAIN disk -> BlockEntry]
        /\ batch = NoBlocks /\ cached = 0
    BY DEF TypeOK, LoadInv
  <2>2. DOMAIN disk = CheckpointHeight + 1 .. CheckpointHeight + Len(lib)
    <3>1. \A h \in DOMAIN disk : h \in Nat /\ h > CheckpointHeight
      BY DEF TypeOK, DiskInv, ChainStored
    <3>2. \A h \in DOMAIN disk : ~(h > CheckpointHeight + Len(lib))
      BY DEF LoadInv, LibHeight
    <3>3. ASSUME NEW h \in CheckpointHeight + 1 .. CheckpointHeight + Len(lib)
          PROVE  h \in DOMAIN disk
      <4>1. h - CheckpointHeight \in 1 .. Len(lib)
               /\ CheckpointHeight + (h - CheckpointHeight) = h
        BY <2>1
      <4> QED
        BY <4>1 DEF LoadInv
    <3>4. Len(lib) \in Nat
      BY <2>1
    <3>5. ASSUME NEW h \in DOMAIN disk
          PROVE  h \in CheckpointHeight + 1 .. CheckpointHeight + Len(lib)
      BY <3>1, <3>2, <3>4
    <3> QED
      BY <3>3, <3>5
  <2>3. ASSUME NEW h \in DOMAIN disk
        PROVE  disk[h] = Entry(lib[h - CheckpointHeight])
    <3>1. h - CheckpointHeight \in 1 .. Len(lib)
             /\ CheckpointHeight + (h - CheckpointHeight) = h
      BY <2>1, <2>2
    <3>2. disk[h].hash = lib[h - CheckpointHeight]
      BY <3>1 DEF LoadInv
    <3> QED
      BY <3>2 DEF DiskInv, ChainStored
  <2>4. disk = Segment(lib, 0, Len(lib))
    BY <2>1, <2>2, <2>3 DEF Segment
  <2>5. Len(lib) \in Nat /\ Len(lib) - cached = Len(lib)
    BY <2>1
  <2>6. batch = Segment(lib, Len(lib), Len(lib))
    BY <2>1, <2>5, EmptySegment
  <2> QED
    BY <2>1, <2>4, <2>5, <2>6 DEF MirrorInv
<1> QED
  BY <1>1, <1>2, <1>3, <1>4

(* The process ends, by a panic or by a crash.                             *)
LEMMA HaltInv == ASSUME Inv, Die \/ Crash PROVE Inv'
<1> USE TreeAssumption, CapacityAssumption DEF Inv
<1>1. /\ UNCHANGED <<disk, dbfile, top>>
      /\ height' = CheckpointHeight /\ hash' = Checkpoint
      /\ chain' = Put(NoBlocks, Checkpoint, Empty)
      /\ lib' = <<>> /\ batch' = NoBlocks /\ cached' = 0
      /\ main' = "down" /\ pending' = {} /\ pc' = "none"
      /\ block' = Empty /\ target' = Empty /\ meta' = 0
      /\ mode' = "rest" /\ probe' = Empty /\ feed' = <<>>
  BY DEF Die, Crash, Halt, combcore_init, durable
<1>2. faults' \in 0 .. MaxFaults
  BY FullNodeAssumption DEF Die, Crash, Fault, TypeOK
<1>3. TypeOK'
  <2>1. DOMAIN batch' \subseteq Nat /\ batch' \in [DOMAIN batch' -> BlockEntry]
    BY <1>1 DEF NoBlocks
  <2>2. /\ DOMAIN chain' \subseteq Block \cup {Checkpoint}
        /\ chain' \in [DOMAIN chain' -> Block \cup {Checkpoint, Empty}]
    BY <1>1 DEF NoBlocks, Put
  <2>3. lib' \in Seq(Block) /\ feed' \in Seq(Block)
    BY <1>1
  <2> QED
    BY <1>1, <1>2, <2>1, <2>2, <2>3, Places DEF TypeOK
<1>4. ChainInv'
  BY <1>1 DEF ChainInv, NoBlocks, Put
<1>5. LibInv'
  <2> HIDE DEF Inv
  <2>1. lib' = <<>> /\ hash' = Checkpoint /\ height' = CheckpointHeight
    BY <1>1
  <2>2. Linked(lib') /\ Len(lib') = 0 /\ Tip(lib') = Checkpoint
    BY <2>1 DEF Linked, Tip
  <2>3. height' = LibHeight(lib')
    BY <2>1, EmptyLibHeight, Zenon
  <2>4. \A i \in 1 .. Len(lib') : lib'[i] \in DOMAIN chain'
    BY <2>2
  <2> QED
    BY <2>1, <2>2, <2>3, <2>4 DEF LibInv
<1>6. NoBrokenChain' /\ DiskInv' /\ ControlInv'
  <2>1. /\ UNCHANGED <<disk, dbfile>>
        /\ main' = "down" /\ pc' = "none" /\ cached' = 0
    BY <1>1
  <2>2. NoBrokenChain' /\ DiskInv'
    BY <2>1 DEF NoBrokenChain, DiskInv
  <2> HIDE DEF Inv
  <2>3. ControlInv'
    BY <2>1 DEF ControlInv
  <2> QED
    BY <2>2, <2>3
<1>7. MirrorInv' /\ LoadInv'
  <2>1. main' = "down" /\ batch' = NoBlocks /\ cached' = 0 /\ pending' = {}
    BY <1>1
  <2>2. lib' = <<>>
    BY <1>1
  <2> HIDE DEF Inv
  <2> QED
    BY <2>1, <2>2 DEF MirrorInv, LoadInv
<1>8. BlockInv' /\ FeedInv'
  BY <1>1 DEF BlockInv, FeedInv, BeforeStore
<1> QED
  BY <1>3, <1>4, <1>5, <1>6, <1>7, <1>8

-------------------------------------------------------------------------------
(* The pipeline: neominer_process_block and combcore_reorg.                *)

(* neominer_write makes the database the image of what libcomb holds.      *)
LEMMA WrittenMirror ==
  ASSUME TypeOK, LibInv, MirrorInv, main = "feed", pc # "unload", neominer_write
  PROVE  /\ disk' = Segment(lib, 0, Len(lib))
         /\ batch' = NoBlocks
         /\ cached' = 0
         /\ ChainStored(disk')
         /\ Gapless(disk')
         /\ DOMAIN disk' \subseteq Nat /\ disk' \in [DOMAIN disk' -> BlockEntry]
         /\ DOMAIN batch' \subseteq Nat /\ batch' \in [DOMAIN batch' -> BlockEntry]
<1>1. lib \in Seq(Block) /\ Linked(lib)
  BY DEF TypeOK, LibInv
<1>2. Len(lib) \in 0 .. Len(lib)
  BY <1>1
<1>3. Len(lib) - cached \in 0 .. Len(lib)
  BY <1>1, <1>2 DEF TypeOK, MirrorInv
<1>4. disk' = Segment(lib, 0, Len(lib))
  BY <1>1, <1>2, <1>3, WriteSegment DEF MirrorInv, neominer_write
<1>5. batch' = NoBlocks /\ cached' = 0
  BY DEF neominer_write
<1> QED
  BY <1>1, <1>2, <1>4, <1>5, SegmentStored DEF NoBlocks

(* The previous block is the tip, or a block above the checkpoint.          *)
LEMMA DetectInv ==
  ASSUME CheckpointSettled, Inv, Detect, UNCHANGED <<btc, faults>> PROVE Inv'
<1> USE TreeAssumption DEF Detect, durable, neo, info, call, btc, Inv
<1>1. /\ block \in Block
      /\ Prev[block] \in DOMAIN chain
      /\ Prev[block] = Checkpoint => block \notin DOMAIN chain
      /\ hash = Tip(lib)
      /\ lib \in Seq(Block)
  BY DEF BlockInv, BeforeStore, LibInv, TypeOK
<1>2. /\ pc' \in {"store", "flush"}
      /\ pc' = "store" => Prev[block] = hash
      /\ pc' = "flush" => Prev[block] # hash
  BY <1>1
<1>3. TypeOK'
  BY <1>2, Places DEF TypeOK
<1>4. NoBrokenChain' /\ ChainInv' /\ LibInv' /\ DiskInv'
  BY <1>2 DEF NoBrokenChain, ChainInv, LibInv, DiskInv
<1>5. MirrorInv' /\ LoadInv' /\ ControlInv'
  BY <1>2 DEF MirrorInv, LoadInv, ControlInv
<1>6. Prev[block] = hash \/ Prev[block] \in Block
  <2> SUFFICES ASSUME Prev[block] # hash, Prev[block] \notin Block PROVE FALSE
    OBVIOUS
  <2>1. Prev[block] = Checkpoint /\ block \notin DOMAIN chain
    BY <1>1 DEF TypeOK
  <2>2. lib # <<>>
    BY <1>1, <2>1 DEF Tip
  <2>3. 1 \in 1 .. Len(lib) /\ lib[1] \in Block
    BY <1>1, <2>2
  <2>4. Prev[lib[1]] = Checkpoint /\ lib[1] \in DOMAIN chain
    BY <2>3 DEF LibInv, Linked
  <2> QED
    BY <1>1, <2>1, <2>3, <2>4 DEF CheckpointSettled
<1>7. BlockInv'
  BY <1>1, <1>2, <1>6 DEF BlockInv, BeforeStore
<1>8. FeedInv'
  BY <1>2 DEF FeedInv, BeforeStore
<1> QED
  BY <1>3, <1>4, <1>5, <1>7, <1>8

(* The batch is written, and the lookup finds the target's height.          *)
LEMMA FlushForReorgInv ==
  ASSUME Inv, FlushForReorg, UNCHANGED <<btc, faults>> PROVE Inv'
<1> USE TreeAssumption DEF Inv
<1>1. /\ pc = "flush" /\ pc' = "trace" /\ main = "feed"
      /\ neominer_write
      /\ target' = Prev[block]
      /\ meta' = db_get_block_by_hash(disk', target')
      /\ UNCHANGED <<dbfile, height, hash, chain, lib, main, pending, block,
                     top, mode, probe, feed, faults>>
  BY DEF FlushForReorg, info, btc, ControlInv
<1>2. /\ disk' = Segment(lib, 0, Len(lib))
      /\ batch' = NoBlocks
      /\ cached' = 0
      /\ ChainStored(disk')
      /\ Gapless(disk')
      /\ DOMAIN disk' \subseteq Nat /\ disk' \in [DOMAIN disk' -> BlockEntry]
      /\ DOMAIN batch' \subseteq Nat /\ batch' \in [DOMAIN batch' -> BlockEntry]
  BY <1>1, WrittenMirror
<1>3. block \in Block /\ target' \in Block /\ lib \in Seq(Block) /\ Linked(lib)
  BY <1>1 DEF BlockInv, BeforeStore, TypeOK, LibInv
<1>4. \A k \in 1 .. Len(lib) : lib[k] = target' => meta' = CheckpointHeight + k
  BY <1>1, <1>2, <1>3, GetBlockByHash
<1>5. TypeOK'
  <2>1. meta' \in Nat
    <3> DEFINE found == {h \in DOMAIN disk' : disk'[h].hash = target'}
    <3>1. DOMAIN disk' = CheckpointHeight + 1 .. CheckpointHeight + Len(lib)
      BY <1>2 DEF Segment
    <3>2. ASSUME found # {} PROVE meta' \in Nat
      <4>1. PICK h \in DOMAIN disk' : disk'[h].hash = target'
        BY <3>2
      <4>2. h - CheckpointHeight \in 1 .. Len(lib) /\ lib[h - CheckpointHeight] = target'
        BY <1>2, <1>3, <3>1, <4>1 DEF Segment, Entry
      <4>3. meta' = CheckpointHeight + (h - CheckpointHeight)
        BY <1>4, <4>2
      <4> QED
        BY <1>3, <4>2, <4>3
    <3>3. ASSUME found = {} PROVE meta' \in Nat
      <4>1. meta' = IF DOMAIN disk' # {} THEN Min(DOMAIN disk') ELSE 0
        BY <1>1, <3>3 DEF db_get_block_by_hash
      <4>2. ASSUME DOMAIN disk' # {} PROVE Min(DOMAIN disk') = CheckpointHeight + 1
        <5>1. /\ CheckpointHeight + 1 \in DOMAIN disk'
              /\ \A h \in DOMAIN disk' : h \in Int /\ CheckpointHeight + 1 <= h
          BY <1>3, <3>1, <4>2
        <5> QED
          BY <5>1 DEF Min
      <4> QED
        BY <4>1, <4>2
    <3> QED
      BY <3>2, <3>3
  <2>2. pc' \in Pcs /\ cached' \in Nat /\ target' \in Block /\ pending' = {}
    <3>1. pending = {}
      BY <1>1 DEF LoadInv
    <3> QED
      BY <1>1, <1>2, <1>3, <3>1, Places
  <2> QED
    BY <1>1, <1>2, <2>1, <2>2 DEF TypeOK
<1>6. NoBrokenChain' /\ ChainInv' /\ LibInv'
  BY <1>1 DEF NoBrokenChain, ChainInv, LibInv
<1>7. DiskInv'
  BY <1>1, <1>2 DEF DiskInv, LoadInv
<1>8. MirrorInv'
  <2>1. Len(lib) \in Nat /\ Len(lib) - 0 = Len(lib)
    BY <1>3
  <2> QED
    BY <1>1, <1>2, <2>1, EmptySegment DEF MirrorInv
<1>9. LoadInv' /\ ControlInv'
  BY <1>1, <1>2, CapacityAssumption DEF LoadInv, ControlInv
<1>10. BlockInv'
  <2>1. hash \in {Checkpoint, Empty} \/ \E k \in 1 .. Len(lib) : hash = lib[k]
    <3>1. hash = Tip(lib)
      BY <1>1 DEF LibInv
    <3>2. CASE lib = <<>>
      BY <3>1, <3>2 DEF Tip
    <3>3. CASE lib # <<>>
      BY <1>3, <3>1, <3>3 DEF Tip
    <3> QED
      BY <3>2, <3>3
  <2> QED
    BY <1>1, <1>2, <1>3, <1>4, <2>1 DEF BlockInv, BeforeStore
<1>11. FeedInv'
  BY <1>1 DEF FeedInv, BeforeStore
<1> QED
  BY <1>5, <1>6, <1>7, <1>8, <1>9, <1>10, <1>11


(* The walk towards the target stays on the branch of libcomb.              *)
LEMMA TraceBackInv ==
  ASSUME Inv, TraceBack, UNCHANGED <<btc, faults>> PROVE Inv'
<1> USE TreeAssumption DEF Inv
<1>1. /\ pc = "trace" /\ hash # target
      /\ hash' = IF hash \in DOMAIN chain THEN chain[hash] ELSE Empty
      /\ pc' = IF hash \in DOMAIN chain THEN "trace" ELSE "past checkpoint"
      /\ UNCHANGED <<disk, dbfile, batch, cached, height, chain, lib, main, pending,
                     block, target, meta, top, mode, probe, feed, faults>>
  BY DEF TraceBack, durable, neo, call, btc
<1>2. /\ main = "feed" /\ pc' \in {"trace", "past checkpoint"}
      /\ lib \in Seq(Block) /\ Linked(lib)
  BY <1>1 DEF ControlInv, TypeOK, LibInv
<1>3. hash' \in {Checkpoint, Empty} \/ \E k \in 1 .. Len(lib) : hash' = lib[k]
  <2>4. Len(lib) \in Nat
    BY DEF TypeOK
  <2>1. CASE hash \notin DOMAIN chain
    BY <1>1, <2>1
  <2>2. CASE hash \in DOMAIN chain /\ hash \in {Checkpoint, Empty}
    BY <1>1, <2>2 DEF ChainInv, TypeOK
  <2>3. CASE hash \in DOMAIN chain /\ \E k \in 1 .. Len(lib) : hash = lib[k]
    <3>1. PICK k \in 1 .. Len(lib) : hash = lib[k]
      BY <2>3
    <3>2. hash \in Block /\ hash' = Prev[lib[k]]
      BY <1>1, <1>2, <2>3, <3>1 DEF ChainInv
    <3>3. CASE k = 1
      BY <1>2, <3>2, <3>3 DEF Linked
    <3>4. CASE k # 1
      <4>1. k - 1 \in 1 .. Len(lib)
        BY <2>4, <3>4
      <4>2. hash' = lib[k - 1]
        BY <1>2, <3>2, <3>4 DEF Linked
      <4> QED
        BY <4>1, <4>2
    <3> QED
      BY <3>3, <3>4
  <2> QED
    BY <1>1, <2>1, <2>2, <2>3 DEF BlockInv
<1>4. TypeOK'
  <2>1. hash' \in Block \cup {Checkpoint, Empty}
    BY <1>1 DEF TypeOK
  <2>2. pc' \in Pcs
    BY <1>2, Places
  <2> QED
    BY <1>1, <2>1, <2>2 DEF TypeOK
<1>5. NoBrokenChain' /\ ChainInv' /\ LibInv' /\ DiskInv'
  BY <1>1, <1>2 DEF NoBrokenChain, ChainInv, LibInv, DiskInv
<1>6. MirrorInv' /\ LoadInv' /\ ControlInv'
  BY <1>1, <1>2 DEF MirrorInv, LoadInv, ControlInv
<1>7. BlockInv'
  BY <1>1, <1>2, <1>3 DEF BlockInv, BeforeStore
<1>8. FeedInv'
  BY <1>1, <1>2 DEF FeedInv, BeforeStore
<1> QED
  BY <1>4, <1>5, <1>6, <1>7, <1>8

(* The walk stopped at a block libcomb holds, and the database is cut      *)
(* there.                                                                  *)
LEMMA RemoveBlocksInv ==
  ASSUME Inv, RemoveBlocks, UNCHANGED <<btc, faults>> PROVE Inv'
<1> USE TreeAssumption DEF Inv
<1>1. /\ pc = "trace" /\ pc' = "unload" /\ hash = target
      /\ db_remove_blocks_after(meta + 1)
      /\ UNCHANGED <<dbfile, batch, cached, height, hash, chain, lib, main, pending,
                     block, target, meta, top, mode, probe, feed, faults>>
  BY DEF RemoveBlocks, neo, info, call, btc
<1>2. /\ main = "feed" /\ cached = 0 /\ batch = NoBlocks /\ target \in Block
      /\ lib \in Seq(Block) /\ Linked(lib)
  BY <1>1 DEF ControlInv, BlockInv, TypeOK, LibInv
<1>3. PICK k \in 1 .. Len(lib) : hash = lib[k]
  BY <1>1, <1>2 DEF BlockInv
<1>4. meta = CheckpointHeight + k /\ meta - CheckpointHeight = k
  <2>1. meta = CheckpointHeight + k
    BY <1>1, <1>3 DEF BlockInv
  <2> QED
    BY <1>3, <2>1
<1>5. disk = Segment(lib, 0, Len(lib))
  <2>1. disk = Segment(lib, 0, Len(lib) - cached)
    BY <1>1, <1>2 DEF MirrorInv
  <2>2. Len(lib) - cached = Len(lib)
    BY <1>2
  <2> QED
    BY <2>1, <2>2
<1>6. disk' = Segment(lib, 0, k)
  <2>1. disk' = [h \in {j \in DOMAIN disk : j < meta + 1} |-> disk[h]]
    BY <1>1 DEF db_remove_blocks_after
  <2>2. /\ DOMAIN disk = CheckpointHeight + 0 + 1 .. CheckpointHeight + Len(lib)
        /\ \A h \in DOMAIN disk : disk[h] = Entry(lib[h - CheckpointHeight])
    BY <1>5 DEF Segment
  <2>3. {j \in DOMAIN disk : j < meta + 1} = CheckpointHeight + 0 + 1 .. CheckpointHeight + k
    BY <1>2, <1>3, <1>4, <2>2
  <2> QED
    BY <2>1, <2>2, <2>3 DEF Segment
<1>7. /\ ChainStored(disk') /\ Gapless(disk')
      /\ DOMAIN disk' \subseteq Nat /\ disk' \in [DOMAIN disk' -> BlockEntry]
  <2>1. k \in 0 .. Len(lib)
    BY <1>2, <1>3
  <2> QED
    BY <1>2, <1>6, <2>1, SegmentStored
<1>8. TypeOK'
  <2>1. pc' \in Pcs /\ pending' = {}
    <3>1. pending = {}
      BY <1>2 DEF LoadInv
    <3> QED
      BY <1>1, <3>1, Places
  <2> QED
    BY <1>1, <1>7, <2>1 DEF TypeOK
<1>9. NoBrokenChain' /\ ChainInv' /\ LibInv'
  BY <1>1 DEF NoBrokenChain, ChainInv, LibInv
<1>10. DiskInv'
  BY <1>1, <1>2, <1>7 DEF DiskInv, LoadInv
<1>11. MirrorInv' /\ LoadInv' /\ ControlInv'
  BY <1>1, <1>2 DEF MirrorInv, LoadInv, ControlInv
<1>12. BlockInv'
  BY <1>1, <1>2, <1>3, <1>4, <1>6 DEF BlockInv, BeforeStore
<1>13. FeedInv'
  BY <1>1, <1>2 DEF FeedInv, BeforeStore
<1> QED
  BY <1>8, <1>9, <1>10, <1>11, <1>12, <1>13

(* libcomb is cut at the same block, so that the two agree again.          *)
LEMMA UnloadBlocksInv ==
  ASSUME Inv, UnloadBlocks, UNCHANGED <<btc, faults>> PROVE Inv'
<1> USE TreeAssumption DEF Inv
<1> DEFINE k == meta - CheckpointHeight
<1>1. /\ pc = "unload"
      /\ lib' = SubSeq(lib, 1, Len(lib) - (height - meta))
      /\ height' = meta
      /\ pc' = IF block = Empty THEN "ready" ELSE "store"
      /\ UNCHANGED <<disk, dbfile, batch, cached, hash, chain, main, pending,
                     block, target, meta, top, mode, probe, feed, faults>>
  BY DEF UnloadBlocks, durable, neo, call, btc
<1>2. /\ main = "feed" /\ cached = 0 /\ batch = NoBlocks
      /\ block \in Block /\ Prev[block] = hash
      /\ k \in 1 .. Len(lib) /\ hash = lib[k]
      /\ disk = Segment(lib, 0, k)
      /\ lib \in Seq(Block) /\ Linked(lib)
      /\ height = CheckpointHeight + Len(lib)
      /\ meta \in Nat
  BY <1>1 DEF ControlInv, BlockInv, BeforeStore, TypeOK, LibInv, LibHeight
<1>3. pc' = "store"
  BY <1>1, <1>2
<1>4. Len(lib) - (height - meta) = k /\ meta = CheckpointHeight + k /\ k \in Nat
  <2>1. Len(lib) \in Nat
    BY <1>2
  <2>2. /\ meta - CheckpointHeight \in 1 .. Len(lib) /\ meta \in Nat
        /\ height = CheckpointHeight + Len(lib)
    BY <1>2
  <2> HIDE DEF Inv
  <2> QED
    BY <2>1, <2>2
<1>5. /\ lib' \in Seq(Block) /\ Len(lib') = k
      /\ \A i \in 1 .. k : lib'[i] = lib[i]
  <2>1. lib' = SubSeq(lib, 1, k)
    BY <1>1, <1>4
  <2>2. lib \in Seq(Block) /\ k \in 1 .. Len(lib) /\ k \in Nat
    BY <1>2, <1>4
  <2> HIDE DEF k, Inv
  <2> QED
    BY <2>1, <2>2
<1>6. hash = Tip(lib')
  <2>1. lib' # <<>> /\ lib'[k] = lib[k]
    BY <1>2, <1>4, <1>5
  <2> QED
    BY <1>2, <1>5, <2>1 DEF Tip
<1>7. LibInv'
  <2>1. height' = LibHeight(lib')
    BY <1>1, <1>4, <1>5 DEF LibHeight
  <2>2. Linked(lib')
    <3> SUFFICES ASSUME NEW i \in 1 .. k
                 PROVE  /\ BtcHeight[lib'[i]] = CheckpointHeight + i
                        /\ Prev[lib'[i]] = IF i = 1 THEN Checkpoint ELSE lib'[i - 1]
      BY <1>5 DEF Linked
    <3> HIDE DEF k
    <3>1. i \in 1 .. Len(lib) /\ lib'[i] = lib[i]
      BY <1>2, <1>4, <1>5
    <3>2. ASSUME i # 1 PROVE lib'[i - 1] = lib[i - 1]
      <4>1. i - 1 \in 1 .. k
        BY <1>4, <3>2
      <4> QED
        BY <1>5, <4>1
    <3> QED
      BY <1>2, <3>1, <3>2 DEF Linked
  <2>3. \A i \in 1 .. Len(lib') : lib'[i] \in DOMAIN chain'
    <3> SUFFICES ASSUME NEW i \in 1 .. k PROVE lib'[i] \in DOMAIN chain
      BY <1>1, <1>5
    <3>1. i \in 1 .. Len(lib) /\ lib'[i] = lib[i]
      BY <1>2, <1>4, <1>5, SMTT(30)
    <3> QED
      BY <3>1 DEF LibInv
  <2> QED
    BY <1>1, <1>6, <2>1, <2>2, <2>3 DEF LibInv
<1>8. MirrorInv'
  <2>1. Segment(lib', 0, k) = Segment(lib, 0, k)
    <3> HIDE DEF k
    <3>1. \A h \in CheckpointHeight + 0 + 1 .. CheckpointHeight + k :
            lib'[h - CheckpointHeight] = lib[h - CheckpointHeight]
      <4> SUFFICES ASSUME NEW h \in CheckpointHeight + 0 + 1 .. CheckpointHeight + k
                   PROVE  lib'[h - CheckpointHeight] = lib[h - CheckpointHeight]
        OBVIOUS
      <4>1. h - CheckpointHeight \in 1 .. k
        BY <1>4
      <4> QED
        BY <1>5, <4>1
    <3> QED
      BY <3>1 DEF Segment
  <2>2. Len(lib') - cached' = k
    BY <1>1, <1>2, <1>4, <1>5
  <2>3. cached' <= Len(lib')
    BY <1>1, <1>2, <1>4, <1>5
  <2>4. batch' = Segment(lib', k, k)
    BY <1>1, <1>2, <1>4, EmptySegment
  <2>5. disk' = Segment(lib', 0, k)
    BY <1>1, <1>2, <2>1
  <2> HIDE DEF k
  <2> QED
    BY <1>5, <2>2, <2>3, <2>4, <2>5 DEF MirrorInv
<1>9. TypeOK'
  <2>1. pc' \in Pcs /\ height' \in Nat
    BY <1>1, <1>2, <1>3, Places
  <2> QED
    BY <1>1, <1>5, <2>1 DEF TypeOK
<1>10. NoBrokenChain' /\ ChainInv' /\ DiskInv'
  BY <1>1, <1>3 DEF NoBrokenChain, ChainInv, DiskInv
<1>11. LoadInv' /\ ControlInv'
  BY <1>1, <1>2, <1>3 DEF LoadInv, ControlInv
<1>12. BlockInv'
  BY <1>1, <1>2, <1>3 DEF BlockInv, BeforeStore
<1>13. FeedInv'
  BY <1>1, <1>2, <1>3 DEF FeedInv, BeforeStore
<1> QED
  BY <1>7, <1>8, <1>9, <1>10, <1>11, <1>12, <1>13

(* An interval with its next number.                                        *)
LEMMA IntervalNext ==
  ASSUME NEW i \in Int, NEW j \in Int, i <= j + 1
  PROVE  i .. (j + 1) = (i .. j) \cup {j + 1}
  OBVIOUS

(* A batch with the next block in it.                                      *)
LEMMA PutSegment ==
  ASSUME NEW l \in Seq(Block), NEW b \in Block, NEW k \in 0 .. Len(l)
  PROVE  /\ Segment(Append(l, b), 0, k) = Segment(l, 0, k)
         /\ Segment(Append(l, b), k, Len(l) + 1)
              = Put(Segment(l, k, Len(l)), CheckpointHeight + Len(l) + 1, Entry(b))
<1> USE TreeAssumption
<1> DEFINE m == Append(l, b)
           top1 == CheckpointHeight + Len(l) + 1
<1>1. Len(l) \in Nat /\ m[Len(l) + 1] = b /\ \A i \in 1 .. Len(l) : m[i] = l[i]
  BY AppendFacts
<1>2. \A h \in CheckpointHeight + 1 .. CheckpointHeight + Len(l) :
        h - CheckpointHeight \in 1 .. Len(l)
  BY <1>1
<1>3. \A h \in CheckpointHeight + 1 .. CheckpointHeight + Len(l) :
        m[h - CheckpointHeight] = l[h - CheckpointHeight]
  BY <1>1, <1>2
<1>4. m[top1 - CheckpointHeight] = b
  <2>1. top1 - CheckpointHeight = Len(l) + 1
    BY <1>1
  <2> QED
    BY <1>1, <2>1
<1> HIDE DEF m
<1>5. Segment(m, 0, k) = Segment(l, 0, k)
  BY <1>1, <1>3 DEF Segment
<1>6. Segment(m, k, Len(l) + 1) = Put(Segment(l, k, Len(l)), top1, Entry(b))
  <2>1. CheckpointHeight + k + 1 .. CheckpointHeight + (Len(l) + 1)
          = (CheckpointHeight + k + 1 .. CheckpointHeight + Len(l)) \cup {top1}
    <3> DEFINE i == CheckpointHeight + k + 1
               j == CheckpointHeight + Len(l)
    <3>1. i \in Int /\ j \in Int /\ i <= j + 1 /\ j + 1 = top1
             /\ CheckpointHeight + (Len(l) + 1) = j + 1
      BY <1>1
    <3> HIDE DEF i, j, top1
    <3>2. i .. (j + 1) = (i .. j) \cup {j + 1}
      BY <3>1, IntervalNext
    <3> QED
      BY <3>1, <3>2 DEF i, j
  <2>2. ASSUME NEW h \in CheckpointHeight + k + 1 .. CheckpointHeight + Len(l)
        PROVE  h # top1 /\ m[h - CheckpointHeight] = l[h - CheckpointHeight]
    BY <1>1, <1>3
  <2> QED
    BY <1>4, <2>1, <2>2 DEF Segment, Put
<1> QED
  BY <1>5, <1>6 DEF m

(* The block is put into the batch and loaded into libcomb together.       *)
LEMMA StoreInv ==
  ASSUME Inv, Store, UNCHANGED <<btc, faults>> PROVE Inv'
<1> USE TreeAssumption DEF Inv
<1>1. /\ pc = "store" /\ main = "feed"
      /\ block \in Block /\ Prev[block] = hash
      /\ hash = Tip(lib) /\ height = LibHeight(lib)
      /\ lib \in Seq(Block)
      /\ cached \in Nat /\ cached <= Len(lib) /\ cached < BatchCapacity
  BY DEF Store, BlockInv, BeforeStore, ControlInv, LibInv, MirrorInv, TypeOK
<1>2. /\ db_process_block(Entry(block), height + 1)
      /\ combcore_process_block(Entry(block), LibHeight(lib) + 1)
      /\ cached' = cached + 1
  BY <1>1 DEF Store
<1>3. UNCHANGED <<disk, dbfile, main, pending, block, target, meta,
                  top, mode, probe, feed, faults>>
  BY DEF Store, durable, call, btc
<1>4. /\ Verdict(Entry(block), LibHeight(lib) + 1) = "loaded"
      /\ lib' = Append(lib, block)
      /\ hash' = block
      /\ chain' = Put(chain, block, hash)
  BY <1>1, <1>2, LoadedBlock
<1>5. /\ pc' \in {"full", "ready"}
      /\ pc' = "ready" => ~(cached' >= BatchCapacity)
  <2>1. pc' = IF Verdict(Entry(block), LibHeight(lib) + 1) \in ChainPanics
              THEN Verdict(Entry(block), LibHeight(lib) + 1)
              ELSE IF cached' >= BatchCapacity THEN "full" ELSE "ready"
    BY <1>1 DEF Store
  <2>2. Verdict(Entry(block), LibHeight(lib) + 1) \notin ChainPanics
    BY <1>4 DEF ChainPanics
  <2> QED
    BY <2>1, <2>2
<1>6. lib' \in Seq(Block) /\ Len(lib') = Len(lib) + 1 /\ Len(lib) \in Nat
  <2>1. lib \in Seq(Block) /\ block \in Block /\ lib' = Append(lib, block)
    BY <1>1, <1>4
  <2>2. Len(lib) \in Nat
    BY <2>1
  <2> QED
    BY <2>1, <2>2, AppendFacts
<1>7. MirrorInv'
  <2> DEFINE k == Len(lib) - cached
  <2>1. k \in 0 .. Len(lib) /\ Len(lib') - cached' = k /\ cached' <= Len(lib')
    BY <1>1, <1>2, <1>6
  <2>2. disk = Segment(lib, 0, k) /\ batch = Segment(lib, k, Len(lib))
    BY <1>1 DEF MirrorInv
  <2>3. batch' = Put(batch, CheckpointHeight + Len(lib) + 1, Entry(block))
    BY <1>1, <1>2 DEF db_process_block, LibHeight
  <2>4. lib \in Seq(Block) /\ block \in Block /\ lib' = Append(lib, block)
    BY <1>1, <1>4
  <2> HIDE DEF k, Inv
  <2>5. Segment(lib', 0, k) = disk /\ Segment(lib', k, Len(lib) + 1) = batch'
    BY <2>1, <2>2, <2>3, <2>4, PutSegment
  <2>6. disk' = Segment(lib', 0, k) /\ batch' = Segment(lib', k, Len(lib'))
    BY <1>3, <1>6, <2>5
  <2> QED
    BY <2>1, <2>6 DEF MirrorInv
<1>8. TypeOK'
  <2>1. block \in Block /\ hash' = block /\ hash \in Block \cup {Checkpoint, Empty}
           /\ chain' = Put(chain, block, hash)
    BY <1>1, <1>4 DEF TypeOK
  <2>2. /\ DOMAIN chain' \subseteq Block \cup {Checkpoint}
        /\ chain' \in [DOMAIN chain' -> Block \cup {Checkpoint, Empty}]
    BY <2>1 DEF TypeOK, Put
  <2>3. height' = LibHeight(lib') /\ cached' = cached + 1 /\ cached \in Nat
    <3>1. height' = LibHeight(lib')
      BY <1>1, <1>2, LoadedBlock
    <3> QED
      BY <1>1, <1>2, <3>1
  <2>4. height' \in Nat /\ cached' \in Nat
    BY <1>6, <2>3 DEF LibHeight
  <2>5. height + 1 \in Nat /\ Entry(block) \in BlockEntry
    BY <1>1 DEF TypeOK, Entry, BlockEntry
  <2>6. DOMAIN batch' \subseteq Nat /\ batch' \in [DOMAIN batch' -> BlockEntry]
    BY <1>2, <2>5 DEF TypeOK, db_process_block, Put
  <2>7. pc' \in Pcs
    BY <1>5, Places
  <2> QED
    BY <1>3, <1>6, <2>1, <2>2, <2>4, <2>6, <2>7 DEF TypeOK
<1>9. NoBrokenChain' /\ DiskInv'
  BY <1>3, <1>5 DEF NoBrokenChain, DiskInv
<1>10. LoadInv'
  BY <1>1, <1>3 DEF LoadInv
<1>11. ChainInv' /\ LibInv'
  <2>1. /\ height' = LibHeight(lib')
        /\ hash' = Tip(lib')
        /\ Linked(lib')
        /\ \A i \in 1 .. Len(lib') : lib'[i] \in DOMAIN chain'
        /\ ChainInv'
    BY <1>1, <1>2, LoadedBlock
  <2> HIDE DEF Inv
  <2> QED
    BY <2>1 DEF LibInv
<1>12. ControlInv'
  <2>1. main' = "feed" /\ cached' = cached + 1 /\ cached \in Nat /\ cached < BatchCapacity
    BY <1>1, <1>2, <1>3
  <2> HIDE DEF Inv
  <2> QED
    BY <1>5, <2>1, CapacityAssumption DEF ControlInv
<1>13. BlockInv'
  BY <1>5 DEF BlockInv, BeforeStore
<1>14. FeedInv'
  <2>1. DOMAIN chain' = DOMAIN chain \cup {block}
    BY <1>4 DEF Put
  <2>2. main = "feed" /\ (feed # <<>> => Prev[feed[1]] = block)
    BY <1>1 DEF FeedInv, BeforeStore
  <2>3. feed' = feed /\ main' = main
    BY <1>3
  <2>4. pc' \in {"full", "ready"}
    BY <1>5
  <2>5. /\ \A i \in 1 .. Len(feed') - 1 : Prev[feed'[i + 1]] = feed'[i]
        /\ feed # <<>> /\ Prev[feed[1]] = Checkpoint => feed[1] \notin DOMAIN chain
    BY <2>3 DEF FeedInv
  <2>6. block \in Block /\ (feed # <<>> => feed[1] # block)
    <3>1. block \in Block
      BY <1>1
    <3>2. BtcHeight[block] \in Nat
      BY <3>1
    <3>3. Prev[block] = block => BtcHeight[block] = BtcHeight[block] + 1
      BY <3>1
    <3> QED
      BY <2>2, <3>1, <3>2, <3>3
  <2> HIDE DEF Inv
  <2> QED
    BY <2>1, <2>2, <2>3, <2>4, <2>5, <2>6 DEF FeedInv, BeforeStore
<1> QED
  BY <1>7, <1>8, <1>9, <1>10, <1>11, <1>12, <1>13, <1>14

(* The two places that write the batch without a reorg.                    *)
LEMMA WriteInv ==
  ASSUME Inv, \/ FlushFull /\ UNCHANGED <<btc, faults>>
              \/ FinalFlush
  PROVE  Inv'
<1> USE TreeAssumption DEF Inv
<1>1. /\ pc \in {"full", "ready"} /\ main = "feed"
      /\ neominer_write
      /\ \/ pc' = "ready" /\ main' = "feed"
         \/ pc' = "none" /\ main' = "idle" /\ feed = <<>>
      /\ UNCHANGED <<dbfile, height, hash, chain, lib, pending, block, target, meta,
                     top, mode, probe, feed, faults>>
  BY DEF FlushFull, FinalFlush, info, call, btc, ControlInv
<1>2. /\ disk' = Segment(lib, 0, Len(lib))
      /\ batch' = NoBlocks
      /\ cached' = 0
      /\ ChainStored(disk')
      /\ Gapless(disk')
      /\ DOMAIN disk' \subseteq Nat /\ disk' \in [DOMAIN disk' -> BlockEntry]
      /\ DOMAIN batch' \subseteq Nat /\ batch' \in [DOMAIN batch' -> BlockEntry]
  BY <1>1, WrittenMirror
<1>3. lib \in Seq(Block) /\ pending = {} /\ dbfile \in {"current", "unversioned"}
  BY <1>1 DEF TypeOK, LoadInv
<1>4. TypeOK'
  <2>1. main' \in Mains /\ pc' \in Pcs /\ cached' \in Nat /\ pending' = {}
    BY <1>1, <1>2, <1>3, Places
  <2> QED
    BY <1>1, <1>2, <2>1 DEF TypeOK
<1>5. NoBrokenChain' /\ ChainInv' /\ LibInv' /\ DiskInv'
  BY <1>1, <1>2, <1>3 DEF NoBrokenChain, ChainInv, LibInv, DiskInv
<1>6. MirrorInv'
  <2>1. Len(lib) \in Nat /\ Len(lib) - 0 = Len(lib)
    BY <1>3
  <2> QED
    BY <1>1, <1>2, <2>1, EmptySegment DEF MirrorInv
<1>7. LoadInv' /\ ControlInv'
  BY <1>1, <1>2, <1>3, CapacityAssumption DEF LoadInv, ControlInv
<1>8. BlockInv'
  BY <1>1 DEF BlockInv, BeforeStore
<1>9. FeedInv'
  BY <1>1 DEF FeedInv, BeforeStore
<1> QED
  BY <1>4, <1>5, <1>6, <1>7, <1>8, <1>9

(* A step that changes no variable.                                        *)
LEMMA StutterInv == ASSUME Inv, UNCHANGED vars PROVE Inv'
<1> USE DEF vars, nodeVars, btc, Inv
<1>1. TypeOK'
  BY DEF TypeOK
<1>2. NoBrokenChain' /\ ChainInv' /\ LibInv' /\ DiskInv'
  BY DEF NoBrokenChain, ChainInv, LibInv, DiskInv
<1>3. MirrorInv' /\ LoadInv' /\ ControlInv' /\ BlockInv' /\ FeedInv'
  BY DEF MirrorInv, LoadInv, ControlInv, BlockInv, FeedInv
<1> QED
  BY <1>1, <1>2, <1>3

-------------------------------------------------------------------------------
(* The invariant is inductive.                                             *)

(* Every step of the node, of Bitcoin and of the environment keeps Inv.    *)
LEMMA NextInv == ASSUME CheckpointSettled, Inv, [Next]_vars PROVE Inv'
<1>1. CASE BtcTip
  BY <1>1, BtcTipInv
<1>2. CASE UNCHANGED vars \/ SyncNothing \/ TraceSpin
  BY <1>2, StutterInv DEF SyncNothing, TraceSpin
<1>3. CASE Ingest /\ UNCHANGED <<btc, faults>>
  BY <1>3, DetectInv, FlushForReorgInv, TraceBackInv, RemoveBlocksInv,
     UnloadBlocksInv, StoreInv, WriteInv DEF Ingest
<1>4. CASE Startup /\ UNCHANGED <<btc, faults>>
  BY <1>4, StartInv, DbNewInv, DbVersionInv, LoadNextInv, LoadDoneInv DEF Startup
<1>5. CASE Sync
  BY <1>5, SyncBeginInv, TraceStepInv, TraceEndInv, GiveUpInv, FeedBlockInv, WriteInv
     DEF Sync
<1>6. CASE TraceFail \/ FeedFail
  BY <1>6, GiveUpInv
<1>7. CASE Die \/ Crash
  BY <1>7, HaltInv
<1> QED
  BY <1>1, <1>2, <1>3, <1>4, <1>5, <1>6, <1>7 DEF Next, NodeStep

(* The inductive invariant: COMBInfo.Chain is a part of the block tree,    *)
(* libcomb holds a branch of it, database and batch split that branch      *)
(* between them, and every traced block follows the one before it.         *)
THEOREM Invariant == ASSUME CheckpointSettled PROVE Spec => []Inv
<1>1. Init => Inv
  BY InitInv
<1>2. Inv /\ [Next]_vars => Inv'
  BY NextInv
<1> QED
  BY <1>1, <1>2, PTL DEF Spec

(* Type correctness: every variable keeps its type, in particular the      *)
(* database and the batch file whole block entries under natural heights.  *)
THEOREM TypeCorrect == ASSUME CheckpointSettled PROVE Spec => []TypeOK
<1>1. Inv => TypeOK
  BY DEF Inv
<1> QED
  BY <1>1, Invariant, PTL

(* A crash at any moment, the middle of combcore_reorg included, leaves a  *)
(* database that db_load can load: one branch from the checkpoint upwards. *)
THEOREM DiskAlwaysChain == ASSUME CheckpointSettled PROVE Spec => []DiskIsChain
<1>1. Inv => DiskIsChain
  BY DEF Inv, DiskInv, DiskIsChain
<1> QED
  BY <1>1, Invariant, PTL

(* None of the panics that report a broken chain or a failed rollback in   *)
(* neominer_process_block, combcore_process_block or db_load is reached.   *)
THEOREM ChainNeverBroken == ASSUME CheckpointSettled PROVE Spec => []NoBrokenChain
<1>1. Inv => NoBrokenChain
  BY DEF Inv
<1> QED
  BY <1>1, Invariant, PTL

(* Whenever no reorg is half done, database and batch together are what    *)
(* libcomb has loaded, and COMBInfo says where that ends.                  *)
THEOREM MinedAlwaysLoaded == ASSUME CheckpointSettled PROVE Spec => []MinedIsLoaded
<1> USE TreeAssumption
<1>1. Inv => MinedIsLoaded
  <2> SUFFICES ASSUME Inv, main \in {"idle", "trace", "feed"},
                      pc \in {"none", "ready", "process", "flush", "store", "full"}
               PROVE  /\ Write(batch, disk) = Image(lib)
                      /\ height = LibHeight(lib)
                      /\ hash = IF lib = <<>> THEN Checkpoint ELSE lib[Len(lib)]
                      /\ main = "idle" => batch = NoBlocks
    BY DEF MinedIsLoaded
  <2> DEFINE k == Len(lib) - cached
  <2>1. /\ lib \in Seq(Block) /\ cached \in Nat /\ cached <= Len(lib)
        /\ disk = Segment(lib, 0, k) /\ batch = Segment(lib, k, Len(lib))
    BY DEF Inv, TypeOK, MirrorInv
  <2>2. k \in 0 .. Len(lib) /\ Len(lib) \in Nat
    BY <2>1
  <2>3. Write(batch, disk) = Segment(lib, 0, Len(lib))
    <3> HIDE DEF k
    <3> QED
      BY <2>1, <2>2, WriteSegment
  <2>4. Segment(lib, 0, Len(lib)) = Image(lib)
    BY <2>2 DEF Segment, Image, LibHeight
  <2>5. height = LibHeight(lib) /\ hash = Tip(lib)
    BY DEF Inv, LibInv
  <2>6. ASSUME main = "idle" PROVE batch = NoBlocks
    <3>1. cached = 0
      BY <2>6 DEF Inv, ControlInv
    <3>2. k = Len(lib)
      BY <2>2, <3>1
    <3> QED
      BY <2>1, <2>2, <3>2, EmptySegment
  <2> QED
    BY <2>3, <2>4, <2>5, <2>6 DEF Tip
<1> QED
  BY <1>1, Invariant, PTL

(* NeoInfo.BatchCached counts the blocks of the batch, which never         *)
(* outgrows NeoInfo.BatchCapacity, whatever reorgs interrupt it.           *)
THEOREM BatchAlwaysBounded == ASSUME CheckpointSettled PROVE Spec => []BatchBounded
<1> USE TreeAssumption
<1>1. Inv => BatchBounded
  <2> SUFFICES ASSUME Inv PROVE BatchBounded
    OBVIOUS
  <2>1. cached <= BatchCapacity
    BY DEF Inv, ControlInv
  <2>2. CASE batch = NoBlocks /\ cached = 0
    <3>1. DOMAIN batch = {}
      BY <2>2 DEF NoBlocks
    <3> QED
      BY <2>1, <2>2, <3>1, FS_EmptySet DEF BatchBounded
  <2>3. CASE main \in {"idle", "trace", "feed"} /\ pc # "unload"
    <3>1. /\ lib \in Seq(Block) /\ cached \in Nat
          /\ batch = Segment(lib, Len(lib) - cached, Len(lib))
      BY <2>3 DEF Inv, TypeOK, MirrorInv
    <3>2. Len(lib) \in Nat
      BY <3>1
    <3> DEFINE i == CheckpointHeight + (Len(lib) - cached) + 1
               j == CheckpointHeight + Len(lib)
    <3>3. DOMAIN batch = i .. j
      BY <3>1 DEF Segment
    <3>4. i \in Int /\ j \in Int /\ (IF i > j THEN 0 ELSE j - i + 1) = cached
      BY <3>1, <3>2
    <3> HIDE DEF i, j
    <3>5. Cardinality(DOMAIN batch) = cached
      BY <3>3, <3>4, FS_Interval
    <3> QED
      BY <2>1, <3>5 DEF BatchBounded
  <2>4. \/ batch = NoBlocks /\ cached = 0
        \/ main \in {"idle", "trace", "feed"} /\ pc # "unload"
    BY DEF Inv, LoadInv, BlockInv
  <2> QED
    BY <2>2, <2>3, <2>4
<1> QED
  BY <1>1, Invariant, PTL

-------------------------------------------------------------------------------
(* What a step does to the database.                                       *)

(* A step leaves the database alone, writes what follows its last block,   *)
(* or is the cut of a reorg at a block of the node's branch.               *)
LEMMA DiskStep ==
  ASSUME CheckpointSettled, Inv, [Next]_vars
  PROVE  \/ disk' = disk
         \/ /\ DOMAIN disk \subseteq DOMAIN disk'
            /\ \A h \in DOMAIN disk : disk'[h] = disk[h]
         \/ RemoveBlocks
<1> USE TreeAssumption
<1>1. CASE neominer_write /\ main = "feed" /\ pc # "unload"
  <2>1. /\ disk' = Write(batch, disk)
        /\ lib \in Seq(Block) /\ cached \in Nat /\ cached <= Len(lib)
        /\ disk = Segment(lib, 0, Len(lib) - cached)
        /\ batch = Segment(lib, Len(lib) - cached, Len(lib))
    BY <1>1 DEF neominer_write, Inv, TypeOK, MirrorInv
  <2>2. Len(lib) \in Nat
    BY <2>1
  <2>3. \A h \in DOMAIN disk : h \notin DOMAIN batch
    BY <2>1, <2>2 DEF Segment
  <2>4. /\ DOMAIN disk \subseteq DOMAIN disk'
        /\ \A h \in DOMAIN disk : disk'[h] = disk[h]
    BY <2>1, <2>3 DEF Write
  <2> QED
    BY <2>4
<1>2. CASE RemoveBlocks
  BY <1>2
<1>3. CASE UNCHANGED disk
  BY <1>3
<1>4. ASSUME Ingest PROVE \/ UNCHANGED disk
                          \/ RemoveBlocks
                          \/ neominer_write /\ main = "feed" /\ pc # "unload"
  <2>1. pc # "none" => main \in {"feed", "trace"}
    BY DEF Inv, ControlInv
  <2>2. main = "trace" => pc = "ready"
    BY DEF Inv, ControlInv
  <2> QED
    BY <1>4, <2>1, <2>2
       DEF Ingest, Detect, FlushForReorg, TraceBack, UnloadBlocks, Store, FlushFull, durable
<1>5. ASSUME Startup PROVE UNCHANGED disk
  BY <1>5 DEF Startup, Start, DbNew, DbVersion, LoadNext, LoadDone, durable
<1>6. ASSUME Sync PROVE \/ UNCHANGED disk
                        \/ neominer_write /\ main = "feed" /\ pc # "unload"
  <2>1. CASE FinalFlush
    BY <2>1 DEF FinalFlush
  <2>2. CASE SyncBegin \/ TraceEnd \/ TraceLost \/ FeedBlock
    <3>1. UNCHANGED durable
      BY <2>2 DEF SyncBegin, TraceEnd, TraceLost, FeedBlock
    <3> QED
      BY <3>1 DEF durable
  <2>3. CASE TraceStep
    <3>1. UNCHANGED nodeVars
      BY <2>3 DEF TraceStep
    <3> QED
      BY <3>1 DEF nodeVars
  <2> QED
    BY <1>6, <2>1, <2>2, <2>3 DEF Sync
<1>7. ASSUME \/ BtcTip \/ SyncNothing \/ TraceSpin \/ TraceFail \/ FeedFail
             \/ Die \/ Crash \/ UNCHANGED vars
      PROVE  UNCHANGED disk
  BY <1>7 DEF BtcTip, SyncNothing, TraceSpin, TraceFail, FeedFail, Die, Crash, Halt,
     vars, nodeVars, durable
<1> QED
  BY <1>1, <1>2, <1>3, <1>4, <1>5, <1>6, <1>7 DEF Next, NodeStep

(* The step that refuses a database finds it without a version key, and so *)
(* without a block unless db_new failed to write the key; no step that     *)
(* leaves the process refused stores one.                                  *)
LEMMA RefusedStep ==
  ASSUME Inv, RefusedIsEmpty, [Next]_vars
  PROVE  RefusedIsEmpty'
<1> SUFFICES ASSUME main' = "legacy db", disk' # NoBlocks PROVE dbfile' = "unversioned"
  BY DEF RefusedIsEmpty
<1>1. CASE Startup
  <2>1. CASE DbVersion
    <3>1. dbfile # "current" /\ UNCHANGED <<disk, dbfile>>
      BY <2>1 DEF DbVersion, db_get_version, durable
    <3> QED
      BY <3>1 DEF Inv, DiskInv, TypeOK
  <2> QED
    BY <1>1, <2>1 DEF Startup, Start, DbNew, LoadNext, LoadDone
<1>2. CASE Ingest
  <2>1. main \in {"feed", "trace"} /\ main' = main
    BY <1>2 DEF Ingest, Detect, FlushForReorg, TraceBack, RemoveBlocks, UnloadBlocks,
       Store, FlushFull, Inv, ControlInv
  <2> QED
    BY <2>1
<1>3. CASE Sync
  <2>1. main' \in {"idle", "trace", "feed"}
    BY <1>3 DEF Sync, SyncBegin, TraceStep, TraceEnd, TraceLost, FeedBlock, FinalFlush,
       nodeVars
  <2> QED
    BY <2>1
<1>4. CASE \/ BtcTip \/ SyncNothing \/ TraceSpin \/ TraceFail \/ FeedFail
           \/ UNCHANGED vars
  <2>1. UNCHANGED <<disk, dbfile>> /\ (main' = main \/ main' \in {"idle", "trace", "feed"})
    BY <1>4 DEF BtcTip, SyncNothing, TraceSpin, TraceFail, FeedFail, vars, nodeVars, durable
  <2> QED
    BY <2>1 DEF RefusedIsEmpty
<1>5. CASE Die \/ Crash
  BY <1>5 DEF Die, Crash, Halt
<1> QED
  BY <1>1, <1>2, <1>3, <1>4, <1>5 DEF Next, NodeStep

(* However often the process dies while it creates its database, one that  *)
(* db_start then refuses as a legacy database holds no block, unless       *)
(* db_new's own write of the version key failed.                           *)
THEOREM RefusedAlwaysEmpty == ASSUME CheckpointSettled PROVE Spec => []RefusedIsEmpty
<1>1. Init => RefusedIsEmpty
  BY DEF Init, NodeInit, RefusedIsEmpty
<1>2. Inv /\ RefusedIsEmpty /\ [Next]_vars => RefusedIsEmpty'
  BY RefusedStep
<1> QED
  BY <1>1, <1>2, Invariant, PTL DEF Spec

(* A step deletes only blocks that the branch of the block being ingested  *)
(* does not contain, and only when no ingested block is unwritten.         *)
THEOREM RemovesOnlyAbandonedBlocks ==
  ASSUME CheckpointSettled PROVE Spec => RemovesOnlyAbandoned
<1> USE TreeAssumption
<1> DEFINE Careful == \A h \in DOMAIN disk \ DOMAIN disk' :
                        /\ block \in Block
                        /\ Prev[block] \in Block => ~OnBranch(disk[h].hash, Prev[block])
                        /\ batch = NoBlocks
<1>1. Inv /\ [Next]_vars => Careful
  <2> SUFFICES ASSUME Inv, [Next]_vars, NEW h \in DOMAIN disk \ DOMAIN disk'
               PROVE  /\ block \in Block
                      /\ Prev[block] \in Block => ~OnBranch(disk[h].hash, Prev[block])
                      /\ batch = NoBlocks
    OBVIOUS
  <2>1. RemoveBlocks
    BY DiskStep
  <2>2. /\ pc = "trace" /\ hash = target
        /\ disk' = [j \in {i \in DOMAIN disk : i < meta + 1} |-> disk[j]]
    BY <2>1 DEF RemoveBlocks, db_remove_blocks_after
  <2>3. block \in Block /\ target = Prev[block] /\ target \in Block /\ batch = NoBlocks
    BY <2>2 DEF Inv, BlockInv, BeforeStore
  <2>4. PICK k \in 1 .. Len(lib) : target = lib[k]
    BY <2>2, <2>3 DEF Inv, BlockInv
  <2>5. meta = CheckpointHeight + k /\ BtcHeight[target] = meta
    BY <2>2, <2>4 DEF Inv, BlockInv, LibInv, Linked
  <2>6. BtcHeight[disk[h].hash] = h /\ h \in Nat
    BY DEF Inv, DiskInv, ChainStored, TypeOK
  <2>7. ~(h < meta + 1) /\ meta \in Nat
    BY <2>2 DEF Inv, TypeOK
  <2>8. ~(BtcHeight[disk[h].hash] <= BtcHeight[target])
    BY <2>5, <2>6, <2>7
  <2> QED
    BY <2>3, <2>8 DEF OnBranch
<1> QED
  BY <1>1, Invariant, PTL DEF Spec, RemovesOnlyAbandoned

(* A stored chain is a branch in the sense of the abstract ledger.         *)
LEMMA StoredBranch ==
  ASSUME NEW d, ChainStored(d), DOMAIN d \subseteq Nat
  PROVE  Abstract!Branch([h \in DOMAIN d |-> d[h].hash])
<1> USE TreeAssumption
<1> DEFINE l == [h \in DOMAIN d |-> d[h].hash]
<1> SUFFICES ASSUME NEW h \in DOMAIN d
             PROVE  /\ h > CheckpointHeight
                    /\ l[h] \in Block
                    /\ IF h = CheckpointHeight + 1
                       THEN Prev[l[h]] = Checkpoint
                       ELSE h - 1 \in DOMAIN l /\ Prev[l[h]] = l[h - 1]
  BY DEF Abstract!Branch
<1>1. /\ h > CheckpointHeight
      /\ d[h].hash \in Block
      /\ d[h] = Entry(d[h].hash)
      /\ h = CheckpointHeight + 1 => d[h].previous = Checkpoint
      /\ h > CheckpointHeight + 1 =>
           h - 1 \in DOMAIN d /\ d[h].previous = d[h - 1].hash
  BY DEF ChainStored
<1>2. d[h].previous = Prev[d[h].hash]
  BY <1>1 DEF Entry
<1>3. h \in Nat
  OBVIOUS
<1> QED
  BY <1>1, <1>2, <1>3

(* The database implements the ledger of module Ledger: it starts empty,   *)
(* and every step appends blocks to its branch, cuts the end of it off, or *)
(* leaves it alone.                                                        *)
THEOREM ImplementsLedger == ASSUME CheckpointSettled PROVE Spec => LedgerSpec
<1> USE TreeAssumption
<1> DEFINE ledger == [h \in DOMAIN disk |-> disk[h].hash]
<1>1. Init => Abstract!Init
  BY DEF Init, NodeInit, NoBlocks, Abstract!Init
<1>2. Inv /\ [Next]_vars => [Abstract!Next]_ledger
  <2> SUFFICES ASSUME Inv, [Next]_vars PROVE Abstract!Next \/ UNCHANGED ledger
    OBVIOUS
  <2>1. Inv'
    BY NextInv
  <2>2. ChainStored(disk') /\ DOMAIN disk' \subseteq Nat
    BY <2>1 DEF Inv, DiskInv, TypeOK
  <2>3. Abstract!Branch(ledger')
    BY <2>2, StoredBranch
  <2>4. CASE disk' = disk
    BY <2>4
  <2>5. CASE /\ DOMAIN disk \subseteq DOMAIN disk'
             /\ \A h \in DOMAIN disk : disk'[h] = disk[h]
    <3>1. Abstract!PrefixOf(ledger, ledger')
      BY <2>5 DEF Abstract!PrefixOf
    <3> QED
      BY <2>3, <3>1 DEF Abstract!Next, Abstract!Extend
  <2>6. CASE RemoveBlocks
    <3>1. Abstract!PrefixOf(ledger', ledger)
      BY <2>6 DEF RemoveBlocks, db_remove_blocks_after, Abstract!PrefixOf
    <3> QED
      BY <2>3, <3>1 DEF Abstract!Next, Abstract!Rollback
  <2> QED
    BY <2>4, <2>5, <2>6, DiskStep
<1> QED
  BY <1>1, <1>2, Invariant, PTL DEF Spec, LedgerSpec, Abstract!Spec

===============================================================================
