# COMBCore in TLA+

COMBCore follows a Bitcoin node, extracts the COMB commits of every block, keeps
them in a LevelDB database, and loads them into `libcomb`, which does the COMB
accounting. The core of this directory models how COMBCore keeps three copies of
one block chain consistent: the database, the in-memory chain (`COMBInfo`) and
libcomb. They have to agree through Bitcoin reorgs, failed downloads, and crashes
between any two database writes. Around it are models of the database key by key,
of the block files Bitcoin is still writing, of the block parser, and of the
wallet and the contracts behind the control interface.

Contents: [inventory](#inventory), [modules](#modules), [runs](#runs),
[findings](#findings), [proofs](#proofs), [what is left out](#what-is-left-out),
[plan](#plan).

## Inventory

| Part | State | Operations | Correct when |
|---|---|---|---|
| Database, `db.go` | LevelDB: version key; per height one metadata key (hash, previous, fingerprint) and one key per commit | `db_open`, `db_new`, `db_start`, `db_load`, `db_write`, `db_process_block`, `db_remove_blocks_after`, `db_get_block_by_hash/height`; the bytes of the keys | at every moment a crash could expose it holds one loadable branch from the checkpoint upwards; keys are in block order as bytes |
| Chain in memory, `combcore.go` | `COMBInfo.Height`, `Hash`, `Chain` (child to parent), `Status`, `StatusLock` | `combcore_init`, `combcore_process_block`, `combcore_reorg`, status setters, signal handler | agrees with libcomb and with database plus batch outside a reorg; a reorg rolls all three back to the same block |
| Ingestion, `neominer.go` | `NeoInfo.Batch`, `BatchCached`, `BatchCapacity` | `neominer_process_block`, `neominer_write` | stores a block only on its parent; the batch never outgrows its capacity and is written before anything is deleted |
| Bitcoin sync, `btc.go` | `BTC.Chain` | `btc_sync`, `btc_get_block_range` | the node reaches Bitcoin's best block |
| REST client, `btc_rest.go` | the trace | `rest_get_chains`, `rest_trace_chain`, `rest_get_block_range` | hands on a gapless range that starts above a block the node knows |
| Block files, `btc_direct.go` | blocks read from `blk*.dat` | `direct_trace_chain`, `direct_load_trace`, `direct_parse_block_file` | the same |
| Block parser, `btc.go` | the unread bytes | `btc_parse_varint`, `btc_parse_block` | finds exactly the P2WSH programs of a block; never accepts part of a block |
| HTTP API, `ghettoapi.go` | `gapi_db_mutex` | private: push a block, remove blocks; public: read-only | database and libcomb agree whenever the mutex is free |
| Wallet, `wallet.go`, `rpc.go` | libcomb's constructs, the wallet file, the status line | load, save, list | what is saved can be loaded; the status is right again afterwards |
| Contracts, `control.go` | deciders, undecided and decided merkle segments | generate, construct, sign, prove, decide, load | a contract pays to the leaf its owner signed for and to no other |
| Helpers, `util.go` | none | hex conversions; integer conversions of debug calls | exact |
| libcomb (git submodule), goleveldb, net/http, Bitcoin | | | external |

**Interaction.** `main` initialises, starts the RPC server, opens and loads the
database (a goroutine consumes what `db_load_blocks` reads), starts the HTTP API
and enters the loop of its mode. In `FULL_NODE` mode that loop calls `btc_sync`:
it asks Bitcoin for its best block, traces it back to a block in
`COMBInfo.Chain`, and sends the blocks oldest first over an unbuffered channel to
a goroutine that runs `neominer_process_block` on each and writes the batch at
the end. In `MID_NODE_REMOTE` mode `main` sleeps, and the handlers of the private
API run the same pipeline under `gapi_db_mutex`. A signal handler exits once it
gets the `critical` lock, which `db_write` holds.

**What is hard here.** Bitcoin changes its tip while blocks of the old tip are
still on their way. A crash may fall between the deletion of the old branch and
the write of the new one. Answers fail in the middle of a range. net/http
recovers panics of handlers and goes on with whatever the handler had changed in
memory. `COMBInfo.Chain` is never pruned, and lookups that fail return another
block's data instead of an error. The recovery of a damaged database runs beside
the program it has already released. Bitcoin writes the block files while they
are read. RPC calls run concurrently and share the status line and libcomb's
constructs without a lock. `PROJECT.json` lists these hazards with their
lines and the properties that cover them.

## Modules

| Module | Models | Notes |
|---|---|---|
| `Node` | `db.go`, `combcore.go`, `neominer.go`, start of `main.go` | the state every mode shares and the pipeline, without a driver |
| `FullNode` | `btc.go`, `btc_rest.go`, `btc_direct.go`, the loop of `main.go` | extends `Node` with Bitcoin, tracing, the channel, crashes |
| `RemoteNode` | the private half of `ghettoapi.go` | extends `Node` with requests and recovered panics |
| `Ledger` | abstract specification | one branch that is extended or cut at its end |
| `BtcParse` | `btc_parse_varint`, `btc_parse_block` | the byte-level parser against Bitcoin's serialization |
| `BlockStore` | `db.go` key by key, `api_lib_get_block_commits` | metadata and commit keys, fingerprints, the readers, `db_load` with its recovery, damaged keys |
| `BlockFile` | `btc_direct.go` | block files read record by record while Bitcoin appends |
| `Wallet` | `wallet.go`, the load/save/list calls of `control.go`, the status of `combcore.go` | concurrent RPC calls, wallet lines and JSON entries |
| `Contract` | the contract calls of `control.go` | deciders, trees, proofs, signatures over ideal cryptography |
| `Hex` | the hex half of `util.go`; the key bytes and scans of `db.go` | hex against its reference; the order of keys that `BlockStore` takes for granted |
| `NodeProofs` | | lemmas about `Node`'s operators that the next two share |
| `FullNodeProofs`, `RemoteNodeProofs`, `BlockStoreProofs`, `BlockFileProofs`, `WalletProofs`, `ContractProofs` | | theorems about the module each is named after, with proofs |
| `BytesProofs` | | theorems about `BtcParse` and `Hex`, with proofs |
| `MC...` | | small block trees, wallets, contracts and words for TLC |

### State and code

| Variable | Code |
|---|---|
| `disk`, `dbfile` | the LevelDB database; `dbfile` is `missing`, `created` (no version key yet), `unversioned` (its write failed) or `current` |
| `batch`, `cached` | `NeoInfo.Batch`, `NeoInfo.BatchCached` |
| `height`, `hash`, `chain` | `COMBInfo.Height`, `.Hash`, `.Chain` |
| `lib` | the blocks libcomb has loaded, oldest first |
| `main`, `pending` | where the main goroutine is; the blocks `db_load_blocks` has still to deliver |
| `pc`, `block`, `target`, `meta` | where the ingesting goroutine or handler is, and its locals |
| `top`, `mode`, `probe`, `feed` | Bitcoin's best block; REST or direct; the hash the trace has reached; blocks not sent yet |

A block is a model value; the constants `Prev` and `BtcHeight` are its header's
previous hash and its height. In `Node` one database entry per height stands for
the metadata key and the commit keys of that height, which are written and
deleted together; that a reader then finds exactly the block's commits is what
`BlockStore` shows. LevelDB writes are atomic and synced, so the pipeline is cut
at its database writes and at each turn of a loop:

| Action of `Node` | Code |
|---|---|
| `Detect` | the tests at the head of `neominer_process_block` |
| `FlushForReorg` | `neominer_write` and the lookup in `combcore_reorg` |
| `TraceBack`, `RemoveBlocks`, `UnloadBlocks` | the three phases of `combcore_reorg` |
| `Store`, `FlushFull` | the rest of `neominer_process_block` with `combcore_process_block`; the flush of a full batch |
| `Start`, `DbNew`, `DbVersion`, `LoadNext`, `LoadDone` | `db_open`, `db_new`, `db_start`, `db_load` |

A `log.Panic` is a value of `pc` or `main` named after its message. In `FullNode`
it ends the process (`Die`); in `RemoteNode` net/http recovers it (`Recover`) and
what was changed in memory stays. Definitions with a suffix (`Store_unbounded`,
`TraceStep_same_header`, ...) are fault variants: plausible bugs that the
properties have been seen to catch. No specification uses them.

Abstractions worth knowing:

- `Crash` covers kills, power loss, and the panics that are not about the chain:
  a failed database write in `neominer_write`, a body `btc_parse_block` cannot
  read. It may happen in every state.
- A failed header request, an unreadable block file, or a hash that is in no
  block file is `TraceFail`; a failed block download is `FeedFail`.
- A panic during the initial load is recovered with `corruption_height` 0, which
  panics again. The model goes straight to `"corruption height 0"`; that `main` is
  released in between is in `BlockStore`.
- `db_new` drops the error of `db_write`: `dbfile` becomes `current` or, if the write
  of the version key failed, `unversioned`. That `db_remove_blocks_after` drops its
  error too is in `BlockStore`.
- `uint64(delta)` is a remainder modulo `UintSize`, so its wrap-around is kept.
- The direct trace takes its target before it looks it up, the REST trace after;
  `Known` keeps the difference.
- `UnloadBlocks` is not enabled below the checkpoint, because what
  `libcomb.UnloadBlock` does there is not part of the repository.

`BlockStore` has the keys themselves: `<<h, 0>>` is the metadata key of height h
and `<<h, i>>` the key of its commit of order i - 1. `InOrder` is LevelDB's order:
the key at place n is the one with n - 1 keys before it. A fingerprint is the
sequence of commits it was computed from, and a damaged one has another tag. What
`db_load_blocks` has still to send is a set, of which the lowest goes first. The
readers (`db_load_blocks`, `db_get_block_by_hash`,
`db_get_full_block_by_height`, `db_find_commits`) are functions of any set of
keys, damaged ones included. `Start` to `LoadUnlock` are `db_load` with the
unbuffered channel: `main` sends, the goroutine receives (`loader`), a panic is
recovered, the rest is drained, `main` is released, and only then are the keys
listed (`RecoverList`) and deleted (`RecoverDelete`). The ingestion pipeline is
reduced to what it does to the keys. A rollback's target (`Target`) is any earlier
block of the branch or the checkpoint. For the public API's list of a block's commits
an entry of libcomb's map is the place its tag gives the commit; `raw_commits` keeps
one place of a commit that a block repeats, whichever libcomb does, and
`api_lib_get_block_commits` is the set of lists over every order Go may range in. `Damage` loses one key, or alters a commit or one
field of a block's metadata (hash, previous hash or fingerprint), while the
node is down, as the `db_debug_...` functions do. `damage` counts these, the removals
whose `db_write` fails, since that error is dropped, and the rollbacks to the
checkpoint, which leave the lowest block where it was (finding 2).

`BlockFile` has files of records, each begun, half written or whole; the reader
takes the files newest first, as `direct_load_trace` does, and the trace is tried
after each.

`Wallet` has one state machine per RPC goroutine. A construct is a record of
words; `Line` and `wallet_load_construct` are the wallet file's two directions,
`Entry` and `Parse` those of the JSON interface. A save or a listing is one libcomb
call per kind, so other calls come in between. The status line is a Go string,
two words that nothing writes together, tested against `StatusLock` first.

`Contract` keeps the answers users have had. `DecideMerkleSegment` takes any strings:
the model enumerates as links whatever can be hashed on from the
signatures there are (a decider's private keys stay with its owner), as branches any
sequences of addresses of the right lengths, and as the leaf any address, zero
included. A hash of a tree node is the sequence of leaves below it, a hash chain its
seed and how often it was hashed.

`Hex` has a text that a user types and a height that an operation of the database is
asked for. A key is its bytes (`Encoded`), `KeyBefore` is LevelDB's bytewise order, and
`OfHeight`, `FromHeight` and `InLoad` are the ranges the removal of a block, the seeks
and the load iterate over. That they cover exactly the keys of their heights is what
`BlockStore` and `Node` rely on.

## Runs

| Run | Expected | Shows |
|---|---|---|
| `fullnode_safety` | pass | the invariants, `RemovesOnlyAbandoned`, refinement of `Ledger`, and the inductive invariant `Inv` |
| `fullnode_live` | pass | a node that stays up keeps reaching Bitcoin's best block |
| `remotenode_safety` | pass | pushes (those without a hash or a previous hash too), repeats, rollbacks and recovered panics in any order leave database and libcomb in agreement, and every handler returns but for the stated exceptions |
| `blockstore_safety` | pass | the keys behave as the blocks of `Node` do; a damaged database is never loaded as something it is not |
| `btcparse` | pass | the parser finds exactly the commits, in order, and rejects truncated blocks |
| `blockfile` | pass | files that are still being written yield the whole chain or nothing |
| `wallet` | pass | saved and listed wallets restore; the status line survives concurrent loads |
| `contract` | pass | contracts are decided as they were signed, whatever they are decided with |
| `hex` | pass | hex is exact; database keys and scans are in block order past every carry |
| `fullnode_flipflop`, `fullnode_checkpoint`, `blockstore_recovery` | violation | the [findings](#findings) |

The properties of the passing runs:

- `DiskIsChain`: the database is a gapless branch from the checkpoint, each block
  at its Bitcoin height, in every state, so also after a crash in the middle of a
  reorg.
- `MinedIsLoaded`: outside a reorg and the initial load, database plus batch is
  exactly what libcomb has loaded, `COMBInfo.Height` and `.Hash` describe it, and
  between two syncs nothing is unwritten.
- `NoBrokenChain`: the panics that report a broken chain, a failed rollback or a
  corrupted load are unreachable.
- `BatchBounded`: `BatchCached` counts the blocks of the batch and does not exceed
  the capacity.
- `RemovesOnlyAbandoned` (action property): only blocks off the branch being
  adopted are deleted, and only when nothing is unwritten.
- `LedgerSpec` (refinement): the database implements `Ledger`.
- `RefusedIsEmpty`: a database that a start refuses for its missing version key
  holds no block, unless the key is missing because its write failed.
- `Converges` (liveness).
- `RemoteNode`: `DatabaseMirrorsLib`, between requests the database is libcomb block
  for block, and above it at most the last block pushed without a hash;
  `PanicsStoreNothing`; `StoredOnParent`, a block is stored above the one it names,
  unless it names the checkpoint or the zero hash;
  `RemovesOnlyAfterHeight`, a rollback to a height up to the tip deletes only what
  is above it; `FailsOnlyIfMisplaced`, a start panics only over a database in
  which a second block follows the checkpoint or a block names the zero hash as its
  previous one; `HandlersReturn` (liveness), every
  handler releases `gapi_db_mutex` except for a rollback that finds no block.
- `BlockStore`: `ReadersSeeWholeBlocks`, no reader finds a commit of a block that
  was replaced by a shorter one, at any moment; `StoreMirrorsLib`, a restart would
  load what libcomb has; `ListsAgree`, the API's list of a block's commits has those
  of the database, each once, in block order; `ImplementsLedger`, every step of the keys is a step of `Ledger`.
  These four are about a database of which no key was damaged, no removal failed and
  no rollback went to the checkpoint. For any database:
  `LoadsOnlyABranch`, what a load gives libcomb is a branch of Bitcoin's blocks
  with exactly their commits; `LoadEnds` (liveness), also when the receiver has
  panicked; `RecoveryCutsToLib`, if one damaged key is all that went wrong, a recovery
  that `main` has not overtaken leaves exactly what was loaded.
- `BtcParse`: `CommitsInOrder`, `WholeBlocksOnly`.
- `BlockFile`: `FeedsWholeChain`, what is fed is the chain from the node's block to
  the best block, every block whole; `TraceFinds`, it is found once its files are
  read, in whatever order the blocks lie.
- `Wallet`: `AnswersRestore`, an answer restores what was loaded when the call
  came and invents nothing; `StatusForgetsLoad` and `StatusUnlocked` (liveness);
  `LoggedIsLoaded`, the user hears of every line of the network that did not load.
- `Contract`: `DecidedAsSigned`, a decided segment is an undecided one and pays to a
  leaf its owner signed for, or that lies between two leaves the owner signed for
  (the links of two signatures can be hashed on to those of every destination between
  theirs), so an owner who signs once decides alone; `SignedCanBeDecided`, a signature
  and a proof for one destination decide the contract.
- `Hex`: `ParsesExactly`, `OddCharacterDropped`; `KeysInBlockOrder`, LevelDB iterates
  over the version, then block by block, each block's metadata before its commits, and
  a key reads back as its height; `ScansAreExact`, the removal of a block, a seek and a
  load cover exactly the keys of their heights, and never the version's.

### Bounds

- **Forked tree** (8 blocks): two branches of length 2 and 3 above a shared block
  on the checkpoint, and two blocks outside the checkpoint's tree. It has reorgs
  in both directions, to a longer and to a shorter branch, reorgs that cross a
  batch boundary (`BatchCapacity` 2 with ranges of up to 4 blocks), and tips that
  cannot be traced to the checkpoint.
- `MaxFaults` 2: a crash in the middle of a reorg and another failure during the
  recovery from it. `TipMayRegress` TRUE lets Bitcoin choose any tip at any
  moment.
- `DirectDelta` 1 and `UintSize` 16 stand for 10 and 2^64: small enough for both
  mining modes and the wrap-around to happen at these heights.
- **RemoteNode**: 6 pushed blocks, a fork one block above the checkpoint and two blocks on
  the zero hash, and three pushes without a hash (on a block, on the checkpoint, on the
  zero hash), in any order and repeated without bound; at most `MaxBlocks` 4 loaded at once; rollbacks to
  heights 0 to 5, below the checkpoint and above the tip included; 2
  crashes. With a capacity of 2 or more (10000 in the code) the flush of a full
  batch never happens in this mode, since every push writes the batch.
- **BlockStore**: two branches above a shared block, with 1, 3, 0 and 1, 3 commits,
  so that a shorter block replaces a longer one at the same height and the reverse;
  the last block has one commit twice;
  a second block follows the checkpoint;
  2 crashes and one damaged key, failed removal or rollback to the checkpoint, of any
  block and, for a key, at any time the node is down. One is enough for the recovery to
  race with `main` and for a second load to meet what it left. The safety properties
  and the refinement have also been checked with two (525,517 states), in a run that is
  not kept.
- **BlockFile**: a chain of three blocks and a fork, written in every order, two
  records to a file, two syncs.
- **Wallet**: one construct of each of the six kinds and one libcomb rejects; keys,
  signatures and branches of 2 words (21, 21 and 16 in the code), enough to tell
  their places apart. Two workloads: one caller loads constructs while the other
  saves and lists; two callers load wallet texts while `main` sets the status.
- **Contract**: two deciders, a full and a short tree of 4 leaves (65536 in the
  code) that share leaves, two of them equal, destinations -1, 0, 2 and 4, so in the
  tree and past both of its ends, and five answers kept in all (`MaxKept`): a
  contract, two signatures for it, a proof, and a decision made from them fit in.
- **Hex**: all texts of up to 5 characters out of the ends of the digit ranges and
  their neighbours, words of 2 bytes (32 in the code); heights of 2 bytes (8) on both
  sides of every carry and up to the highest, orders of 1 byte (4) up to the highest.
- **BtcParse**: blocks of one or two transactions, with and without witnesses,
  script and item sizes 252 and 253 on both sides of the one-byte varint limit,
  65535 and 65536 on both sides of the three-byte one, and truncations by 0, 1, 4, 5,
  38 and 60 bytes. Varints of 9 bytes are in the parser; no block of Bitcoin's has one.

The deciders of `contract` are interchangeable and declared as a symmetry set. No other
symmetry is declared: the blocks of a tree are not interchangeable.

### Fairness

`FairSpec` has weak fairness on `Running` (ingestion and loading), `Sync` (the
steps of `btc_sync`) and `Die`. `main` and the goroutine it feeds are always
runnable when such a step is enabled, `main` loops for ever, and the Go scheduler
runs every runnable goroutine. Nothing is assumed of Bitcoin, of the operator
(nothing in the repository restarts a node that is down, so `Start` has no
fairness), or of faults, which are bounded.

`Converges` is therefore about a node that stays up: a panic leads to `"down"`,
which satisfies it. Two exceptions are part of it: a best block that does not descend
from the checkpoint, and a REST trace that met such a block and repeats the genesis
block since. The liveness run restricts Bitcoin to moves to higher blocks
(`TipMayRegress` FALSE); without that restriction the property fails, for a reason
listed under [remarks](#remarks).

`RemoteNode` has weak fairness on the steps of a handler, which its goroutine
takes by itself, and none on requests. `BlockStore` has it on `db_load`, which
waits only for its own goroutine; `Wallet` on the steps of a call that has come,
which wait for no other call. Neither assumes that a user calls anything.

## Findings

Each is a run whose property states what a comment of the code says, and which
TLC refutes.

1. `fullnode_flipflop`: `COMBInfo.Chain` keeps orphans. When Bitcoin returns to an
   abandoned branch, the trace stops at an orphan, and `combcore_reorg` is called
   with a target that is not on the node's chain. It walks past the checkpoint and
   panics. A restart gets the node going again, since the reloaded map has no
   orphans.
2. `fullnode_checkpoint`: the checkpoint has no database entry, and
   `db_get_block_by_hash` answers a failed search with the lowest block. A reorg
   down to the checkpoint leaves that block in the database and in libcomb.
3. `blockstore_recovery`: `wait.Unlock()` lets `main` go on before the recovery
   deletes the corrupted heights. Blocks that `main` has stored there again by then
   are deleted under it, while libcomb and `COMBInfo` keep them. A
   reorg that follows does not find its target in the database and rolls libcomb
   back to another height.

### Remarks

Behaviour met while modelling that the passing properties state as exceptions:

- For a best block it knows as an orphan, the REST trace returns early and the node
  stays on the other branch until Bitcoin's next block (`Converges` assumes a tip
  that only moves upwards).
- `headers` is reused between answers; the genesis header has no
  `previousblockhash`, so against a Bitcoin node whose chain does not contain the
  checkpoint the REST trace repeats the genesis block for ever, also after Bitcoin has
  gone back to a chain that does (`Converges`).
- A node ahead of Bitcoin gets a negative `delta`, which wraps to a huge `uint64`
  and selects direct mining; it costs the reading of all block files and harms
  nothing (`MinedIsLoaded`).
- A crash between the creation of the database and the write of its version key
  makes every later start refuse it as a legacy one (`RefusedIsEmpty`: nothing is
  lost). `db_new` drops the error of that write: the node then mines into a database
  without a version key, and every later start refuses it with all its blocks
  (the exception in `RefusedIsEmpty`).
- A rollback to a height above the tip deletes every block but the lowest
  (`RemovesOnlyAfterHeight`), and leaves `COMBInfo.Hash` zero, so that a later
  push panics until a restart unless its previous hash is zero. A rollback of an empty
  node never returns (`HandlersReturn`).
- Pushing a block that follows the checkpoint to a node that has one passes the
  rollback check, which compares hashes only; the next start panics
  (`FailsOnlyIfMisplaced`).
- `api_db_push_block` looks at nothing of what it unmarshals. A push with a zero
  previous hash is stored above whatever is there when `COMBInfo.Hash` is zero, after
  a recovered "past checkpoint" panic or a rollback above the tip, and the next start
  panics (`StoredOnParent`, `FailsOnlyIfMisplaced`). A push with a zero hash is stored
  by `neominer_process_block` and discarded by `combcore_process_block`: the database
  has one block more than libcomb until the next push writes over it
  (`DatabaseMirrorsLib`), a start loads it as nothing, and a rollback to its height
  or above never returns (`HandlersReturn`).
- A height that is not stored is answered by `db_get_full_block_by_height` without
  hashes, but with the commits of the next block above it
  (`ReadersSeeWholeBlocks` states the hashes).
- `db_remove_blocks_after` drops the error of its write: a rollback goes on with
  the abandoned blocks still stored; a restart panics or loads a branch
  (`LoadsOnlyABranch`), never a mixture.
- A hash that is damaged in the middle of the chain, or a metadata key that is lost
  below others, leaves `corruption_height` 0: every start dies with "Corruption
  height 0!!!" and nothing repairs the database.
- A wallet line of the other network is neither loaded nor an error, and is logged
  as loaded (`LoggedIsLoaded`).
- `SignDecider` wraps a destination outside the tree to 16 bits and signs for that
  leaf; `ComputeProof` refuses the same destination (`DecidedAsSigned`).
- An owner who signs for two destinations has signed for every one between them: the
  links revealed can be hashed on (`DecidedAsSigned`).

## Proofs

Everything below is proved for every value of the constants that the modules'
assumptions allow: every block tree, batch capacity, sequence of commits, wallet
and tree depth, block contents, word size and integer width, any number of calls,
faults, crashes and damaged keys.

| Module | Theorem | Statement |
|---|---|---|
| `FullNodeProofs` | `Invariant` | `Spec => []Inv` |
| | `TypeCorrect`, `DiskAlwaysChain`, `ChainNeverBroken`, `MinedAlwaysLoaded`, `BatchAlwaysBounded`, `RefusedAlwaysEmpty` | the invariants of `fullnode_safety` |
| | `RemovesOnlyAbandonedBlocks` | the action property |
| | `ImplementsLedger` | the database implements `Ledger` |
| `RemoteNodeProofs` | `Invariance` | `Spec => []Inv` |
| | `TypeCorrect`, `MirrorsLib`, `PanicsAreEarly`, `StartsUnlessMisplaced` | `TypeOK`, `DatabaseMirrorsLib`, `PanicsStoreNothing`, `FailsOnlyIfMisplaced` |
| | `PushesOnParent`, `RollbackKeepsLower` | the action properties `StoredOnParent`, `RemovesOnlyAfterHeight` |
| `BlockStoreProofs` | `Invariance` | `Spec => []Inv` |
| | `TypeCorrect`, `OnlyABranchIsLoaded`, `BlocksAreRead`, `MirrorsLib` | `TypeOK`, `LoadsOnlyABranch`, `ReadersSeeWholeBlocks`, `StoreMirrorsLib` |
| | `ListsAreInOrder` | `ListsAgree` |
| | `RecoveryIsExact` | `RecoveryLeavesLib`: a recovery cuts where the load stopped, after any number of faults |
| | `LedgerIsImplemented` | the keys implement `Ledger` as long as none is damaged, no removal fails and no rollback goes to the checkpoint |
| `BlockFileProofs` | `Invariance`, `WholeChainIsFed`, `ChainIsFound` | `Inv`, `FeedsWholeChain`, `TraceFinds` |
| `WalletProofs` | `LineRestores`, `EntryRestores` | loading undoes saving and listing, for every construct |
| | `Invariance`, `TypeCorrect`, `LogTellsTheTruth`, `LoadLeavesNoStatus`, `AnswersAlwaysRestore` | `Inv`, `TypeOK`, `LoggedIsLoaded`, `StatusForgetsLoad`, `AnswersRestore` |
| `ContractProofs` | `Invariance`, `AlwaysAsSigned`, `AlwaysDecidable` | `Inv`, `DecidedAsSigned`, `SignedCanBeDecided` |
| `BytesProofs` | `ParsesAsLaidOut` | `Spec => []ParseInv`, the parser's loop invariants |
| | `BlocksAreParsed`, `OnlyWholeBlocksParse` | `CommitsInOrder`, `WholeBlocksOnly` |
| | `HexIsExact`, `LineEndIsDropped` | `ParsesExactly`, `OddCharacterDropped` |
| | `KeysAreInOrder`, `ScansCoverTheirKeys` | `KeysInBlockOrder`, `ScansAreExact`, for keys of any widths |

Each module has its inductive invariant `Inv` at its end, as a conjunction of named
parts, and its proof module one lemma per action; `BtcParse`'s is `ParseInv` in
`BytesProofs`, which needs the pieces of a serialization that only the proofs speak
of, and `Hex` needs no more than the type of its two variables. TLC has checked
every one of them on the instance of the module's run before it was proved: `FullNode`'s is a property
of `fullnode_safety`; the others were checked in separate runs that are not kept,
`BlockStore`'s with two damaged keys and two crashes.

### FullNode

`FullNodeProofs` has one hypothesis besides the assumptions on the constants,
`CheckpointSettled`: at most one block follows the checkpoint, and
Bitcoin's best block is above it. Finding 2 is why it is needed: without it the
invariants are false.

None of the invariants is inductive by itself: that a load
succeeds depends on what an earlier process left on disk, and that depends on
what the batch held at a reorg. `Inv` (in `FullNode`) joins them:

- `ChainInv`: `COMBInfo.Chain` is part of the block tree, closed under previous
  blocks. Orphans may be in it.
- `LibInv`: libcomb holds a branch of it, and `hash` is its last block except
  while a reorg walks back.
- `DiskInv`: the database is a gapless branch; a database whose version key has not
  been tried to be written yet is empty.
- `MirrorInv`: database and batch split libcomb's branch in two at
  `Len(lib) - cached`. This is the central part; the flush before a reorg moves
  the split to the end.
- `LoadInv`: during the load libcomb holds the lower part of the database.
- `ControlInv`: main and the pipeline are at compatible places; a batch that is
  not about to be flushed is not full.
- `BlockInv`: what the pipeline knows of its block at each place. During a reorg,
  if `target` is on libcomb's branch, `meta` is its height. If it is not, the
  walk never meets it, so nothing is deleted: that is why finding 1 costs a
  restart and not the database.
- `FeedInv`: the blocks still to be sent follow one another and the block being
  ingested.

The lemmas are about `Segment`, `Put`, `Write` and `db_get_block_by_hash`
(`NodeProofs`). The refinement and the action property follow
from `DiskStep`, which says what a step does to the database: nothing, a longer
branch, or its end cut off.

### RemoteNode

Nothing is assumed of the order of requests, and of what is pushed only what holds of
Bitcoin's headers: a non-zero hash has one previous hash in all pushes, previous hashes
lead round no cycle, and the checkpoint itself is not pushed. Zero hashes, zero previous
hashes, and previous hashes nobody has pushed are all covered. A remote node keeps database and libcomb in agreement even
when its chain is not one. A push onto the checkpoint restarts the chain above the
blocks there are, and one onto the zero hash puts a block above any other, so the
invariant cannot say that the database is a branch:
`LinkedOrRestarted` says that each block is above its parent, or follows the
checkpoint or nothing. `MirrorInv` then holds block for block between database, batch
and libcomb, with at most one block without a hash on top, `LoadInv` during a start, and `HandlerInv` says how far a handler has got,
a recovered panic included: it leaves `COMBInfo.Hash` where the walk had got to,
but only before anything was stored or removed. While a rollback walks back,
`UnloadBlocks` waits for a height libcomb is not at in two cases (an empty node, a last
block without a hash); these are the cases `HandlersReturn` excepts.

### BlockStore

The invariant has two halves. `DiskInv`, `ScanInv`, `ControlInv` and `LoadInv` hold
whatever keys are damaged: every key is one that a block of Bitcoin's has or a
damaged form of it, and libcomb has been given blocks that follow one another.
That is enough for `LoadsOnlyABranch`: a block whose fingerprint and hashes agree
has exactly its commits. libcomb may be one block ahead of `COMBInfo.Chain` there:
`combcore_process_block` compares the height of a block after libcomb has loaded it,
and after two faults a database can hold a block under a wrong height. `HealthInv` is about a database with `damage` 0: between writes
the keys are exactly those of a branch (`Holds`), which is the branch libcomb has
together with the batch (`RunInv`, `RestInv`, `LibInv`). That a shorter block may
replace a longer one rests on `db_remove_blocks_after` having removed the keys of
every height above.

The lemmas say what LevelDB's order is (`InOrder` lists every key once, ascending),
what each reader returns on the keys of a branch, and what `Write` and the removal
make of them. The assumptions used: no commit is the mark of a deleted key, the
checkpoint's hash is not what damage writes, an altered previous hash is no block's
(`AlteredAssumption`), and commits are finite sequences. A rollback to the checkpoint is
an action of the model like any other; that it is counted in `damage` is why
`MirrorsLib` and `LedgerIsImplemented`, which finding 2 refutes after one, hold for
every block tree.

`ListsAreInOrder` rests on `StoreMirrorsLib` and an argument about the operators:
the place `insert_at` finds keeps an increasing list increasing
(`InsertedInOrder`), so whatever the order of the entries the list is sorted and has
all of them (`ListedIsSorted`), and since a map has one place per commit, no commit is
listed twice.

`RecoveryIsExact` says where a recovery cuts, for any number of damaged keys: at the
moment `db_load` has `corruption_height`, the keys below that height are what libcomb
has, block by block as a reader gets them, and the others are what is to be removed.
It needs a second invariant, `LoadedInv`: of the blocks sent so far every one has
been accepted at its height, or its hash was zero, or it is the corrupted one, and
those still to come are higher than all of them. `CutReads` adds that removing the
keys of a height and above does not change what a reader gets of the block below:
its commits ended at that height before and end with the last key now. The hypothesis
`Garbage # Empty`, damage does not make a hash all zero, is needed:
`combcore_process_block` drops such a block without an error, the load goes on behind
it, and its keys are below the cut. TLC has checked `LoadedInv` and
`RecoveryLeavesLib` with up to three damaged keys.

### BlockFile

While files are read, Bitcoin connects more blocks, and some of them may have been
read when they were half written. `ReadInv` is therefore about the blocks that were
connected when the trace began: there is a set of them, closed under parents, that
were read whole or are whole in a file still ahead. `Grounded` gives it a rank
that falls from each block to its parent. With it `TraceLeadsUp` shows that the loop
of `direct_trace_chain` ends at a known block: a trace of as many blocks as there are
would otherwise need one place more (pigeonhole). That no block has two records
(`FilesInv`) makes a block that was seen at all a block that was seen whole.

### Wallet

`LineRestores` and `EntryRestores` are about the operators alone: cut a line or an
entry where `wallet_load_construct` and the `Load` calls cut it, and the parts that
`wallet_export` and `wallet_stringify` joined come out. `StatusInv` relates the two words of the
status line to the loads that run, for any number of them; `AnswerInv` relates what
a save or a listing has collected to what was loaded when it came.

### Contract

`RootHasLeaf` follows a leaf up: at height k it is at place n mod 2^k of a subtree
of 2^k leaves, whichever tree the branches are from. `ProofOpens` shows that the
subtrees of a proof, at every height, make up the tree. `SignatureDetermines` says
that tips and signature belong together for one destination only, and `LinksDetermine`
that links hashed on from two signatures belong to a destination between theirs, which
is all a user can make of them (`DecidesAsSigned`). The calls only
have to keep what their answers were made from (`Inv`).

### BtcParse and Hex

`ParseInv` says for every place of `btc_parse_block` what is still to be read: the
rest of the current input, output or witness list, of the transaction, and of the
block, in terms of the loop counters and of Bitcoin's serialization (`AtIn`,
`AtOut`, `AtItem`, ...), less the bytes missing from the end (`Reads`); and what has
been collected: the commits of what was read. A step reads one piece off the front
(`ReadSome`), or the missing bytes begin inside that piece, the slice runs past the
end and the parser panics. The proof needs what Bitcoin's rules say of a transaction,
in `BtcParseAssumption`: it has an input (the parser takes a zero input count for the
segwit marker), witnesses for all inputs or none, and no length above 4,000,000,
the limit on a block. So a block of any shape is parsed to exactly its commits, and
one that was cut anywhere never is.

For `Hex`, `HexOfBytes` puts the nibbles of two digits together and takes them apart
again. `ReadsBack` and `BytesInOrder` follow what is left of an integer as its bytes
are taken off (`IsRests`), whatever the width: the first different byte of two integers
is where these rests first differ. With the shape of a key (`EncodedShape`) and
`VersionIsFirst` they give the order of keys. For the scans, `PrefixEnds` finds the
last byte of a prefix that is not 255: raised by one, it begins the keys of the next
height, and if there is none the height is the highest there is (`PrefixCovers`).

**Induction.** The library's induction theorems cannot be used here. Where a proof
needs induction (a recursive function such as `Pow2`, `Listed`'s,
`FlattenSeq`'s and `direct_trace_chain`'s, the segments of a chain), it is over the set of numbers that
have the property, with `InductionOverSet`, and the existence of a
recursive function is a lemma of its own.

**Only model-checked.**

- The liveness properties (`Converges`, `HandlersReturn`, `LoadEnds`,
  `StatusUnlocked`): liveness under fairness is outside what the prover handles.
- `BlockStore`'s `RecoveryCutsToLib`, which is stated for one damaged key and no other
  fault. With a second it fails: a removal of a reorg that `main` begins before the
  recovery deletes may fail, and its abandoned keys stay among those of the new blocks.
  What holds for any number of faults, where the recovery cuts, is `RecoveryIsExact`.

Every other property of the passing runs is a theorem.

## What is left out

- **libcomb** is not in the repository. It is modelled as COMBCore uses it: the list
  of loaded blocks (`LoadBlock` adds one, `UnloadBlock` removes one), the set of
  loaded constructs, and ideal cryptography for contracts. Balances, coin histories
  beyond "a set of loaded constructs", tags and the active flag are its own.
- **goleveldb** is external: atomic synced writes, snapshots for iterators, keys in
  byte order. `db_get_full_block_by_height` reads an iterator's value once and
  relies on the buffer being reused; the model takes that as it is. Read errors,
  which no reader asks for, are not modelled (see the hazards).
- **A failed write in a remote node**: `RemoteNode` takes `db_write` to succeed, but for
  that of `db_new` (see the hazards).
- **Pushes that contradict each other**: one hash pushed with two previous hashes,
  previous hashes in a circle, or a push of the checkpoint's own hash.
- **Integer conversions of `util.go`** (`uint64_to_bytes` and its inverse): only the
  `db_debug_...` functions and `wallet_export_stack` use the one and nothing the other.
  The bytes of the sum in a wallet's stack line are a word of `Wallet`.
- **A wallet line with a second prefix**: `wallet_load_construct` is a chain of ifs, so
  what is left of a line may match a later prefix. `wallet_export` writes no such line;
  the model takes the first prefix that matches.
- **A short read of a block file**: `BlockFile` takes one `Read` to get the whole file
  (see the hazards).
- **Control interface**: calls that pass one value to libcomb and its answer back
  (`GetBalance`, `GenerateKey`, `ConstructTransaction`, tags and commits of
  addresses). **Public HTTP API**: handlers that print one libcomb answer; two are
  empty.
- **Configuration, inspection, printing**: `config.go` is constants;
  `db_inspect`, `neominer_inspect` and `db_compute_db_fingerprint` change nothing.
- **Calls before the database is open**: `rpc_start` comes before `db_open`, so that
  `GetBlockByHeight` can meet a nil database; net/http recovers that panic, and nothing
  has changed.
- The modes other than `FULL_NODE` and `MID_NODE_REMOTE` only sleep.

## Plan

1. *Done.* `Node`, `FullNode` and `Ledger` with safety, liveness and refinement;
   `RemoteNode` with the liveness of its handlers; `BtcParse`; `BlockStore`,
   `BlockFile`, `Wallet`, `Contract`, `Hex`.
2. *Done.* The proofs about all of them.
3. Open: the liveness properties, should the prover come to handle them.
