# Formal models of ceresmeta

TLA+ models of the metadata server's concurrent core:

- the process-wide entry lock of the procedure engine;
- the `Cluster` metadata cache with the KV storage behind it;
- the event dispatch client's connection pool;
- the heartbeat stream forwarder;
- the forwarding of requests to the leader;
- the storage enum conversions.

TLC checks the models on small instances. TLAPS proves, for every
instance:

- the entry lock's invariants;
- the dispatch client's two invariants: a call uses a connection to its own
  address, and no address is dialed more often than there are callers;
- that the cluster drives storage as the abstract metadata store
  `MetaStore` allows (a refinement);
- that stored IDs are unique, and that the cache never contradicts storage;
- that at most one outbound heartbeat stream is live;
- that the storage converters round-trip (an action property).

Every safety property of a passing run is proved. Only the liveness
properties are left to TLC.

## The system and its parts

| Part | Source | State | Concurrency |
|---|---|---|---|
| Entry lock | `src/unnamed/part_001` | set of held 64-bit entries behind a `sync.Mutex` | procedures lock the shards they touch before they start |
| Cluster cache | `src/unnamed/part_000` lines 31-485 | `schemasCache`, `shardsCache`, `nodesCache` behind a `sync.RWMutex`, KV storage, ID allocator | one goroutine per RPC; heartbeats call `RegisterNode`, clients call `CreateSchema`, `CreateTable`, `DropTable`, `GetTable` |
| Event dispatch | `src/unnamed/part_000` lines 486-680 | `sync.Map` of gRPC connections per address | procedure steps dispatch to data nodes |
| gRPC / HTTP service | `src/server/grpcservice/service.go` | heartbeat stream binders, forwarder to the leader | one goroutine per stream or request |
| Storage types | `src/server/storage/types.go` | none (conversions between enums and protobuf) | the leader and other writers share storage |
| Status | `src/server/status/status.go` | an atomic status word | the health route reads it; nothing under `src/` sets it |

How they interact: a heartbeat stream registers its node in the cluster
(`RegisterNode`). Clients create schemas and tables through the cluster, and
the cluster writes storage first and its cache second. Procedures take entry
locks on shards and dispatch events to the data nodes. After a crash, a new
leader builds the cluster cache from storage (`Load`).

## Modules

### EntryLock (`EntryLock.tla`, `MCEntryLock.tla`, `EntryLockProofs.tla`)

`entryLocks` is the map of the code. `TryLock(p, locks)` and `UnLock(p)` are
the two methods, one atomic step each, because each runs under the mutex.
The slice argument is a set, since both loops give the same result for a set
and for a slice with duplicates.

The callers are the procedures, which are not under `src/`. They are
modelled from spec section 4.7. `held[p]` and `running[p]` record what
procedure `p` locked and whether it has started. `panicked` records that
UnLock's integrity panic fired.

### Cluster (`Cluster.tla`, `MCCluster.tla`, `MetaStore.tla`, `ClusterProofs.tla`, `ClusterCacheProofs.tla`)

Each goroutine is a thread with a program counter `pc[t]` and its locals
`loc[t]`. A method is cut at every storage call and every lock
acquisition, and the code between two such points is one action:

- CreateSchema: `CreateSchemaCheck`, `CreateSchemaAlloc`, `CreateSchemaStore`,
  `CreateSchemaLock`, `CreateSchemaCache`.
- CreateTable: `CreateTableStart`, `CreateTableStore`. The write lock is held
  throughout.
- DropTable: `DropTableCheck`, `DropTablePanic`.
- GetTable: `GetTableLookup`, `GetTableStore`, `GetTableFill`.
- RegisterNode: `RegisterNodeStore`, `RegisterNodeCache`.

`wlock` is the holder of the write lock. A read-locked section is an action
guarded by `wlock = "none"`.

Storage and the ID allocator are not under `src/`. They are modelled from
spec 4.1 and 4.2:

- rows keyed by ID, as the storage layer keys them: a schema row is put at
  its fresh ID (`SchemaPut`) and a table row under its schema's ID, and
  neither looks at the rows of other IDs, so nothing in storage stops two
  schema rows of one name;
- `Unavailable` failures, including failures reported after a commit;
- one shared counter for all IDs.

`Restart` is a crash of the process (or a panic in a handler) followed by
`Load`. It drops every cache and every in-flight call, and rebuilds the
caches from storage exactly as `updateCacheLocked` does. That includes the
code's quirks: schemas without tables are skipped, and shard IDs are listed
twice on a node. `loadSchemaLocked` keys the listed rows by name, so of
the rows of one name the last listed is kept; the listing order is
storage's, so `Load` may keep any of them (`SchemaPicks`). An unlocked read of `schemasCache` concurrent with a write
may abort the Go runtime, which `UnlockedReadFatal` models as a `Restart`.

Data is abstracted: schema, table and node names are model values. A table
row is its ID and shard. A node row is its lease.

`MetaStore.tla` is the abstract specification of what storage promises
(spec 4.1 and 4.2). It has one atomic step per committed write:

- `Alloc` hands out the next ID;
- `CreateSchema(id, s)` puts a schema row at an allocated ID that no
  stored row has; it says nothing of names, because storage does not;
- `CreateTable(sid, tn, sh, id)` puts a table row, only under the ID of a
  stored schema, in a free slot, with an allocated ID no stored row has;
- `PutNode` overwrites a node's lease.

`Cluster` instantiates it as `Meta`, mapping `schemas`, `tables`, `nodes`
and `allocated` to `storeSchemas`, `storeTables`, `storeNodes` and
`nextID`. `MetaStoreSpec == Meta!MSpec` is checked as a `PROPERTY`.
Every Cluster step must therefore be a MetaStore step on storage, or
leave storage unchanged. This is what the racing creates must respect:

- CreateTable checks the schema in the cache, not in storage (line 301);
- CreateSchema allocates without the lock and CreateTable under it;
- a failure may be reported after the write committed;
- a restart may happen at any point.

### Heartbeat (`Heartbeat.tla`, `MCHeartbeat.tla`, `HeartbeatProofs.tla`)

This module models one `NodeHeartbeat` stream (`service.go` lines 51-157) and
its `forwarder` (lines 281-342). `hpc` is the handler goroutine's place in its
loop:

- `Recv` covers a frame, EOF or a transport error.
- `MaybeInitForwardedStream` is the leader query, the cancellation of the
  previous stream, and `reconnect` with its dial and open failures.
- After that come `Send`, then the non-blocking `Select` on `errCh`, or `Bind`
  and `Process`.
- `Unbind` is the deferred unbind.

The forwarder's own fields are `fStream`, `fCancel` and `fAddr`. `fAddr` is
never written, as in the code. `streams` lists every outbound stream ever
opened, and each has its own pump goroutine.

The following are modelled from spec 4.4 because their code is not under
`src/`:

- The pump (`forwardRegionHeartbeatRespToClient`). `PumpRecvFails` reports an
  ended stream on `errCh`, which has capacity 1 and blocks the pump while it
  is full. `PumpSendFails` relays an answer to a node stream that is already
  gone.
- Leadership (`LeaderChange`).
- A remote close (`PeerCloses`).

### Dispatch (`Dispatch.tla`, `MCDispatch.tla`, `DispatchProofs.tla`)

This module models the event dispatch client (`part_000` lines 515-642).
`conns` is the `sync.Map`, a function whose domain is the set of addresses it
holds. `getGrpcClient` is three steps of a caller, and another goroutine may
run between any two of them:

- `LoadConn`
- `Dial`
- `Store`

The six dispatch methods share one control flow, so one `Rpc` step, with a
transport error, a non-zero code or success, stands for all of them. The
procedures that call the client are not under `src/` and are modelled by
`Call`.

`dialed` is the history of dials, and a connection is its index in it. The
same Load, dial, Store code is used for the connections to the leader
(`service.go` 397-409).

### Forward (`Forward.tla`, `MCForward.tla`)

This module models requests on a group of coordinator instances. It covers:

- the unary gRPC handlers (`service.go` 465-581);
- the HTTP routes behind `wrap` (1375-1399).

`path[r]` is the chain of instances the request has passed, because a relayed
call is synchronous. Request `r` moves through these steps:

1. `Arrive` is the client sending it.
2. `Resolve` runs `getForwardedAddr` and `getForwardedMetaClient`. It ends in
   one of three ways:
   - an error answer;
   - a local run, when this instance holds the lease;
   - a relay to the lease holder, where the same step runs again.
3. `Execute` is the cluster manager call. Its answer may still be lost on the
   way back.

Two kinds of request have steps of their own:

- The `CreateTable`/`DropTable` stubs (`Stub`).
- Routes registered without forwarding (`RunLocally`).

The lease (`LeaseChange`) belongs to the member, which is not under `src/`.
It may move or lapse at any time.

### Codec (`Codec.tla`, `CodecProofs.tla`)

This module models the enum conversions of `src/server/storage/types.go`:

- the cluster state, topology type, shard role, shard status and node state;
- each way, one operator per Go function (`ClusterStateToPB` is
  `convertClusterStateToPB`, and so on);
- composed in `ToPB` and `FromPB` as the cluster view converters compose them.

A Go value holds the integers of the iota blocks, and a protobuf value holds
the enum names. The Go sets (`GoClusterStates` and the others) include each
type's zero value, the state of a struct field never set: cluster state 0,
topology type "" and shard role 0, which the converters send as Empty, static
and Follower. The fields the struct converters copy unchanged are left out.

The state machine has four actions:

- `Update` changes one field of the value in memory, to any value of its type.
- `Save` stores it through `ToPB`.
- `Load` reads storage back through `FromPB`.
- `OtherWriter` stores any protobuf value, as a data node or a newer version
  would.

Storage itself is modelled from the spec. The Go and protobuf domains are
small, so the run covers every value.

## Runs

| Run | Checks | Shows |
|---|---|---|
| `entrylock` (MCEntryLock.cfg) | MutualExclusion, NoUnlockPanic | 3 procedures, 3 entries, all subsets: all-or-nothing locking gives exclusion, and UnLock never panics |
| `cluster` (MCCluster.cfg) | CacheAgreesWithStore, UniqueIDs, CallsReturn, MetaStoreSpec | 2 goroutines, every mutator, storage failures, crashes: the cache never contradicts storage, IDs are unique, every call returns, and storage behaves as `MetaStore` |
| `cluster_unlocked_race` | NoUnlockedMapRace (violated) | CreateSchema reads `schemasCache` while another CreateSchema writes it |
| `cluster_droptable` | DropTableReturnsDropped (violated) | DropTable's inverted test returns ErrSchemaNotFound and drops nothing |
| `cluster_shard_tables` | CachedTablesOnTheirShard (violated) | the ShardView is never written, so after Load shards list no tables |
| `dispatch` (MCDispatch.cfg) | CallsUseTheirAddrsConn, DialsBoundedByCallers | two callers, two addresses, four calls: a call always uses a connection to its own address, and an address is dialed at most once per caller |
| `dispatch_leak` | NoLeakedConn (violated) | two callers miss on one address, and the second `Store` drops the first connection without closing it |
| `forward` (MCForward.cfg) | EveryRequestAnswered | two instances, a gRPC write, an HTTP write, a stub and a local route, two lease moves: every request is answered |
| `forward_single_writer` | SingleWriter (violated) | a write checked leadership, the lease moved, and the new leader runs a write at the same time |
| `heartbeat` (MCHeartbeat.cfg) | AtMostOneLiveStream | two remote instances, three frames, three streams, two leadership moves, dial and open failures, remote closes: at most one outbound stream is open |
| `heartbeat_self_cancel` | NoSelfInflictedExit (violated) | `f.addr` is never set, so each frame reconnects, and the cancelled stream's error ends the node's stream |
| `codec` (MCCodec.cfg) | ConvertersRoundTrip | every value the server can hold and every protobuf value storage can hold: the enum converters undo each other, except the two Unknown states and the states this version cannot hold |

Seven more properties are stated in the modules and found violated by TLC
with `Spec` as the specification, but they have no run of their own:

- `NodeCacheAgreesWhenIdle`: RegisterNode's two critical sections let the
  node cache go stale.
- `NoDuplicateShardIDs`: Load lists each shard of a node twice.
- `SchemaNamesUnique`: two CreateSchema calls for one name that both miss
  the cache both store a row, and so does every CreateSchema, after a
  restart, of a schema without tables, which Load does not cache. The spec
  says schema names are unique within a cluster.
- `GetTablesReportsOwnRole`: GetTables (`GetTablesRole`) finds the node's
  index in `shard.nodes`, which skips unregistered nodes, and reads the role
  at that index in `shard.meta`, which does not. With two nodes, where n2
  is not registered and its follower placement of sh1 comes first, n1 is
  told it is a follower of sh1 (MCCluster with a second node, 424 states).
- `ForwardsToLeader`, `NoLeakAfterExit` (Heartbeat) and `OkMeansExecuted`
  (Forward): a stale outbound stream after leadership returns, outbound
  streams that outlive the handler, and the stubs' empty success.

PROJECT.json records each of them as a hazard.

### Bounds

- Two goroutines are enough for the cluster model, because every race in the
  code is between two calls.
- One schema name is enough to make CreateSchema calls collide.
- One table name is enough for CreateTable, GetTable and the fill to meet
  on one row; two shards let tables be placed on different shards.
- Three IDs cover a schema and two tables, or a schema, a table and an ID
  wasted by a failed call.
- One node with two lease values is enough for RegisterNode's races, which
  are between calls for the same node.

- For the heartbeat model:
  - Three frames are enough to forward, reconnect and forward again.
  - Three streams allow one stream per frame, which the missing `f.addr`
    forces.
  - Two leadership moves reach remote, local, remote.
  - Two peers let the leader move from one remote instance to another.
  - The handler returns when the node's stream ends, so the heartbeat runs
    do not check deadlock. The final state is real.

The passing cluster run reaches 410,928 distinct states in one to two
minutes.

### Fairness

`FairSpec` assumes strong fairness of each goroutine's steps. Go's
`sync.Mutex` and `RWMutex` hand the lock to a writer that has waited long
enough (starvation mode), and the scheduler runs every runnable goroutine.
Nothing assumes that a client ever calls, or that a crash ever happens.

`Heartbeat` has no fairness and no liveness property. `Send`, `GetLeader`
and opening a stream are gRPC calls that may block; the model takes each as
one step that returns, so a liveness property of the handler would hold by
the model's shape and show nothing about the code.

`Forward`'s `FairSpec` assumes weak fairness of each request's goroutine.
It assumes nothing of clients or of the lease.

## Proofs (TLAPS)

`EntryLockProofs.tla` proves the following for every set of procedures and
entries:

- `TypeCorrect`: `Spec => []TypeOK`.
- `IInvInvariant`: `Spec => []IInv`.
- `MutualExclusionHolds`: `Spec => []MutualExclusion`.
- `NoUnlockPanicHolds`: `Spec => []NoUnlockPanic`.

`MutualExclusion` is not inductive by itself, because TryLock only inspects
the lock table. The inductive invariant `IInv` adds two facts:

- the table is exactly the union of the entries held by running procedures;
- an idle procedure holds nothing.

There is one lemma per action (`TryLockPreservesIInv`,
`UnLockPreservesIInv`).

`DispatchProofs.tla` proves, for every set of callers and addresses and
every bound on calls:

- `IInvInvariant`: `Spec => []IInv`.
- `CallsUseTheirAddrsConnHolds`: `Spec => []CallsUseTheirAddrsConn`.

`CallsUseTheirAddrsConn` is not inductive, because a caller that hits in
the map takes whatever the map holds. `IInv` adds two facts:

- `MapHoldsOwnAddr`: every connection in the map was dialed to its key.
- `HeldConnsOwnAddr`: a caller at its Store or its call holds a connection
  dialed to its own address.

It also states that `conns` is a function. There is one lemma per action.
The dial lemma splits into success and failure, and it uses the fact that
appending to the dial history keeps every earlier entry.

- `DialsBoundedByCallersHolds`: `Spec => []DialsBoundedByCallers`.

`DialsBoundedByCallers` is not inductive either: a dial adds one to its
address's count whatever the other callers are doing. `DialsAccounted`
charges every dial to a caller:

- while an address is not in the map, its dials are exactly the callers
  between their dial and their Store (`Waiting`);
- once it is, its dials plus the callers between their miss and their dial
  (`Dialing`) are at most the number of callers.

At the first Store of an address, its dials are the `Waiting` callers, and
`Waiting` and `Dialing` are disjoint sets of callers. After that, a caller
can only reach the dial through a miss, and there is none. `DialsAccounted`
is proved inductive together with `IInv`, with one lemma per action. The
lemmas about the model's operators are that a dial adds one to its own
address's count (`HitsAppend`) and that the counts are finite
(`HitsFinite`, `CountsNat`).

The proofs use `DispatchAssumption`: callers and addresses are non-empty,
there are finitely many callers (a program runs finitely many goroutines),
and the call bound is a natural number.

`ClusterProofs.tla` proves, for every set of goroutines, names, shards and
leases and every ID bound:

- `IInvInvariant`: `Spec => []IInv`.
- `ClusterImplementsMetaStore`: `Spec => MetaStoreSpec`, the refinement.
- `UniqueIDsHold`: `Spec => []UniqueIDs`.

One step of Cluster says too little to show that a write is a legal
MetaStore step. `IInv` records what makes it one:

- a cached schema ID is a stored row (`SchemaCached`);
- a goroutine that has written its schema row, or is creating a table under
  a schema ID, has that row stored; one about to allocate a table ID
  carries no ID yet (`Held`, `SchemaHeld`);
- every stored ID was allocated (`StoredIDsAllocated`);
- a goroutine about to write a row holds an allocated ID that no stored row
  has (`FreshIDs`);
- no other such goroutine holds the same ID (`DistinctIDs`);
- a registration carries a lease (`LeaseHeld`).

Only storage, the schema cache and the goroutines are typed. The table,
shard and node caches play no part in the proof.

Two actions allocate an ID, and the lemma `AllocStep` covers both: the new
ID lies above every allocated one. Two actions write a row, with the
lemmas `SchemaStoreStep` and `TableStoreStep`: the row's ID was free, and it
differs from every other in-flight ID, so those remain free. All other
actions change only their goroutine's locals, and the lemmas `QuietStep` and
`ReturnStep` cover them.

The refinement then maps each Cluster action to a MetaStore step:

- the allocations map to `Alloc`;
- the row writes map to `CreateSchema`, `CreateTable` and `PutNode`, with
  the guards supplied by `IInv`;
- everything else is a stutter.

`UniqueIDs` is inductive together with `IInv` (`UniqueIDsStep`): a new row
takes an ID no stored row has, and a schema row never takes a table's ID. The proofs use `ClusterAssumption`: the name sets are non-empty, and
`MaxID` is a natural number.

`ClusterCacheProofs.tla` proves `CacheAgreesWithStoreHolds`:
`Spec => []CacheAgreesWithStore`. The invariant is not inductive, because
two steps write the cache from a value read earlier:

- `CreateSchemaCache` caches the ID that the goroutine stored two steps
  before;
- `GetTableFill` caches a row that `GetTableStore` read without a lock.

`CInv` adds what those goroutines hold (`InFlight`), and who holds the
lock:

- a goroutine between its schema write and its cache write finds its row,
  of its name, still stored at its ID;
- a goroutine in CreateTable's store step holds the schema ID the cache
  still has for its schema;
- a goroutine about to fill the cache holds a row that storage still has;
- `LockHeld`: a goroutine in a write-locked section holds `wlock`, so no
  other goroutine's cache write runs in between.

The first and third hold because storage only creates rows and never changes or deletes
one. The action `StoreGrows` states this, and every step satisfies it.
`CInv` is inductive given `ClusterProofs`' `IInv`, which supplies the types
of storage and of the locals. A `Restart` rebuilds the caches from storage,
so they agree after it.

`HeartbeatProofs.tla` proves `HInvInvariant` and `AtMostOneLiveStreamHolds`:
`Spec => []AtMostOneLiveStream`. A count of live streams is not inductive.
The inductive invariant is `LiveIsCancellable`: every live stream is the
one `f.cancel` would cancel. `reconnect` cancels `f.cancel` before it opens
a stream, then points `f.cancel` at the new one. Every other step only ends
streams. So the live streams are a subset of `{fCancel}`.

`CodecProofs.tla` proves `ConvertersRoundTripHolds`:
`Spec => ConvertersRoundTrip`, the action property, for every value.

- Two lemmas compute the converters. `GoRoundTrip` says that
  `FromPB(ToPB(x)) = Expected(x)` for every value memory can hold.
  `PBRoundTrip` says that `ToPB(FromPB(p)) = p` for every storage value
  except the AWAITING states and the nil status.
- The invariant `SavedInKV` says that storage holds `ToPB(savedFrom)` while
  this server was the last writer.
- From the invariant and the two lemmas, every step is a `RoundTrip`.

Only model-checked:

- `Cluster`'s `CallsReturn` and `Forward`'s `EveryRequestAnswered`. These are liveness properties under
  fairness. The proof system reasons about them only through `ENABLED` and
  fairness, which it cannot handle here.
- `Forward`'s model as a whole. Its one passing property is liveness.
- The violated properties, which are counterexamples and are not proved.

## Not modelled (yet)

- What the cluster manager does inside each request (not under `src/`).
- The bodies of the HTTP handlers beyond success or error (parsing, logging, the cluster manager calls).
- The struct fields the storage converters copy unchanged, and `ConvertShardStatusToString` (log text).
- The body of `getShardTables`, whose request list starts with zero shard IDs (see the hazards).
- The read-only accessors `GetShardIDs` and `Name`. `GetTables` is modelled
  only for the role it reports (`GetTablesRole`).
- Test code (`part_002`, `create_drop_partition_table_test.go`).
- Error codes, which are declarations only.
- The server status (`status.go`). Only the `health` route reads it, and
  nothing under `src/` calls `Set`, so its lifecycle could only be modelled
  from outside the code. Composing a status per instance into `Forward`
  grows the forward run:
  - from 247,770 to 880,960 states (3 min 19 s), with Waiting and Running
    only;
  - to 2,064,750 states (8.5 min), with Terminated as well.

  `Forward` instead keeps the ok/err choice that `Execute` already makes
  for every operation.
