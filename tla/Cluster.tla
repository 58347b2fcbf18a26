------------------------------ MODULE Cluster ------------------------------
(***************************************************************************)
(* The Cluster object of package cluster (src/unnamed/part_000, lines     *)
(* 31-485): an in-memory cache of schemas, tables, shards and nodes kept  *)
(* in front of the KV storage, mutated by concurrent RPC goroutines.      *)
(*                                                                         *)
(* Each goroutine (a thread) runs one call at a time.  A call is split at *)
(* its suspension points: every storage call and every acquisition of    *)
(* the cluster RWMutex is a step of its own; code between two of them is  *)
(* one atomic step.  CreateSchema and DropTable read schemasCache without *)
(* taking the lock, as the code does (getSchemaLocked is called unlocked).*)
(*                                                                         *)
(* Storage (not under src/) is modelled from spec 4.1 and its test: a    *)
(* schema row is keyed by its ID (/schema/<id>) and CreateSchema puts it, *)
(* whatever name other rows have (TestSchemes stores ten schemas of one  *)
(* name); CreateTable is create-if-absent on /schema/<id>/table/<name>;   *)
(* CreateOrUpdateNode is a put; any call may fail as Unavailable.  The ID *)
(* allocator (spec 4.2) is one atomic counter shared by schemas, tables. *)
(*                                                                         *)
(* A process crash (or a panic in a handler) loses every cache and every *)
(* in-flight call; the restarted process runs Load, which rebuilds the   *)
(* caches from storage.                                                  *)
(***************************************************************************)
EXTENDS Naturals, Sequences, FiniteSets

CONSTANTS
    Threads,      \* concurrent RPC goroutines
    SchemaNames,
    TableNames,
    NodeNames,
    Shards,       \* shard IDs of the cluster topology
    Leases,       \* node lease values sent by heartbeats
    Topology,     \* ClusterTopology.ShardView: a sequence of shard placements
    MaxID,        \* bound on the IDs the allocator hands out
    NoSchema,     \* the absence of a schema row
    NoTable       \* the absence of a table row

Roles == {"leader", "follower"}
Placement == [shard : Shards, node : NodeNames, role : Roles]
TableRec == [id : 1..MaxID, shard : Shards]

ASSUME ClusterAssumption ==
    /\ Threads # {} /\ SchemaNames # {} /\ TableNames # {} /\ NodeNames # {}
    /\ "none" \notin Threads
    /\ Shards # {}
    /\ Leases \subseteq Nat \ {0}
    /\ Topology \in Seq(Placement)
    /\ \A sh \in Shards : \E i \in DOMAIN Topology : Topology[i].shard = sh
    /\ MaxID \in Nat
    /\ NoSchema \notin SchemaNames
    /\ NoTable \notin TableRec

VARIABLES
    storeSchemas,     \* KV: schema ID -> the name of its row (NoSchema: absent)
    storeTables,      \* KV: schema ID -> table name -> table row
    storeNodes,       \* KV: node name -> lease (0: absent)
    nextID,           \* the last ID handed out by the allocator
    cacheSchemas,     \* schemasCache: schema name -> ID of the cached Schema (0: absent)
    cacheTables,      \* schemasCache[s].tableMap
    cacheShardTables, \* shardsCache[sh].tables: the table IDs of each shard
    cacheShardNodes,  \* shardsCache[sh].nodes: names of its registered nodes, in order
    cacheNodes,       \* nodesCache: node name -> lease (0: absent)
    cacheNodeShards,  \* nodesCache[n].shardIDs, as a multiplicity per shard
    wlock,            \* the goroutine holding c.lock for writing, or "none"
    pc,               \* pc[t]: where goroutine t is in its call
    loc               \* loc[t]: the arguments and locals of t's call

store == <<storeSchemas, storeTables, storeNodes, nextID>>
cache == <<cacheSchemas, cacheTables, cacheShardTables, cacheShardNodes,
           cacheNodes, cacheNodeShards>>
vars == <<store, cache, wlock, pc, loc>>

Labels == {"idle", "cs_read", "cs_alloc", "cs_store", "cs_lock", "cs_cache",
           "ct_lock", "ct_store", "dt_read", "gt_read", "gt_store", "gt_cache",
           "rn_store", "rn_cache"}
Ops == {"none", "CreateSchema", "CreateTable", "DropTable", "GetTable", "RegisterNode"}
Results == {"none", "ok", "notFound", "errSchemaNotFound", "errAlloc",
            "errAlreadyExists", "errUnavailable"}
Locals == [op : Ops, schema : SchemaNames, table : TableNames, shard : Shards,
           node : NodeNames, lease : Leases \cup {0}, id : 0..MaxID,
           sid : 0..MaxID, rec : TableRec \cup {NoTable}]
NoLocals == [op |-> "none", schema |-> CHOOSE s \in SchemaNames : TRUE, table |-> CHOOSE tn \in TableNames : TRUE,
             shard |-> CHOOSE sh \in Shards : TRUE, node |-> CHOOSE n \in NodeNames : TRUE,
             lease |-> 0, id |-> 0, sid |-> 0, rec |-> NoTable]

-----------------------------------------------------------------------------
(***************************************************************************)
(* Load (lines 76-196): what the restarted process builds from storage.   *)
(***************************************************************************)
\* The placements of shard sh, in ClusterTopology order (shards[shardID]).
ShardMeta(sh) == SelectSeq(Topology, LAMBDA e : e.shard = sh)

\* The persisted ShardTopology.TableIds: cluster creation writes them empty
\* and no operation of Cluster writes them afterwards.
StoredShardTableIDs == [sh \in Shards |-> {}]

\* loadSchemaLocked (lines 361-371) keys the listed rows by name, so of the
\* rows of one name the one listed last is kept.  The listing order is
\* storage's, not under src/: any row of the name may be the one kept.
\* pick[s] is the ID of the row kept for name s, 0 when no row has it.
SchemaPicks ==
    {pick \in [SchemaNames -> 0..MaxID] :
        \A s \in SchemaNames :
            \/ pick[s] = 0 /\ \A id \in 1..MaxID : storeSchemas[id] # s
            \/ pick[s] # 0 /\ storeSchemas[pick[s]] = s}

\* loadTableLocked lists the tables of the kept rows (lines 385-401), and
\* only schemas that have a table are put in schemasCache (lines 121-139).
LoadedSchemas(pick) ==
    [s \in SchemaNames |->
        IF pick[s] # 0 /\ \E tn \in TableNames : storeTables[pick[s]][tn] # NoTable
        THEN pick[s] ELSE 0]

LoadedTables(pick) ==
    [s \in SchemaNames |->
        IF pick[s] = 0 THEN [tn \in TableNames |-> NoTable] ELSE storeTables[pick[s]]]

\* shardsCache[sh].tables: the listed IDs that name a loaded table (151-164).
LoadedShardTables(pick) ==
    [sh \in Shards |-> {id \in StoredShardTableIDs[sh] :
        \E s \in SchemaNames, tn \in TableNames :
            LoadedTables(pick)[s][tn] # NoTable /\ LoadedTables(pick)[s][tn].id = id}]

\* shard.nodes: the metas of the placements whose node is in nodesCache (167-173).
LoadedShardNodes(sn) ==
    [sh \in Shards |->
        LET kept == SelectSeq(ShardMeta(sh), LAMBDA e : sn[e.node] # 0)
        IN  [i \in 1..Len(kept) |-> kept[i].node]]

\* node.shardIDs: filled once from shardIDs (141-149) and appended to again
\* for every placement (182-193).
LoadedNodeShards(sn) ==
    [n \in NodeNames |-> [sh \in Shards |->
        IF sn[n] = 0 THEN 0
        ELSE 2 * Cardinality({i \in DOMAIN Topology :
                                Topology[i].shard = sh /\ Topology[i].node = n})]]

Load ==
    /\ \E pick \in SchemaPicks :
          /\ cacheSchemas' = LoadedSchemas(pick)
          /\ cacheTables' = LoadedTables(pick)
          /\ cacheShardTables' = LoadedShardTables(pick)
    /\ cacheShardNodes' = LoadedShardNodes(storeNodes)
    /\ cacheNodes' = storeNodes
    /\ cacheNodeShards' = LoadedNodeShards(storeNodes)

Init ==
    /\ storeSchemas = [id \in 1..MaxID |-> NoSchema]
    /\ storeTables = [id \in 1..MaxID |-> [tn \in TableNames |-> NoTable]]
    /\ storeNodes = [n \in NodeNames |-> 0]
    /\ nextID = 0
    /\ cacheSchemas = [s \in SchemaNames |-> 0]
    /\ cacheTables = [s \in SchemaNames |-> [tn \in TableNames |-> NoTable]]
    /\ cacheShardTables = [sh \in Shards |-> {}]
    /\ cacheShardNodes = [sh \in Shards |-> <<>>]
    /\ cacheNodes = storeNodes
    /\ cacheNodeShards = [n \in NodeNames |-> [sh \in Shards |-> 0]]
    /\ wlock = "none"
    /\ pc = [t \in Threads |-> "idle"]
    /\ loc = [t \in Threads |-> NoLocals]

\* The process dies (crash, lost leadership, or a panic in a handler) and the
\* restarted one runs Load: every cache and every in-flight call is lost.
Restart ==
    /\ Load
    /\ wlock' = "none"
    /\ pc' = [t \in Threads |-> "idle"]
    /\ loc' = [t \in Threads |-> NoLocals]
    /\ UNCHANGED store

\* Goroutine t returns res (and an ID) from its call to its RPC handler;
\* the caller only logs or relays it, so nothing of it is kept.
Return(t, res, id) ==
    /\ pc' = [pc EXCEPT ![t] = "idle"]
    /\ loc' = [loc EXCEPT ![t] = NoLocals]

Goto(t, l) == pc' = [pc EXCEPT ![t] = l]

-----------------------------------------------------------------------------
(***************************************************************************)
(* A goroutine enters a call with its arguments.  Only the arguments the  *)
(* call reads are chosen, the others keep their NoLocals value.           *)
(***************************************************************************)
Call(t) ==
    /\ pc[t] = "idle"
    /\ \/ \E s \in SchemaNames :
            /\ loc' = [loc EXCEPT ![t] = [NoLocals EXCEPT !.op = "CreateSchema", !.schema = s]]
            /\ Goto(t, "cs_read")
       \/ \E s \in SchemaNames, tn \in TableNames, sh \in Shards :
            /\ loc' = [loc EXCEPT ![t] = [NoLocals EXCEPT !.op = "CreateTable", !.schema = s,
                                                          !.table = tn, !.shard = sh]]
            /\ Goto(t, "ct_lock")
       \/ \E s \in SchemaNames, tn \in TableNames :
            /\ loc' = [loc EXCEPT ![t] = [NoLocals EXCEPT !.op = "DropTable", !.schema = s, !.table = tn]]
            /\ Goto(t, "dt_read")
       \/ \E s \in SchemaNames, tn \in TableNames :
            /\ loc' = [loc EXCEPT ![t] = [NoLocals EXCEPT !.op = "GetTable", !.schema = s, !.table = tn]]
            /\ Goto(t, "gt_read")
       \/ \E n \in NodeNames, l \in Leases :
            /\ loc' = [loc EXCEPT ![t] = [NoLocals EXCEPT !.op = "RegisterNode", !.node = n, !.lease = l]]
            /\ Goto(t, "rn_store")
    /\ UNCHANGED <<store, cache, wlock>>

(***************************************************************************)
(* CreateSchema (lines 267-293).                                           *)
(***************************************************************************)
\* getSchemaLocked without the lock: return the cached ID, or go on.
CreateSchemaCheck(t) ==
    LET s == loc[t].schema IN
    /\ pc[t] = "cs_read"
    /\ IF cacheSchemas[s] # 0
         THEN Return(t, "ok", cacheSchemas[s])
         ELSE Goto(t, "cs_alloc") /\ UNCHANGED loc
    /\ UNCHANGED <<store, cache, wlock>>

\* An unlocked read of schemasCache while another goroutine writes it: the
\* Go runtime may abort the process ("concurrent map read and map write").
UnlockedReadFatal(t) ==
    /\ pc[t] \in {"cs_read", "dt_read"}
    /\ \E u \in Threads : pc[u] = "cs_cache"
    /\ Restart

\* Mutant: the allocator hands out the next ID without recording that it
\* did, so the next call is handed the same one.
CreateSchemaAllocNotAdvancing(t) ==
    /\ pc[t] = "cs_alloc"
    /\ nextID < MaxID
    /\ loc' = [loc EXCEPT ![t].id = nextID + 1]
    /\ Goto(t, "cs_store")
    /\ UNCHANGED <<store, cache, wlock>>

\* allocSchemaID: the allocator extends its range by a KV CAS that may fail.
CreateSchemaAlloc(t) ==
    /\ pc[t] = "cs_alloc"
    /\ \/ /\ nextID < MaxID
          /\ nextID' = nextID + 1
          /\ loc' = [loc EXCEPT ![t].id = nextID + 1]
          /\ Goto(t, "cs_store")
       \/ /\ Return(t, "errAlloc", 0)
          /\ UNCHANGED nextID
    /\ UNCHANGED <<storeSchemas, storeTables, storeNodes, cache, wlock>>

\* The schema row the call writes: its fresh ID, keyed by the ID.
SchemaPut(t) == [storeSchemas EXCEPT ![loc[t].id] = loc[t].schema]

\* storage.CreateSchema: a put at the schema's ID; no row has that ID and
\* no other row's name is looked at.  Unavailable may be reported for a
\* transaction that did commit.
CreateSchemaStore(t) ==
    /\ pc[t] = "cs_store"
    /\ \/ /\ storeSchemas' = SchemaPut(t)
          /\ Goto(t, "cs_lock")
          /\ UNCHANGED loc
       \/ /\ storeSchemas' \in {storeSchemas, SchemaPut(t)}
          /\ Return(t, "errUnavailable", 0)
    /\ UNCHANGED <<storeTables, storeNodes, nextID, cache, wlock>>

CreateSchemaLock(t) ==
    /\ pc[t] = "cs_lock"
    /\ wlock = "none"
    /\ wlock' = t
    /\ Goto(t, "cs_cache")
    /\ UNCHANGED <<store, cache, loc>>

\* updateSchemaCacheLocked: a new Schema object with an empty tableMap.
CreateSchemaCache(t) ==
    LET s == loc[t].schema IN
    /\ pc[t] = "cs_cache"
    /\ cacheSchemas' = [cacheSchemas EXCEPT ![s] = loc[t].id]
    /\ cacheTables' = [cacheTables EXCEPT ![s] = [tn \in TableNames |-> NoTable]]
    /\ wlock' = "none"
    /\ Return(t, "ok", loc[t].id)
    /\ UNCHANGED <<store, cacheShardTables, cacheShardNodes, cacheNodes, cacheNodeShards>>

(***************************************************************************)
(* CreateTable (lines 295-323) holds the write lock for its whole body,   *)
(* storage call included.                                                  *)
(***************************************************************************)
\* Mutant: an off-by-one in the allocator hands out the value it held
\* before advancing, the ID it handed out last.
CreateTableStartHandingOutLast(t) ==
    LET s == loc[t].schema IN
    /\ pc[t] = "ct_lock"
    /\ wlock = "none"
    /\ \/ /\ cacheSchemas[s] = 0
          /\ Return(t, "errSchemaNotFound", 0)
          /\ UNCHANGED <<nextID, wlock>>
       \/ /\ cacheSchemas[s] # 0
          /\ nextID < MaxID
          /\ nextID' = nextID + 1
          /\ loc' = [loc EXCEPT ![t].id = nextID, ![t].sid = cacheSchemas[s]]
          /\ wlock' = t
          /\ Goto(t, "ct_store")
    /\ UNCHANGED <<storeSchemas, storeTables, storeNodes, cache>>

\* Lock, check the schema is cached (loc.sid: the ID of the Schema object
\* found), allocate the table ID.
CreateTableStart(t) ==
    LET s == loc[t].schema IN
    /\ pc[t] = "ct_lock"
    /\ wlock = "none"
    /\ \/ /\ cacheSchemas[s] = 0
          /\ Return(t, "errSchemaNotFound", 0)
          /\ UNCHANGED <<nextID, wlock>>
       \/ /\ cacheSchemas[s] # 0
          /\ nextID < MaxID
          /\ nextID' = nextID + 1
          /\ loc' = [loc EXCEPT ![t].id = nextID + 1, ![t].sid = cacheSchemas[s]]
          /\ wlock' = t
          /\ Goto(t, "ct_store")
       \/ /\ cacheSchemas[s] # 0
          /\ Return(t, "errAlloc", 0)
          /\ UNCHANGED <<nextID, wlock>>
    /\ UNCHANGED <<storeSchemas, storeTables, storeNodes, cache>>

\* Mutant: the AlreadyExists return leaves the write lock held (an Unlock
\* written by hand instead of deferred, and missed on that path).
CreateTableStoreKeepingLock(t) ==
    LET s == loc[t].schema
        sid == loc[t].sid
        tn == loc[t].table
        rec == [id |-> loc[t].id, shard |-> loc[t].shard]
    IN
    /\ pc[t] = "ct_store"
    /\ \/ /\ storeTables[sid][tn] # NoTable
          /\ Return(t, "errAlreadyExists", 0)
          /\ UNCHANGED <<storeTables, cacheTables, cacheShardTables, wlock>>
       \/ /\ storeTables[sid][tn] = NoTable
          /\ wlock' = "none"
          /\ storeTables' = [storeTables EXCEPT ![sid][tn] = rec]
          /\ cacheTables' = [cacheTables EXCEPT ![s][tn] = rec]
          /\ cacheShardTables' = [cacheShardTables EXCEPT ![rec.shard] = @ \cup {rec.id}]
          /\ Return(t, "ok", rec.id)
    /\ UNCHANGED <<storeSchemas, storeNodes, nextID, cacheSchemas, cacheShardNodes,
                   cacheNodes, cacheNodeShards>>

\* storage.CreateTable (create-if-absent), then updateTableCacheLocked on
\* success; the deferred Unlock runs on every return.
CreateTableStore(t) ==
    LET s == loc[t].schema
        sid == loc[t].sid
        tn == loc[t].table
        rec == [id |-> loc[t].id, shard |-> loc[t].shard]
    IN
    /\ pc[t] = "ct_store"
    /\ wlock' = "none"
    /\ \/ /\ storeTables[sid][tn] # NoTable
          /\ Return(t, "errAlreadyExists", 0)
          /\ UNCHANGED <<storeTables, cacheTables, cacheShardTables>>
       \/ /\ storeTables[sid][tn] = NoTable
          /\ storeTables' = [storeTables EXCEPT ![sid][tn] = rec]
          /\ cacheTables' = [cacheTables EXCEPT ![s][tn] = rec]
          /\ cacheShardTables' = [cacheShardTables EXCEPT ![rec.shard] = @ \cup {rec.id}]
          /\ Return(t, "ok", rec.id)
       \/ /\ storeTables[sid][tn] = NoTable
          /\ storeTables' \in {storeTables, [storeTables EXCEPT ![sid][tn] = rec]}
          /\ Return(t, "errUnavailable", 0)
          /\ UNCHANGED <<cacheTables, cacheShardTables>>
    /\ UNCHANGED <<storeSchemas, storeNodes, nextID, cacheSchemas, cacheShardNodes,
                   cacheNodes, cacheNodeShards>>

(***************************************************************************)
(* DropTable (lines 246-265).  The unlocked lookup's test is inverted: a  *)
(* cached schema returns ErrSchemaNotFound, and a missing one leaves      *)
(* `schema` nil, so schema.GetID() panics and takes the process down.     *)
(* The storage delete and the cache updates after it are never reached.   *)
(***************************************************************************)
DropTableCheck(t) ==
    /\ pc[t] = "dt_read"
    /\ cacheSchemas[loc[t].schema] # 0
    /\ Return(t, "errSchemaNotFound", 0)
    /\ UNCHANGED <<store, cache, wlock>>

DropTablePanic(t) ==
    /\ pc[t] = "dt_read"
    /\ cacheSchemas[loc[t].schema] = 0
    /\ Restart

(***************************************************************************)
(* GetTable (lines 408-436): a cache lookup under the read lock, then on a *)
(* miss a storage read without any lock, then a fill under the write lock.*)
(* loc[t].id remembers which Schema object the lookup found.              *)
(***************************************************************************)
GetTableLookup(t) ==
    LET s == loc[t].schema
        tn == loc[t].table
    IN
    /\ pc[t] = "gt_read"
    /\ wlock = "none"
    /\ \/ /\ cacheSchemas[s] = 0
          /\ Return(t, "errSchemaNotFound", 0)
       \/ /\ cacheSchemas[s] # 0
          /\ cacheTables[s][tn] # NoTable
          /\ Return(t, "ok", cacheTables[s][tn].id)
       \/ /\ cacheSchemas[s] # 0
          /\ cacheTables[s][tn] = NoTable
          /\ loc' = [loc EXCEPT ![t].id = cacheSchemas[s]]
          /\ Goto(t, "gt_store")
    /\ UNCHANGED <<store, cache, wlock>>

GetTableStore(t) ==
    LET row == storeTables[loc[t].id][loc[t].table] IN
    /\ pc[t] = "gt_store"
    /\ \/ Return(t, "errUnavailable", 0)
       \/ /\ row = NoTable
          /\ Return(t, "notFound", 0)
       \/ /\ row # NoTable
          /\ loc' = [loc EXCEPT ![t].rec = row]
          /\ Goto(t, "gt_cache")
    /\ UNCHANGED <<store, cache, wlock>>

\* Mutant: the fill looks the schema up again by name and inserts into
\* whatever Schema object schemasCache holds now.
GetTableFillIntoCurrent(t) ==
    LET s == loc[t].schema
        rec == loc[t].rec
    IN
    /\ pc[t] = "gt_cache"
    /\ wlock = "none"
    /\ cacheTables' = [cacheTables EXCEPT ![s][loc[t].table] = rec]
    /\ cacheShardTables' = [cacheShardTables EXCEPT ![rec.shard] = @ \cup {rec.id}]
    /\ Return(t, "ok", rec.id)
    /\ UNCHANGED <<store, cacheSchemas, cacheShardNodes, cacheNodes, cacheNodeShards, wlock>>

\* updateTableCacheLocked on the Schema object found by the lookup: if that
\* object has been replaced in schemasCache meanwhile, the insert into its
\* tableMap is lost, the one into shardsCache is not.
GetTableFill(t) ==
    LET s == loc[t].schema
        rec == loc[t].rec
    IN
    /\ pc[t] = "gt_cache"
    /\ wlock = "none"
    /\ cacheTables' = IF cacheSchemas[s] = loc[t].id
                        THEN [cacheTables EXCEPT ![s][loc[t].table] = rec]
                        ELSE cacheTables
    /\ cacheShardTables' = [cacheShardTables EXCEPT ![rec.shard] = @ \cup {rec.id}]
    /\ Return(t, "ok", rec.id)
    /\ UNCHANGED <<store, cacheSchemas, cacheShardNodes, cacheNodes, cacheNodeShards, wlock>>

(***************************************************************************)
(* RegisterNode (lines 449-464): storage put, then the cache under the    *)
(* write lock.  A new Node has no shard IDs; a known one keeps its own.   *)
(***************************************************************************)
RegisterNodeStore(t) ==
    LET n == loc[t].node IN
    /\ pc[t] = "rn_store"
    /\ \/ /\ storeNodes' = [storeNodes EXCEPT ![n] = loc[t].lease]
          /\ Goto(t, "rn_cache")
          /\ UNCHANGED loc
       \/ /\ storeNodes' \in {storeNodes, [storeNodes EXCEPT ![n] = loc[t].lease]}
          /\ Return(t, "errUnavailable", 0)
    /\ UNCHANGED <<storeSchemas, storeTables, nextID, cache, wlock>>

RegisterNodeCache(t) ==
    LET n == loc[t].node IN
    /\ pc[t] = "rn_cache"
    /\ wlock = "none"
    /\ cacheNodes' = [cacheNodes EXCEPT ![n] = loc[t].lease]
    /\ cacheNodeShards' = IF cacheNodes[n] = 0
                            THEN [cacheNodeShards EXCEPT ![n] = [sh \in Shards |-> 0]]
                            ELSE cacheNodeShards
    /\ Return(t, "ok", 0)
    /\ UNCHANGED <<store, cacheSchemas, cacheTables, cacheShardTables, cacheShardNodes, wlock>>

(***************************************************************************)
(* GetTables (lines 211-245) runs under the read lock and changes nothing;*)
(* for a shard and a node it reports the node's role: the index of the   *)
(* node's first entry in shard.nodes, read in shard.meta.  shard.nodes    *)
(* holds only the registered nodes of shard.meta (lines 167-176).         *)
(***************************************************************************)
GetTablesRole(sh, n) ==
    LET ns == cacheShardNodes[sh]
        idx == {i \in DOMAIN ns : ns[i] = n}
    IN  IF idx = {} THEN "errNodeNotFound"
        ELSE ShardMeta(sh)[CHOOSE i \in idx : \A j \in idx : i <= j].role

-----------------------------------------------------------------------------
\* Every step a goroutine takes inside a call.
Step(t) ==
    \/ CreateSchemaCheck(t) \/ UnlockedReadFatal(t) \/ CreateSchemaAlloc(t)
    \/ CreateSchemaStore(t) \/ CreateSchemaLock(t) \/ CreateSchemaCache(t)
    \/ CreateTableStart(t) \/ CreateTableStore(t)
    \/ DropTableCheck(t) \/ DropTablePanic(t)
    \/ GetTableLookup(t) \/ GetTableStore(t) \/ GetTableFill(t)
    \/ RegisterNodeStore(t) \/ RegisterNodeCache(t)

Next ==
    \/ \E t \in Threads : Call(t) \/ Step(t)
    \/ Restart

Spec == Init /\ [][Next]_vars

\* Go's sync.RWMutex hands the lock to a waiting writer and Mutex switches
\* to starvation mode, and the scheduler runs every runnable goroutine, so a
\* goroutine that is repeatedly able to step does step.
FairSpec == Spec /\ \A t \in Threads : SF_vars(Step(t))

-----------------------------------------------------------------------------
TypeOK ==
    /\ storeSchemas \in [1..MaxID -> SchemaNames \cup {NoSchema}]
    /\ storeTables \in [1..MaxID -> [TableNames -> TableRec \cup {NoTable}]]
    /\ storeNodes \in [NodeNames -> Leases \cup {0}]
    /\ nextID \in 0..MaxID
    /\ cacheSchemas \in [SchemaNames -> 0..MaxID]
    /\ cacheTables \in [SchemaNames -> [TableNames -> TableRec \cup {NoTable}]]
    /\ cacheShardTables \in [Shards -> SUBSET (1..MaxID)]
    /\ cacheShardNodes \in [Shards -> Seq(NodeNames)]
    /\ cacheNodes \in [NodeNames -> Leases \cup {0}]
    /\ cacheNodeShards \in [NodeNames -> [Shards -> Nat]]
    /\ wlock \in Threads \cup {"none"}
    /\ pc \in [Threads -> Labels]
    /\ loc \in [Threads -> Locals]

(***************************************************************************)
(* The cache never says more than storage (spec 4.3: write KV first, then *)
(* the cache): a cached schema is a stored row of its name, a cached     *)
(* table is the row stored under the cached schema's ID, and a table ID  *)
(* cached on a shard is the ID of a table stored on that shard.  Racing  *)
(* CreateSchema calls that both store and cache a row of one name, the  *)
(* GetTable fill into a Schema object replaced since its lookup, commits *)
(* reported as failures and restarts all meet here.                      *)
(***************************************************************************)
CacheAgreesWithStore ==
    /\ \A s \in SchemaNames : cacheSchemas[s] # 0 => storeSchemas[cacheSchemas[s]] = s
    /\ \A s \in SchemaNames, tn \in TableNames :
          cacheTables[s][tn] # NoTable =>
              /\ cacheSchemas[s] # 0
              /\ cacheTables[s][tn] = storeTables[cacheSchemas[s]][tn]
    /\ \A sh \in Shards : \A id \in cacheShardTables[sh] :
          \E sid \in 1..MaxID, tn \in TableNames :
              storeTables[sid][tn] = [id |-> id, shard |-> sh]

(***************************************************************************)
(* IDs are cluster-unique (spec 4.2): no two stored tables share an ID,   *)
(* and no table has the ID of a stored schema (schema rows are keyed by   *)
(* their ID), although concurrent calls allocate them from one allocator  *)
(* and failed calls waste some.                                           *)
(***************************************************************************)
UniqueIDs ==
    \A x, y \in 1..MaxID, a, b \in TableNames :
        storeTables[x][a] # NoTable =>
            /\ storeSchemas[storeTables[x][a].id] = NoSchema
            /\ storeTables[y][b] # NoTable /\ storeTables[y][b].id = storeTables[x][a].id
                   => x = y /\ a = b

(***************************************************************************)
(* Every call returns: no goroutine is left waiting for the cluster lock  *)
(* or stuck inside a call (the deferred Unlock runs on every path).       *)
(***************************************************************************)
CallsReturn == \A t \in Threads : pc[t] # "idle" ~> pc[t] = "idle"

(***************************************************************************)
(* Storage, as the cluster drives it, behaves as the metadata store of    *)
(* spec 4.1-4.2 promises (MetaStore): every committed write is a step of *)
(* that store.  A table is only written under a schema storage holds,    *)
(* though CreateTable checks the cache and not storage (line 301); every *)
(* stored ID was allocated and is held by no other row, though the two   *)
(* creates allocate without and with the lock; and rows are only ever    *)
(* created once, racing calls, failures reported after a commit and      *)
(* restarts included.                                                     *)
(***************************************************************************)
Meta == INSTANCE MetaStore WITH
            schemas <- storeSchemas, tables <- storeTables,
            nodes <- storeNodes, allocated <- nextID

MetaStoreSpec == Meta!MSpec

-----------------------------------------------------------------------------
(***************************************************************************)
(* Properties the spec states and the code does not keep; each is checked *)
(* by a run that expects TLC to find it violated.                          *)
(***************************************************************************)

(***************************************************************************)
(* The metadata cache is protected by a reader-writer lock (spec section  *)
(* "Scheduling model"): no goroutine reads schemasCache while another one *)
(* writes it.  CreateSchema and DropTable call getSchemaLocked without    *)
(* the lock (lines 247 and 269), racing with updateSchemaCacheLocked.     *)
(***************************************************************************)
NoUnlockedMapRace ==
    ~\E t, u \in Threads : pc[t] \in {"cs_read", "dt_read"} /\ pc[u] = "cs_cache"

(***************************************************************************)
(* A data node asking GetTablesOfShards for its shards learns its own role *)
(* on each of them, the role of its placement in the ClusterView (spec    *)
(* section 3).  GetTables finds the node's index in shard.nodes, which    *)
(* skips unregistered nodes, and reads the role at that index in          *)
(* shard.meta, which does not (line 228).                                  *)
(***************************************************************************)
GetTablesReportsOwnRole ==
    \A sh \in Shards, n \in NodeNames :
        GetTablesRole(sh, n) # "errNodeNotFound" =>
            \E i \in DOMAIN Topology :
                /\ Topology[i].shard = sh /\ Topology[i].node = n
                /\ Topology[i].role = GetTablesRole(sh, n)

(***************************************************************************)
(* A DropTable call that returns to its caller has dropped its table     *)
(* (spec scenario 3: DropTable returns Ok and GetTable then reports       *)
(* not-found): no step returns a DropTable of a stored table and leaves    *)
(* the table stored, crashes apart.  The inverted check at line 248       *)
(* returns ErrSchemaNotFound for every cached schema, and the nil schema  *)
(* of every other one panics at line 252.                                 *)
(***************************************************************************)
DropTableReturnsDropped ==
    [][\A t \in Threads :
          LET sid == cacheSchemas[loc[t].schema]
              tn == loc[t].table
          IN  (/\ pc[t] = "dt_read" /\ pc'[t] = "idle" /\ sid # 0
               /\ storeTables[sid][tn] # NoTable /\ ~Restart)
                  => storeTables'[sid][tn] = NoTable]_vars

(***************************************************************************)
(* Every cached table is listed in the cached table set of its shard      *)
(* (spec I1: every committed TableID is in a ShardView).  CreateTable and *)
(* the GetTable fill keep the two caches together, but CreateTable never  *)
(* writes the ShardView (lines 295-323), so the shard sets Load rebuilds  *)
(* from storage (lines 151-164) miss every table.                         *)
(***************************************************************************)
CachedTablesOnTheirShard ==
    \A s \in SchemaNames, tn \in TableNames :
        cacheTables[s][tn] # NoTable =>
            cacheTables[s][tn].id \in cacheShardTables[cacheTables[s][tn].shard]

(***************************************************************************)
(* When no RegisterNode is in flight the node cache agrees with storage   *)
(* (spec: write KV, then update the cache).  RegisterNode writes storage  *)
(* and the cache in two critical sections (lines 449-464), so two calls   *)
(* for one node can apply them in opposite orders, and an Unavailable     *)
(* that did commit leaves the cache behind.                               *)
(***************************************************************************)
NodeCacheAgreesWhenIdle ==
    (\A t \in Threads : pc[t] \notin {"rn_store", "rn_cache"})
        => \A n \in NodeNames : cacheNodes[n] = storeNodes[n]

(***************************************************************************)
(* A node lists each shard it hosts as often as the topology places it    *)
(* there.  Load fills node.shardIDs from the topology (lines 141-149) and *)
(* appends every placement again (lines 182-193).                         *)
(***************************************************************************)
NoDuplicateShardIDs ==
    \A n \in NodeNames, sh \in Shards :
        cacheNodeShards[n][sh] <=
            Cardinality({i \in DOMAIN Topology : Topology[i].shard = sh /\ Topology[i].node = n})

(***************************************************************************)
(* Schema names are unique within the cluster (spec section 3, "Name     *)
(* unique within cluster", and invariant (e)): no two stored schema rows *)
(* have one name.  CreateSchema checks the cache without the lock and     *)
(* storage puts the row at its fresh ID (lines 269-283), so two calls     *)
(* that both miss both store a row; and Load caches only schemas that     *)
(* have a table (lines 121-139), so after a restart every CreateSchema of *)
(* an empty schema's name stores another one.                            *)
(***************************************************************************)
SchemaNamesUnique ==
    \A x, y \in 1..MaxID :
        storeSchemas[x] # NoSchema /\ storeSchemas[x] = storeSchemas[y] => x = y
=============================================================================
