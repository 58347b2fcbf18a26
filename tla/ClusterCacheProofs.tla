------------------------- MODULE ClusterCacheProofs -------------------------
(***************************************************************************)
(* Proof that the metadata cache never says more than storage             *)
(* (CacheAgreesWithStore) for every instance.  The invariant is not       *)
(* inductive by itself, for three reasons, which CInv records:            *)
(*   - CreateSchemaCache caches the ID the goroutine stored two steps    *)
(*     before, and GetTableFill the row it read without any lock: both   *)
(*     are still what storage holds, because storage only creates rows   *)
(*     and never changes or deletes one (InFlight);                      *)
(*   - CreateTable caches its row under the schema ID it read from the   *)
(*     cache at its start, and that is still the cached ID when it       *)
(*     caches, because it holds the write lock from start to end and     *)
(*     CreateSchemaCache, the only writer of schemasCache, needs it too  *)
(*     (LockHeld, InFlight);                                              *)
(*   - a Load picks, for each name, one stored row of that name.         *)
(* CInv rests on ClusterProofs' IInv for the types of storage and of the *)
(* goroutines' locals, and for the free IDs a store writes at.            *)
(***************************************************************************)
EXTENDS ClusterProofs

CacheTypeOK ==
    /\ cacheTables \in [SchemaNames -> [TableNames -> TableRec \cup {NoTable}]]
    /\ cacheShardTables \in [Shards -> SUBSET (1..MaxID)]
    /\ wlock \in Threads \cup {"none"}

\* The labels between taking the write lock and releasing it.
Locked == {"cs_cache", "ct_store"}

\* A goroutine inside the write lock holds it.
LockHeld == \A t \in Threads : pc[t] \in Locked => wlock = t

\* What goroutine t holds of storage and of the cache: past its schema
\* store, its row; in CreateTable's body, the schema ID cached now; before
\* the GetTable fill, the row storage holds under the ID it looked up.
InFlightAt(t) ==
    /\ pc[t] \in {"cs_lock", "cs_cache"} => storeSchemas[loc[t].id] = loc[t].schema
    /\ pc[t] = "ct_store" => loc[t].sid = cacheSchemas[loc[t].schema]
    /\ pc[t] = "gt_cache" =>
          /\ loc[t].id \in 1..MaxID /\ loc[t].rec # NoTable
          /\ loc[t].rec = storeTables[loc[t].id][loc[t].table]

InFlight == \A t \in Threads : InFlightAt(t)

CInv == CacheTypeOK /\ CacheAgreesWithStore /\ LockHeld /\ InFlight

\* Storage only creates: a stored schema or table row keeps its value.
StoreGrows ==
    /\ \A id \in 1..MaxID : storeSchemas[id] # NoSchema => storeSchemas'[id] = storeSchemas[id]
    /\ \A id \in 1..MaxID, tn \in TableNames :
          storeTables[id][tn] # NoTable => storeTables'[id][tn] = storeTables[id][tn]
-----------------------------------------------------------------------------
(***************************************************************************)
(* A step that grows storage and leaves the three caches alone keeps the *)
(* cache in agreement: what the cache says storage held, and still holds. *)
(***************************************************************************)
LEMMA CacheFrame ==
  ASSUME StoreTypeOK, CacheTypeOK, CacheAgreesWithStore, StoreGrows,
         UNCHANGED <<cacheSchemas, cacheTables, cacheShardTables>>
  PROVE  CacheAgreesWithStore'
<1>1. ASSUME NEW s \in SchemaNames, cacheSchemas'[s] # 0
      PROVE  storeSchemas'[cacheSchemas'[s]] = s
  <2>1. cacheSchemas[s] \in 1..MaxID /\ storeSchemas[cacheSchemas[s]] = s
    BY <1>1 DEF StoreTypeOK, CacheAgreesWithStore
  <2>2. QED
    BY <2>1, ClusterAssumption DEF StoreGrows
<1>2. ASSUME NEW s \in SchemaNames, NEW tn \in TableNames, cacheTables'[s][tn] # NoTable
      PROVE  cacheSchemas'[s] # 0 /\ cacheTables'[s][tn] = storeTables'[cacheSchemas'[s]][tn]
  <2>1. cacheSchemas[s] \in 1..MaxID /\ cacheTables[s][tn] = storeTables[cacheSchemas[s]][tn]
    BY <1>2 DEF StoreTypeOK, CacheAgreesWithStore
  <2>2. QED
    BY <1>2, <2>1 DEF StoreGrows
<1>3. ASSUME NEW sh \in Shards, NEW id \in cacheShardTables'[sh]
      PROVE  \E sid \in 1..MaxID, tn \in TableNames :
                 storeTables'[sid][tn] = [id |-> id, shard |-> sh]
  <2>1. PICK sid \in 1..MaxID, tn \in TableNames :
                 storeTables[sid][tn] = [id |-> id, shard |-> sh]
    BY <1>3 DEF CacheAgreesWithStore
  <2>2. storeTables[sid][tn] # NoTable
    <3>1. [id |-> id, shard |-> sh] \in TableRec
      BY <1>3 DEF CacheTypeOK, TableRec
    <3>2. QED
      BY <2>1, <3>1, ClusterAssumption
  <2>3. QED
    BY <2>1, <2>2 DEF StoreGrows
<1>4. QED
  BY <1>1, <1>2, <1>3 DEF CacheAgreesWithStore

(***************************************************************************)
(* A step of goroutine t that grows storage and leaves schemasCache      *)
(* alone keeps what the other goroutines hold true; what t holds after   *)
(* it is true by hypothesis.                                              *)
(***************************************************************************)
LEMMA InFlightFrame ==
  ASSUME StoreTypeOK, SchemaHeld, InFlight, StoreGrows, UNCHANGED cacheSchemas,
         NEW t \in Threads, NEW l, NEW lt,
         pc' = [pc EXCEPT ![t] = l],
         loc' = [loc EXCEPT ![t] = lt],
         InFlightAt(t)'
  PROVE  InFlight'
<1> SUFFICES ASSUME NEW u \in Threads \ {t} PROVE InFlightAt(u)'
  BY DEF InFlight
<1>1. pc'[u] = pc[u] /\ loc'[u] = loc[u] /\ loc[u] \in Locals
  BY DEF StoreTypeOK
<1>2. pc[u] \in {"cs_lock", "cs_cache"} => loc[u].id \in 1..MaxID
  BY <1>1 DEF SchemaHeld, Held, Stored, Locals
<1>3. QED
  BY <1>1, <1>2, ClusterAssumption DEF InFlight, InFlightAt, StoreGrows, Locals

(***************************************************************************)
(* The write lock: a step keeps it, takes it while it is free, or lets it *)
(* go from t; t holds it when it enters the locked labels.               *)
(***************************************************************************)
LEMMA LockFrame ==
  ASSUME StoreTypeOK, CacheTypeOK, LockHeld,
         NEW t \in Threads, NEW l,
         pc' = [pc EXCEPT ![t] = l],
         \/ wlock' = wlock
         \/ wlock = "none" /\ wlock' = t
         \/ wlock = t /\ wlock' = "none" /\ l \notin Locked,
         l \in Locked => wlock' = t
  PROVE  LockHeld' /\ (wlock \in Threads \cup {"none"})'
<1>1. ASSUME NEW u \in Threads \ {t}, pc'[u] \in Locked PROVE wlock' = u
  <2>1. pc[u] \in Locked /\ wlock = u
    BY <1>1 DEF StoreTypeOK, LockHeld
  <2>2. QED
    BY <2>1, ClusterAssumption
<1>2. pc'[t] \in Locked => wlock' = t
  BY DEF StoreTypeOK
<1>3. QED
  BY <1>1, <1>2 DEF LockHeld, CacheTypeOK

(***************************************************************************)
(* The three frames together: a step of one goroutine that grows storage, *)
(* writes none of the three caches and moves the lock as above.          *)
(***************************************************************************)
LEMMA CQuietStep ==
  ASSUME IInv, CInv, StoreGrows,
         UNCHANGED <<cacheSchemas, cacheTables, cacheShardTables>>,
         NEW t \in Threads, NEW l, NEW lt,
         pc' = [pc EXCEPT ![t] = l],
         loc' = [loc EXCEPT ![t] = lt],
         \/ wlock' = wlock
         \/ wlock = "none" /\ wlock' = t
         \/ wlock = t /\ wlock' = "none" /\ l \notin Locked,
         l \in Locked => wlock' = t,
         InFlightAt(t)'
  PROVE  CInv'
<1>1. CacheAgreesWithStore'
  BY CacheFrame DEF IInv, CInv
<1>2. InFlight'
  BY InFlightFrame DEF IInv, CInv
<1>3. LockHeld' /\ (wlock \in Threads \cup {"none"})'
  BY LockFrame DEF IInv, CInv
<1>4. CacheTypeOK'
  BY <1>3 DEF CInv, CacheTypeOK
<1>5. QED
  BY <1>1, <1>2, <1>3, <1>4 DEF CInv

\* A step that leaves storage alone grows it.
LEMMA StillGrows ==
  ASSUME UNCHANGED <<storeSchemas, storeTables>>
  PROVE  StoreGrows
BY DEF StoreGrows

\* A goroutine returning from a call without touching storage, the caches
\* or the lock.
LEMMA CReturnStep ==
  ASSUME IInv, CInv, NEW t \in Threads, NEW res, NEW id, Return(t, res, id),
         UNCHANGED <<storeSchemas, storeTables, cacheSchemas, cacheTables, cacheShardTables, wlock>>
  PROVE  CInv'
<1>1. pc'[t] = "idle"
  BY DEF Return, IInv, StoreTypeOK
<1>2. InFlightAt(t)'
  BY <1>1 DEF InFlightAt
<1>3. QED
  BY <1>2, StillGrows, CQuietStep DEF Return, Locked

(***************************************************************************)
(* The initial state: all caches empty, no goroutine in a call.          *)
(***************************************************************************)
LEMMA InitCInv == Init => CInv
BY DEF Init, CInv, CacheTypeOK, CacheAgreesWithStore, LockHeld, InFlight, InFlightAt, Locked

(***************************************************************************)
(* A restart rebuilds the caches from storage and ends every call: Load  *)
(* caches, for each name, the ID of a stored row of that name and that   *)
(* row's tables, and no table ID on any shard, since the persisted shard *)
(* table lists are empty.                                                 *)
(***************************************************************************)
LEMMA RestartPreservesCInv ==
  ASSUME IInv, CInv, Restart
  PROVE  CInv'
<1>1. PICK pick \in SchemaPicks :
          /\ cacheSchemas' = LoadedSchemas(pick)
          /\ cacheTables' = LoadedTables(pick)
          /\ cacheShardTables' = LoadedShardTables(pick)
  BY DEF Restart, Load
<1>2. /\ UNCHANGED <<storeSchemas, storeTables>>
      /\ wlock' = "none"
      /\ pc' = [u \in Threads |-> "idle"]
  BY DEF Restart, store
<1>3. pick \in [SchemaNames -> 0..MaxID]
      /\ \A s \in SchemaNames : pick[s] # 0 => storeSchemas[pick[s]] = s
  BY DEF SchemaPicks
<1>4. cacheShardTables' = [sh \in Shards |-> {}]
  BY <1>1 DEF LoadedShardTables, StoredShardTableIDs
<1>5. CacheTypeOK'
  <2>1. \A s \in SchemaNames : LoadedTables(pick)[s] \in [TableNames -> TableRec \cup {NoTable}]
    BY <1>3, ClusterAssumption DEF LoadedTables, IInv, StoreTypeOK
  <2>2. LoadedTables(pick) \in [SchemaNames -> [TableNames -> TableRec \cup {NoTable}]]
    BY <2>1 DEF LoadedTables
  <2>3. QED
    BY <1>1, <1>2, <1>4, <2>2 DEF CacheTypeOK
<1>6. CacheAgreesWithStore'
  <2>1. ASSUME NEW s \in SchemaNames, cacheSchemas'[s] # 0
        PROVE  storeSchemas'[cacheSchemas'[s]] = s
    BY <1>1, <1>2, <1>3, <2>1 DEF LoadedSchemas
  <2>2. ASSUME NEW s \in SchemaNames, NEW tn \in TableNames, cacheTables'[s][tn] # NoTable
        PROVE  cacheSchemas'[s] # 0 /\ cacheTables'[s][tn] = storeTables'[cacheSchemas'[s]][tn]
    <3>1. pick[s] # 0 /\ cacheTables'[s][tn] = storeTables[pick[s]][tn]
      BY <1>1, <2>2 DEF LoadedTables
    <3>2. cacheSchemas'[s] = pick[s]
      BY <1>1, <2>2, <3>1 DEF LoadedSchemas
    <3>3. QED
      BY <1>2, <3>1, <3>2
  <2>3. QED
    BY <1>4, <2>1, <2>2 DEF CacheAgreesWithStore
<1>7. LockHeld' /\ InFlight'
  BY <1>2 DEF LockHeld, InFlight, InFlightAt, Locked
<1>8. QED
  BY <1>5, <1>6, <1>7 DEF CInv

(***************************************************************************)
(* A goroutine that stores at its allocated ID grows storage: the ID is   *)
(* free, so the put overwrites no row.                                    *)
(***************************************************************************)
LEMMA SchemaPutGrows ==
  ASSUME IInv, NEW t \in Threads, pc[t] = "cs_store",
         storeSchemas' \in {storeSchemas, SchemaPut(t)}, UNCHANGED storeTables
  PROVE  StoreGrows
<1>1. loc[t].id \in 1..MaxID /\ loc[t].id \notin Meta!UsedIDs
  BY ClusterAssumption DEF IInv, StoreTypeOK, Locals, FreshIDs, Storing, Meta!FreeIDs
<1>2. storeSchemas[loc[t].id] = NoSchema
  BY <1>1 DEF Meta!UsedIDs
<1>3. QED
  BY <1>2 DEF StoreGrows, SchemaPut, IInv, StoreTypeOK

LEMMA TablePutGrows ==
  ASSUME IInv, NEW sid \in 1..MaxID, NEW tn \in TableNames, NEW rec,
         storeTables[sid][tn] = NoTable,
         storeTables' \in {storeTables, [storeTables EXCEPT ![sid][tn] = rec]},
         UNCHANGED storeSchemas
  PROVE  StoreGrows
<1>1. CASE storeTables' = storeTables
  BY <1>1 DEF StoreGrows
<1>2. CASE storeTables' = [storeTables EXCEPT ![sid][tn] = rec]
  BY <1>2 DEF StoreGrows, IInv, StoreTypeOK
<1>3. QED
  BY <1>1, <1>2

(***************************************************************************)
(* updateSchemaCacheLocked, under the write lock, caches the ID of the    *)
(* row the goroutine stored, with an empty table map.  No CreateTable is *)
(* between its start and its end, since it would hold the lock.          *)
(***************************************************************************)
LEMMA CreateSchemaCachePreservesCInv ==
  ASSUME IInv, CInv, NEW t \in Threads, CreateSchemaCache(t)
  PROVE  CInv'
<1> DEFINE s == loc[t].schema  id == loc[t].id
<1>1. pc[t] = "cs_cache" /\ s \in SchemaNames /\ storeSchemas[id] = s /\ wlock = t
  BY DEF CreateSchemaCache, IInv, StoreTypeOK, Locals, CInv, InFlight, InFlightAt,
         LockHeld, Locked
<1>2. /\ cacheSchemas' = [cacheSchemas EXCEPT ![s] = id]
      /\ cacheTables' = [cacheTables EXCEPT ![s] = [tn \in TableNames |-> NoTable]]
      /\ wlock' = "none"
      /\ UNCHANGED <<storeSchemas, storeTables, cacheShardTables>>
      /\ pc' = [pc EXCEPT ![t] = "idle"] /\ loc' = [loc EXCEPT ![t] = NoLocals]
  BY DEF CreateSchemaCache, Return, store
<1>3. \A u \in Threads \ {t} : pc'[u] = pc[u] /\ loc'[u] = loc[u] /\ pc[u] \notin Locked
  BY <1>1, <1>2, ClusterAssumption DEF IInv, StoreTypeOK, CInv, LockHeld
<1>4. CacheTypeOK'
  BY <1>1, <1>2 DEF CInv, CacheTypeOK
<1>5. CacheAgreesWithStore'
  BY <1>1, <1>2 DEF CInv, CacheTypeOK, CacheAgreesWithStore, IInv, StoreTypeOK
<1>6. LockHeld'
  BY <1>2, <1>3 DEF LockHeld, IInv, StoreTypeOK, Locked
<1>7. InFlight'
  BY <1>2, <1>3 DEF InFlight, InFlightAt, CInv, IInv, StoreTypeOK, Locked
<1>8. QED
  BY <1>4, <1>5, <1>6, <1>7 DEF CInv

(***************************************************************************)
(* CreateTable, still under the lock it took at its start, caches the row *)
(* it stored under the schema ID it read then, which is still the cached *)
(* one, and lists its ID on its shard.                                    *)
(***************************************************************************)
LEMMA CreateTableCachePreservesCInv ==
  ASSUME IInv, CInv, NEW t \in Threads, pc[t] = "ct_store",
         storeTables[loc[t].sid][loc[t].table] = NoTable,
         storeTables' = [storeTables EXCEPT ![loc[t].sid][loc[t].table] =
                                              [id |-> loc[t].id, shard |-> loc[t].shard]],
         cacheTables' = [cacheTables EXCEPT ![loc[t].schema][loc[t].table] =
                                              [id |-> loc[t].id, shard |-> loc[t].shard]],
         cacheShardTables' = [cacheShardTables EXCEPT ![loc[t].shard] = @ \cup {loc[t].id}],
         wlock' = "none",
         pc' = [pc EXCEPT ![t] = "idle"], loc' = [loc EXCEPT ![t] = NoLocals],
         UNCHANGED <<storeSchemas, cacheSchemas>>
  PROVE  CInv'
<1> DEFINE s == loc[t].schema  sid == loc[t].sid  tn == loc[t].table
           rec == [id |-> loc[t].id, shard |-> loc[t].shard]
<1>1. /\ s \in SchemaNames /\ tn \in TableNames /\ loc[t].shard \in Shards
      /\ sid \in 1..MaxID /\ sid = cacheSchemas[s] /\ wlock = t
  <2>1. Stored(sid) /\ sid \in 0..MaxID
    BY DEF IInv, SchemaHeld, Held, StoreTypeOK, Locals
  <2>2. QED
    BY <2>1 DEF IInv, StoreTypeOK, Locals, Stored, CInv, InFlight, InFlightAt, LockHeld, Locked
<1>2. loc[t].id \in 1..MaxID
  <2>1. loc[t].id \in Meta!FreeIDs
    BY DEF IInv, FreshIDs, Storing
  <2>2. QED
    BY <2>1, ClusterAssumption DEF Meta!FreeIDs, IInv, StoreTypeOK
<1>3. rec \in TableRec
  BY <1>1, <1>2 DEF TableRec
<1>4. StoreGrows
  BY <1>1, TablePutGrows
<1>5. storeTables'[sid][tn] = rec
  BY <1>1 DEF IInv, StoreTypeOK
<1>6. ASSUME NEW x \in SchemaNames, NEW y \in TableNames, cacheTables'[x][y] # NoTable
      PROVE  cacheSchemas'[x] # 0 /\ cacheTables'[x][y] = storeTables'[cacheSchemas'[x]][y]
  <2>1. CASE x = s /\ y = tn
    BY <1>1, <1>5, <2>1 DEF CInv, CacheTypeOK
  <2>2. CASE ~(x = s /\ y = tn)
    <3>1. cacheTables'[x][y] = cacheTables[x][y]
      BY <2>2 DEF CInv, CacheTypeOK
    <3>2. cacheSchemas[x] \in 1..MaxID /\ cacheTables[x][y] = storeTables[cacheSchemas[x]][y]
      BY <1>6, <3>1 DEF CInv, CacheAgreesWithStore, IInv, StoreTypeOK
    <3>3. QED
      BY <1>4, <1>6, <3>1, <3>2 DEF StoreGrows
  <2>3. QED
    BY <2>1, <2>2
<1>7. ASSUME NEW sh \in Shards, NEW id \in cacheShardTables'[sh]
      PROVE  \E x \in 1..MaxID, y \in TableNames :
                 storeTables'[x][y] = [id |-> id, shard |-> sh]
  <2>1. CASE sh = loc[t].shard /\ id = loc[t].id
    BY <1>1, <1>5, <2>1
  <2>2. CASE ~(sh = loc[t].shard /\ id = loc[t].id)
    <3>1. id \in cacheShardTables[sh]
      BY <1>1, <2>2 DEF CInv, CacheTypeOK
    <3>2. PICK x \in 1..MaxID, y \in TableNames :
               storeTables[x][y] = [id |-> id, shard |-> sh]
      BY <3>1 DEF CInv, CacheAgreesWithStore
    <3>3. [id |-> id, shard |-> sh] \in TableRec
      BY <3>1 DEF CInv, CacheTypeOK, TableRec
    <3>4. QED
      BY <1>4, <3>2, <3>3, ClusterAssumption DEF StoreGrows
  <2>3. QED
    BY <2>1, <2>2
<1>8. CacheAgreesWithStore'
  <2>1. ASSUME NEW x \in SchemaNames, cacheSchemas'[x] # 0
        PROVE  storeSchemas'[cacheSchemas'[x]] = x
    BY <2>1 DEF CInv, CacheAgreesWithStore
  <2>2. QED
    BY <1>6, <1>7, <2>1 DEF CacheAgreesWithStore
<1>9. LockHeld' /\ (wlock \in Threads \cup {"none"})'
  BY <1>1, LockFrame DEF IInv, CInv, Locked
<1>10. CacheTypeOK'
  BY <1>1, <1>2, <1>3, <1>9 DEF CInv, CacheTypeOK
<1>11. InFlight'
  <2>1. InFlightAt(t)'
    BY DEF InFlightAt, IInv, StoreTypeOK
  <2>2. QED
    BY <1>4, <2>1, InFlightFrame DEF IInv, CInv
<1>12. QED
  BY <1>8, <1>9, <1>10, <1>11 DEF CInv

(***************************************************************************)
(* The GetTable fill caches the row the goroutine read, which storage    *)
(* still holds under the ID it looked up, and only when that ID is still *)
(* the cached one; it lists the row's ID on its shard in any case.       *)
(***************************************************************************)
LEMMA GetTableFillPreservesCInv ==
  ASSUME IInv, CInv, NEW t \in Threads, GetTableFill(t)
  PROVE  CInv'
<1> DEFINE s == loc[t].schema  tn == loc[t].table  rec == loc[t].rec  id == loc[t].id
<1>1. /\ s \in SchemaNames /\ tn \in TableNames /\ rec \in TableRec
      /\ id \in 1..MaxID /\ rec = storeTables[id][tn]
  <2>1. pc[t] = "gt_cache"
    BY DEF GetTableFill
  <2>2. id \in 1..MaxID /\ rec # NoTable /\ rec = storeTables[id][tn]
    BY <2>1 DEF CInv, InFlight, InFlightAt
  <2>3. QED
    BY <2>2 DEF IInv, StoreTypeOK, Locals
<1>2. /\ cacheTables' = IF cacheSchemas[s] = id THEN [cacheTables EXCEPT ![s][tn] = rec]
                                               ELSE cacheTables
      /\ cacheShardTables' = [cacheShardTables EXCEPT ![rec.shard] = @ \cup {rec.id}]
      /\ UNCHANGED <<storeSchemas, storeTables, cacheSchemas, wlock>>
      /\ pc' = [pc EXCEPT ![t] = "idle"] /\ loc' = [loc EXCEPT ![t] = NoLocals]
  BY DEF GetTableFill, Return, store
<1>3. rec = [id |-> rec.id, shard |-> rec.shard] /\ rec.id \in 1..MaxID /\ rec.shard \in Shards
  BY <1>1 DEF TableRec
<1>4. CacheTypeOK'
  BY <1>1, <1>2, <1>3 DEF CInv, CacheTypeOK
<1>5. ASSUME NEW x \in SchemaNames, NEW y \in TableNames, cacheTables'[x][y] # NoTable
      PROVE  cacheSchemas'[x] # 0 /\ cacheTables'[x][y] = storeTables'[cacheSchemas'[x]][y]
  <2>1. CASE cacheSchemas[s] = id /\ x = s /\ y = tn
    <3>1. cacheTables'[x][y] = rec
      BY <1>1, <1>2, <2>1 DEF CInv, CacheTypeOK
    <3>2. cacheSchemas'[x] = id /\ id # 0
      BY <1>1, <1>2, <2>1
    <3>3. QED
      BY <1>1, <1>2, <2>1, <3>1, <3>2
  <2>2. CASE ~(cacheSchemas[s] = id /\ x = s /\ y = tn)
    <3>1. cacheTables'[x][y] = cacheTables[x][y]
      BY <1>2, <2>2 DEF CInv, CacheTypeOK
    <3>2. QED
      BY <1>2, <1>5, <3>1 DEF CInv, CacheAgreesWithStore
  <2>3. QED
    BY <2>1, <2>2
<1>6. ASSUME NEW sh \in Shards, NEW x \in cacheShardTables'[sh]
      PROVE  \E sid \in 1..MaxID, y \in TableNames :
                 storeTables'[sid][y] = [id |-> x, shard |-> sh]
  <2>1. CASE sh = rec.shard /\ x = rec.id
    BY <1>1, <1>2, <1>3, <2>1
  <2>2. CASE ~(sh = rec.shard /\ x = rec.id)
    <3>1. x \in cacheShardTables[sh]
      BY <1>2, <1>3, <2>2 DEF CInv, CacheTypeOK
    <3>2. QED
      BY <1>2, <3>1 DEF CInv, CacheAgreesWithStore
  <2>3. QED
    BY <2>1, <2>2
<1>7. CacheAgreesWithStore'
  BY <1>2, <1>5, <1>6 DEF CInv, CacheAgreesWithStore
<1>8. LockHeld'
  BY <1>2, LockFrame DEF IInv, CInv, Locked
<1>9. InFlight'
  <2>1. InFlightAt(t)'
    BY <1>2 DEF InFlightAt, IInv, StoreTypeOK
  <2>2. QED
    BY <1>2, <2>1, StillGrows, InFlightFrame DEF IInv, CInv
<1>10. QED
  BY <1>4, <1>7, <1>8, <1>9 DEF CInv

(***************************************************************************)
(* The steps that write none of the three caches.                         *)
(***************************************************************************)
LEMMA CallPreservesCInv ==
  ASSUME IInv, CInv, NEW t \in Threads, Call(t)
  PROVE  CInv'
<1>1. PICK l \in {"cs_read", "ct_lock", "dt_read", "gt_read", "rn_store"} :
          \E lt : pc' = [pc EXCEPT ![t] = l] /\ loc' = [loc EXCEPT ![t] = lt]
  BY DEF Call, Goto
<1>2. UNCHANGED <<storeSchemas, storeTables, cacheSchemas, cacheTables, cacheShardTables, wlock>>
  BY DEF Call, store, cache
<1>3. pc'[t] = l
  BY <1>1 DEF IInv, StoreTypeOK
<1>4. InFlightAt(t)'
  BY <1>1, <1>3 DEF InFlightAt
<1>5. QED
  BY <1>1, <1>2, <1>4, StillGrows, CQuietStep DEF Locked

LEMMA CreateSchemaCheckPreservesCInv ==
  ASSUME IInv, CInv, NEW t \in Threads, CreateSchemaCheck(t)
  PROVE  CInv'
<1>1. UNCHANGED <<storeSchemas, storeTables, cacheSchemas, cacheTables, cacheShardTables, wlock>>
  BY DEF CreateSchemaCheck, store, cache
<1>2. CASE Return(t, "ok", cacheSchemas[loc[t].schema])
  BY <1>1, <1>2, CReturnStep
<1>3. CASE Goto(t, "cs_alloc") /\ UNCHANGED loc
  <2>1. loc' = [loc EXCEPT ![t] = loc[t]] /\ pc'[t] = "cs_alloc"
    BY <1>3 DEF IInv, StoreTypeOK, Goto
  <2>2. InFlightAt(t)'
    BY <2>1 DEF InFlightAt
  <2>3. QED
    BY <1>1, <1>3, <2>1, <2>2, StillGrows, CQuietStep DEF Goto, Locked
<1>4. QED
  BY <1>2, <1>3 DEF CreateSchemaCheck

LEMMA CreateSchemaAllocPreservesCInv ==
  ASSUME IInv, CInv, NEW t \in Threads, CreateSchemaAlloc(t)
  PROVE  CInv'
<1>1. UNCHANGED <<storeSchemas, storeTables, cacheSchemas, cacheTables, cacheShardTables, wlock>>
  BY DEF CreateSchemaAlloc, cache
<1>2. CASE loc' = [loc EXCEPT ![t].id = nextID + 1] /\ Goto(t, "cs_store")
  <2>1. pc'[t] = "cs_store"
    BY <1>2 DEF IInv, StoreTypeOK, Goto
  <2>2. InFlightAt(t)'
    BY <2>1 DEF InFlightAt
  <2>3. QED
    BY <1>1, <1>2, <2>2, StillGrows, CQuietStep DEF Goto, Locked
<1>3. CASE Return(t, "errAlloc", 0)
  BY <1>1, <1>3, CReturnStep
<1>4. QED
  BY <1>2, <1>3 DEF CreateSchemaAlloc

\* The goroutine that stored its row holds it.
LEMMA CreateSchemaStorePreservesCInv ==
  ASSUME IInv, CInv, NEW t \in Threads, CreateSchemaStore(t)
  PROVE  CInv'
<1>1. /\ pc[t] = "cs_store"
      /\ UNCHANGED <<storeTables, cacheSchemas, cacheTables, cacheShardTables, wlock>>
      /\ storeSchemas' \in {storeSchemas, SchemaPut(t)}
  BY DEF CreateSchemaStore, cache
<1>2. StoreGrows
  BY <1>1, SchemaPutGrows
<1>3. CASE storeSchemas' = SchemaPut(t) /\ Goto(t, "cs_lock") /\ UNCHANGED loc
  <2>1. loc' = [loc EXCEPT ![t] = loc[t]] /\ pc'[t] = "cs_lock"
    BY <1>3 DEF IInv, StoreTypeOK, Goto
  <2>2. loc[t].id \in 1..MaxID /\ loc[t].schema \in SchemaNames
    BY <1>1, ClusterAssumption DEF IInv, StoreTypeOK, Locals, FreshIDs, Storing, Meta!FreeIDs
  <2>3. InFlightAt(t)'
    BY <1>3, <2>1, <2>2 DEF InFlightAt, SchemaPut, IInv, StoreTypeOK
  <2>4. QED
    BY <1>1, <1>2, <1>3, <2>1, <2>3, CQuietStep DEF Goto, Locked
<1>4. CASE Return(t, "errUnavailable", 0)
  <2>1. pc'[t] = "idle"
    BY <1>4 DEF IInv, StoreTypeOK, Return
  <2>2. InFlightAt(t)'
    BY <2>1 DEF InFlightAt
  <2>3. QED
    BY <1>1, <1>2, <1>4, <2>2, CQuietStep DEF Return, Locked
<1>5. QED
  BY <1>3, <1>4 DEF CreateSchemaStore

\* Taking the write lock to cache the stored row.
LEMMA CreateSchemaLockPreservesCInv ==
  ASSUME IInv, CInv, NEW t \in Threads, CreateSchemaLock(t)
  PROVE  CInv'
<1>1. UNCHANGED <<storeSchemas, storeTables, cacheSchemas, cacheTables, cacheShardTables>>
  BY DEF CreateSchemaLock, store, cache
<1>2. /\ loc' = [loc EXCEPT ![t] = loc[t]] /\ pc' = [pc EXCEPT ![t] = "cs_cache"]
      /\ wlock = "none" /\ wlock' = t
      /\ storeSchemas[loc[t].id] = loc[t].schema
  BY DEF CreateSchemaLock, Goto, IInv, StoreTypeOK, CInv, InFlight, InFlightAt
<1>3. InFlightAt(t)'
  BY <1>1, <1>2 DEF InFlightAt, IInv, StoreTypeOK
<1>4. QED
  BY <1>1, <1>2, <1>3, StillGrows, CQuietStep

\* CreateTable takes the write lock and reads the cached schema ID under it.
LEMMA CreateTableStartPreservesCInv ==
  ASSUME IInv, CInv, NEW t \in Threads, CreateTableStart(t)
  PROVE  CInv'
<1> DEFINE s == loc[t].schema
<1>1. UNCHANGED <<storeSchemas, storeTables, cacheSchemas, cacheTables, cacheShardTables>>
  BY DEF CreateTableStart, cache
<1>2. CASE /\ loc' = [loc EXCEPT ![t].id = nextID + 1, ![t].sid = cacheSchemas[s]]
           /\ wlock = "none" /\ wlock' = t
           /\ Goto(t, "ct_store")
  <2>1. pc'[t] = "ct_store" /\ loc'[t].sid = cacheSchemas[s] /\ loc'[t].schema = s
    BY <1>2 DEF IInv, StoreTypeOK, Goto, Locals
  <2>2. InFlightAt(t)'
    BY <1>1, <2>1 DEF InFlightAt
  <2>3. QED
    BY <1>1, <1>2, <2>2, StillGrows, CQuietStep DEF Goto, Locked
<1>3. CASE (Return(t, "errSchemaNotFound", 0) \/ Return(t, "errAlloc", 0)) /\ UNCHANGED wlock
  BY <1>1, <1>3, CReturnStep
<1>4. QED
  BY <1>2, <1>3 DEF CreateTableStart

\* CreateTable ends, releasing the lock; on success it caches its row.
LEMMA CreateTableStorePreservesCInv ==
  ASSUME IInv, CInv, NEW t \in Threads, CreateTableStore(t)
  PROVE  CInv'
<1> DEFINE sid == loc[t].sid  tn == loc[t].table
           rec == [id |-> loc[t].id, shard |-> loc[t].shard]
<1>0. /\ pc[t] = "ct_store" /\ UNCHANGED <<storeSchemas, cacheSchemas>> /\ wlock' = "none"
      /\ pc' = [pc EXCEPT ![t] = "idle"] /\ loc' = [loc EXCEPT ![t] = NoLocals]
  BY DEF CreateTableStore, Return
<1>1. /\ sid \in 1..MaxID /\ tn \in TableNames /\ wlock = t /\ pc'[t] = "idle"
  <2>1. Stored(sid) /\ sid \in 0..MaxID
    BY <1>0 DEF IInv, SchemaHeld, Held, StoreTypeOK, Locals
  <2>2. QED
    BY <1>0, <2>1 DEF IInv, StoreTypeOK, Locals, Stored, CInv, LockHeld, Locked
<1>2. InFlightAt(t)'
  BY <1>1 DEF InFlightAt
<1>3. CASE UNCHANGED <<storeTables, cacheTables, cacheShardTables>>
  BY <1>0, <1>1, <1>2, <1>3, StillGrows, CQuietStep DEF Locked
<1>4. CASE /\ storeTables[sid][tn] = NoTable
           /\ storeTables' \in {storeTables, [storeTables EXCEPT ![sid][tn] = rec]}
           /\ UNCHANGED <<cacheTables, cacheShardTables>>
  <2>1. StoreGrows
    BY <1>0, <1>1, <1>4, TablePutGrows
  <2>2. QED
    BY <1>0, <1>1, <1>2, <1>4, <2>1, CQuietStep DEF Locked
<1>5. CASE /\ storeTables[sid][tn] = NoTable
           /\ storeTables' = [storeTables EXCEPT ![sid][tn] = rec]
           /\ cacheTables' = [cacheTables EXCEPT ![loc[t].schema][tn] = rec]
           /\ cacheShardTables' = [cacheShardTables EXCEPT ![rec.shard] = @ \cup {rec.id}]
  BY <1>0, <1>5, CreateTableCachePreservesCInv
<1>6. QED
  BY <1>3, <1>4, <1>5 DEF CreateTableStore, Return

LEMMA DropTableCheckPreservesCInv ==
  ASSUME IInv, CInv, NEW t \in Threads, DropTableCheck(t)
  PROVE  CInv'
BY CReturnStep DEF DropTableCheck, store, cache

LEMMA GetTableLookupPreservesCInv ==
  ASSUME IInv, CInv, NEW t \in Threads, GetTableLookup(t)
  PROVE  CInv'
<1>1. UNCHANGED <<storeSchemas, storeTables, cacheSchemas, cacheTables, cacheShardTables, wlock>>
  BY DEF GetTableLookup, store, cache
<1>2. CASE loc' = [loc EXCEPT ![t].id = cacheSchemas[loc[t].schema]] /\ Goto(t, "gt_store")
  <2>1. pc'[t] = "gt_store"
    BY <1>2 DEF IInv, StoreTypeOK, Goto
  <2>2. InFlightAt(t)'
    BY <2>1 DEF InFlightAt
  <2>3. QED
    BY <1>1, <1>2, <2>2, StillGrows, CQuietStep DEF Goto, Locked
<1>3. CASE Return(t, "errSchemaNotFound", 0)
           \/ Return(t, "ok", cacheTables[loc[t].schema][loc[t].table].id)
  BY <1>1, <1>3, CReturnStep
<1>4. QED
  BY <1>2, <1>3 DEF GetTableLookup

\* The row read is the row stored under the ID the lookup found.
LEMMA GetTableStorePreservesCInv ==
  ASSUME IInv, CInv, NEW t \in Threads, GetTableStore(t)
  PROVE  CInv'
<1> DEFINE row == storeTables[loc[t].id][loc[t].table]
<1>1. UNCHANGED <<storeSchemas, storeTables, cacheSchemas, cacheTables, cacheShardTables, wlock>>
  BY DEF GetTableStore, store, cache
<1>2. CASE Return(t, "errUnavailable", 0) \/ Return(t, "notFound", 0)
  BY <1>1, <1>2, CReturnStep
<1>3. CASE row # NoTable /\ loc' = [loc EXCEPT ![t].rec = row] /\ Goto(t, "gt_cache")
  <2>1. loc[t].id \in 1..MaxID
    <3>1. pc[t] = "gt_store"
      BY DEF GetTableStore
    <3>2. QED
      BY <3>1 DEF IInv, SchemaHeld, Held, StoreTypeOK, Locals
  <2>2. /\ pc'[t] = "gt_cache" /\ loc'[t].rec = row
        /\ loc'[t].id = loc[t].id /\ loc'[t].table = loc[t].table
    BY <1>3 DEF IInv, StoreTypeOK, Locals, Goto
  <2>3. InFlightAt(t)'
    BY <1>1, <1>3, <2>1, <2>2 DEF InFlightAt
  <2>4. QED
    BY <1>1, <1>3, <2>3, StillGrows, CQuietStep DEF Goto, Locked
<1>4. QED
  BY <1>2, <1>3 DEF GetTableStore

LEMMA RegisterNodeStorePreservesCInv ==
  ASSUME IInv, CInv, NEW t \in Threads, RegisterNodeStore(t)
  PROVE  CInv'
<1>1. UNCHANGED <<storeSchemas, storeTables, cacheSchemas, cacheTables, cacheShardTables, wlock>>
  BY DEF RegisterNodeStore, cache
<1>2. CASE Goto(t, "rn_cache") /\ UNCHANGED loc
  <2>1. loc' = [loc EXCEPT ![t] = loc[t]] /\ pc'[t] = "rn_cache"
    BY <1>2 DEF IInv, StoreTypeOK, Goto
  <2>2. InFlightAt(t)'
    BY <2>1 DEF InFlightAt
  <2>3. QED
    BY <1>1, <1>2, <2>1, <2>2, StillGrows, CQuietStep DEF Goto, Locked
<1>3. CASE Return(t, "errUnavailable", 0)
  BY <1>1, <1>3, CReturnStep
<1>4. QED
  BY <1>2, <1>3 DEF RegisterNodeStore

LEMMA RegisterNodeCachePreservesCInv ==
  ASSUME IInv, CInv, NEW t \in Threads, RegisterNodeCache(t)
  PROVE  CInv'
BY CReturnStep DEF RegisterNodeCache, store

-----------------------------------------------------------------------------
(***************************************************************************)
(* The cache never says more than storage (CacheAgreesWithStore), for     *)
(* every instance: a cached schema ID is a stored row of its name, a      *)
(* cached table is the row stored under the cached schema ID, a listed   *)
(* table ID is a stored table's on that shard.  This holds however        *)
(* CreateSchema calls race on one name, however the GetTable fill         *)
(* interleaves with the writes it did not lock out, whatever storage      *)
(* commits behind an Unavailable, and across restarts.  The cluster run  *)
(* checks it on two goroutines.                                           *)
(***************************************************************************)
THEOREM CacheAgreesWithStoreHolds == Spec => []CacheAgreesWithStore
<1>1. Init => CInv
  BY InitCInv
<1>2. IInv /\ CInv /\ [Next]_vars => CInv'
  <2> SUFFICES ASSUME IInv, CInv, [Next]_vars PROVE CInv'
    OBVIOUS
  <2>1. ASSUME NEW t \in Threads, Call(t) PROVE CInv'
    BY <2>1, CallPreservesCInv
  <2>2. ASSUME NEW t \in Threads, Step(t) PROVE CInv'
    <3>1. CASE UnlockedReadFatal(t) \/ DropTablePanic(t)
      BY <3>1, RestartPreservesCInv DEF UnlockedReadFatal, DropTablePanic
    <3>2. QED
      BY <2>2, <3>1, CreateSchemaCheckPreservesCInv, CreateSchemaAllocPreservesCInv,
         CreateSchemaStorePreservesCInv, CreateSchemaLockPreservesCInv,
         CreateSchemaCachePreservesCInv, CreateTableStartPreservesCInv,
         CreateTableStorePreservesCInv, DropTableCheckPreservesCInv,
         GetTableLookupPreservesCInv, GetTableStorePreservesCInv, GetTableFillPreservesCInv,
         RegisterNodeStorePreservesCInv, RegisterNodeCachePreservesCInv DEF Step
  <2>3. CASE Restart
    BY <2>3, RestartPreservesCInv
  <2>4. CASE UNCHANGED vars
    BY <2>4 DEF vars, store, cache, CInv, CacheTypeOK, CacheAgreesWithStore,
                LockHeld, InFlight, InFlightAt
  <2>5. QED
    BY <2>1, <2>2, <2>3, <2>4 DEF Next
<1>3. Spec => []CInv
  BY <1>1, <1>2, IInvInvariant, PTL DEF Spec
<1>4. QED
  BY <1>3, PTL DEF CInv
=============================================================================
