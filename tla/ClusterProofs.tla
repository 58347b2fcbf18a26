---------------------------- MODULE ClusterProofs ----------------------------
(***************************************************************************)
(* Proof that Cluster implements MetaStore (Spec => MetaStoreSpec) for    *)
(* every set of goroutines, names, shards and leases, and every bound on  *)
(* IDs.  Each step of Cluster changes storage as one step of MetaStore or *)
(* not at all; what makes that true is not visible in a single step, and  *)
(* the inductive invariant IInv records it:                                *)
(*   - a cached schema ID, and the schema ID a goroutine holds past its  *)
(*     schema store or CreateTable's schema check, is the ID of a stored *)
(*     schema row (SchemaCached, SchemaHeld);                             *)
(*   - every stored ID was allocated (StoredIDsAllocated);               *)
(*   - a goroutine about to store a row holds an allocated ID that no    *)
(*     stored row and no other such goroutine has (FreshIDs, DistinctIDs).*)
(* Only storage, the schema cache and the goroutines are typed           *)
(* (StoreTypeOK): the table, shard and node caches play no part.         *)
(***************************************************************************)
EXTENDS Cluster, TLAPS

StoreTypeOK ==
    /\ storeSchemas \in [1..MaxID -> SchemaNames \cup {NoSchema}]
    /\ storeTables \in [1..MaxID -> [TableNames -> TableRec \cup {NoTable}]]
    /\ storeNodes \in [NodeNames -> Leases \cup {0}]
    /\ nextID \in 0..MaxID
    /\ cacheSchemas \in [SchemaNames -> 0..MaxID]
    /\ pc \in [Threads -> Labels]
    /\ loc \in [Threads -> Locals]

\* id is the ID of a stored schema row.
Stored(id) == id # 0 /\ storeSchemas[id] # NoSchema

SchemaCached == \A s \in SchemaNames : cacheSchemas[s] # 0 => Stored(cacheSchemas[s])

\* What a goroutine at label l with locals lt knows of storage: past its
\* schema store its own row is stored, past CreateTable's schema check the
\* cached schema's row is, and GetTable reads under a cached schema's ID.
Held(l, lt) ==
    /\ l \in {"cs_lock", "cs_cache"} => Stored(lt.id)
    /\ l = "ct_store" => Stored(lt.sid)
    /\ l = "gt_store" => lt.id # 0

SchemaHeld == \A t \in Threads : Held(pc[t], loc[t])

StoredIDsAllocated == Meta!UsedIDs \subseteq 1..nextID

\* The labels at which a goroutine holds an ID it is about to store.
Storing == {"cs_store", "ct_store"}

FreshIDs == \A t \in Threads : pc[t] \in Storing => loc[t].id \in Meta!FreeIDs

DistinctIDs ==
    \A t, u \in Threads :
        t # u /\ pc[t] \in Storing /\ pc[u] \in Storing => loc[t].id # loc[u].id

\* A registration carries a lease.
LeaseHeld == \A t \in Threads : pc[t] = "rn_store" => loc[t].lease \in Leases

IInv ==
    /\ StoreTypeOK /\ SchemaCached /\ SchemaHeld /\ StoredIDsAllocated
    /\ FreshIDs /\ DistinctIDs /\ LeaseHeld
-----------------------------------------------------------------------------
(***************************************************************************)
(* NoLocals, the locals of an idle goroutine, are locals.                 *)
(***************************************************************************)
LEMMA NoLocalsType == NoLocals \in Locals
<1>1. /\ (CHOOSE s \in SchemaNames : TRUE) \in SchemaNames
      /\ (CHOOSE tn \in TableNames : TRUE) \in TableNames
      /\ (CHOOSE sh \in Shards : TRUE) \in Shards
      /\ (CHOOSE n \in NodeNames : TRUE) \in NodeNames
  BY ClusterAssumption
<1>2. QED
  BY <1>1, ClusterAssumption DEF NoLocals, Locals, Ops

(***************************************************************************)
(* The stored IDs are the keys of the stored schema rows and the IDs of   *)
(* the stored table rows; storing one row adds at most its ID to them.   *)
(***************************************************************************)
LEMMA UsedIDsMembers ==
  ASSUME NEW x \in 1..MaxID, NEW b \in TableNames
  PROVE  /\ storeSchemas[x] # NoSchema => x \in Meta!UsedIDs
         /\ storeTables[x][b] # NoTable => storeTables[x][b].id \in Meta!UsedIDs
<1>1. storeTables[x][b] # NoTable =>
        /\ <<x, b>> \in {q \in (1..MaxID) \X TableNames : storeTables[q[1]][q[2]] # NoTable}
        /\ storeTables[x][b].id = storeTables[<<x, b>>[1]][<<x, b>>[2]].id
  OBVIOUS
<1>2. QED
  BY <1>1 DEF Meta!UsedIDs

LEMMA UsedAfterSchema ==
  ASSUME StoreTypeOK, NEW id \in 1..MaxID, NEW s,
         storeSchemas' = [storeSchemas EXCEPT ![id] = s],
         storeTables' = storeTables
  PROVE  Meta!UsedIDs' \subseteq Meta!UsedIDs \cup {id}
  BY DEF StoreTypeOK, Meta!UsedIDs

LEMMA UsedAfterTable ==
  ASSUME StoreTypeOK, NEW sid \in 1..MaxID, NEW tn \in TableNames, NEW id, NEW sh,
         storeTables' = [storeTables EXCEPT ![sid][tn] = [id |-> id, shard |-> sh]],
         storeSchemas' = storeSchemas
  PROVE  Meta!UsedIDs' \subseteq Meta!UsedIDs \cup {id}
  BY DEF StoreTypeOK, Meta!UsedIDs

(***************************************************************************)
(* The initial state: nothing stored, cached or in flight.                *)
(***************************************************************************)
LEMMA InitIInv == Init => IInv
<1> SUFFICES ASSUME Init PROVE IInv
  OBVIOUS
<1>1. StoreTypeOK
  BY NoLocalsType, ClusterAssumption DEF Init, StoreTypeOK, Labels
<1>2. Meta!UsedIDs = {}
  <2>1. {id \in 1..MaxID : storeSchemas[id] # NoSchema} = {}
    BY DEF Init
  <2>2. {q \in (1..MaxID) \X TableNames : storeTables[q[1]][q[2]] # NoTable} = {}
    BY DEF Init
  <2>3. QED
    BY <2>1, <2>2 DEF Meta!UsedIDs
<1>3. QED
  BY <1>1, <1>2 DEF Init, IInv, SchemaCached, SchemaHeld, Held, StoredIDsAllocated,
                    FreshIDs, DistinctIDs, LeaseHeld, Storing
(***************************************************************************)
(* A step of one goroutine that changes only its own pc and locals keeps  *)
(* the invariant if it does not start a store and what it newly holds   *)
(* (a stored schema, a lease) is true.                                    *)
(***************************************************************************)
LEMMA QuietStep ==
  ASSUME IInv, NEW t \in Threads, NEW l \in Labels \ Storing, NEW lt \in Locals,
         pc' = [pc EXCEPT ![t] = l],
         loc' = [loc EXCEPT ![t] = lt],
         Held(l, lt),
         l = "rn_store" => lt.lease \in Leases,
         UNCHANGED <<storeSchemas, storeTables, storeNodes, nextID, cacheSchemas>>
  PROVE  IInv'
<1> USE DEF IInv
<1>1. StoreTypeOK'
  BY DEF StoreTypeOK
<1>2. Meta!UsedIDs' = Meta!UsedIDs /\ Meta!FreeIDs' = Meta!FreeIDs
  BY DEF Meta!UsedIDs, Meta!FreeIDs
<1>3. SchemaCached' /\ StoredIDsAllocated'
  BY <1>2 DEF SchemaCached, Stored, StoredIDsAllocated
<1>4. SchemaHeld'
  BY DEF StoreTypeOK, SchemaHeld, Held, Stored
<1>5. FreshIDs' /\ DistinctIDs'
  BY <1>2 DEF StoreTypeOK, FreshIDs, DistinctIDs
<1>6. LeaseHeld'
  BY DEF StoreTypeOK, LeaseHeld
<1>7. QED
  BY <1>1, <1>3, <1>4, <1>5, <1>6

(***************************************************************************)
(* A goroutine that returns from its call goes idle.                      *)
(***************************************************************************)
LEMMA ReturnStep ==
  ASSUME IInv, NEW t \in Threads, NEW res, NEW id, Return(t, res, id),
         UNCHANGED <<storeSchemas, storeTables, storeNodes, nextID, cacheSchemas>>
  PROVE  IInv'
BY NoLocalsType, QuietStep DEF Return, Labels, Storing, Held

LEMMA CallPreservesIInv ==
  ASSUME IInv, NEW t \in Threads, Call(t)
  PROVE  IInv'
<1>0. UNCHANGED <<storeSchemas, storeTables, storeNodes, nextID, cacheSchemas>>
  BY DEF Call, store, cache
<1>1. CASE \E s \in SchemaNames :
            /\ loc' = [loc EXCEPT ![t] = [NoLocals EXCEPT !.op = "CreateSchema", !.schema = s]]
            /\ Goto(t, "cs_read")
  <2>1. PICK s \in SchemaNames :
            /\ loc' = [loc EXCEPT ![t] = [NoLocals EXCEPT !.op = "CreateSchema", !.schema = s]]
            /\ Goto(t, "cs_read")
    BY <1>1
  <2>2. [NoLocals EXCEPT !.op = "CreateSchema", !.schema = s] \in Locals
    BY NoLocalsType DEF Locals, Ops
  <2>3. QED
    BY <1>0, <2>1, <2>2, QuietStep DEF Goto, Labels, Storing, Held
<1>2. CASE \E s \in SchemaNames, tn \in TableNames, sh \in Shards :
            /\ loc' = [loc EXCEPT ![t] = [NoLocals EXCEPT !.op = "CreateTable", !.schema = s,
                                                          !.table = tn, !.shard = sh]]
            /\ Goto(t, "ct_lock")
  <2>1. PICK s \in SchemaNames, tn \in TableNames, sh \in Shards :
            /\ loc' = [loc EXCEPT ![t] = [NoLocals EXCEPT !.op = "CreateTable", !.schema = s,
                                                          !.table = tn, !.shard = sh]]
            /\ Goto(t, "ct_lock")
    BY <1>2
  <2>2. [NoLocals EXCEPT !.op = "CreateTable", !.schema = s, !.table = tn, !.shard = sh] \in Locals
    BY NoLocalsType DEF Locals, Ops
  <2>3. QED
    BY <1>0, <2>1, <2>2, QuietStep DEF Goto, Labels, Storing, Held
<1>3. CASE \E s \in SchemaNames, tn \in TableNames :
            /\ loc' = [loc EXCEPT ![t] = [NoLocals EXCEPT !.op = "DropTable", !.schema = s, !.table = tn]]
            /\ Goto(t, "dt_read")
  <2>1. PICK s \in SchemaNames, tn \in TableNames :
            /\ loc' = [loc EXCEPT ![t] = [NoLocals EXCEPT !.op = "DropTable", !.schema = s, !.table = tn]]
            /\ Goto(t, "dt_read")
    BY <1>3
  <2>2. [NoLocals EXCEPT !.op = "DropTable", !.schema = s, !.table = tn] \in Locals
    BY NoLocalsType DEF Locals, Ops
  <2>3. QED
    BY <1>0, <2>1, <2>2, QuietStep DEF Goto, Labels, Storing, Held
<1>4. CASE \E s \in SchemaNames, tn \in TableNames :
            /\ loc' = [loc EXCEPT ![t] = [NoLocals EXCEPT !.op = "GetTable", !.schema = s, !.table = tn]]
            /\ Goto(t, "gt_read")
  <2>1. PICK s \in SchemaNames, tn \in TableNames :
            /\ loc' = [loc EXCEPT ![t] = [NoLocals EXCEPT !.op = "GetTable", !.schema = s, !.table = tn]]
            /\ Goto(t, "gt_read")
    BY <1>4
  <2>2. [NoLocals EXCEPT !.op = "GetTable", !.schema = s, !.table = tn] \in Locals
    BY NoLocalsType DEF Locals, Ops
  <2>3. QED
    BY <1>0, <2>1, <2>2, QuietStep DEF Goto, Labels, Storing, Held
<1>5. CASE \E n \in NodeNames, l \in Leases :
            /\ loc' = [loc EXCEPT ![t] = [NoLocals EXCEPT !.op = "RegisterNode", !.node = n, !.lease = l]]
            /\ Goto(t, "rn_store")
  <2>1. PICK n \in NodeNames, l \in Leases :
            /\ loc' = [loc EXCEPT ![t] = [NoLocals EXCEPT !.op = "RegisterNode", !.node = n, !.lease = l]]
            /\ Goto(t, "rn_store")
    BY <1>5
  <2>2. /\ [NoLocals EXCEPT !.op = "RegisterNode", !.node = n, !.lease = l] \in Locals
        /\ [NoLocals EXCEPT !.op = "RegisterNode", !.node = n, !.lease = l].lease \in Leases
    BY NoLocalsType DEF Locals, Ops
  <2>3. QED
    BY <1>0, <2>1, <2>2, QuietStep DEF Goto, Labels, Storing, Held
<1>6. QED
  BY <1>1, <1>2, <1>3, <1>4, <1>5 DEF Call
LEMMA CreateSchemaCheckPreservesIInv ==
  ASSUME IInv, NEW t \in Threads, CreateSchemaCheck(t)
  PROVE  IInv'
<1>0. UNCHANGED <<storeSchemas, storeTables, storeNodes, nextID, cacheSchemas>>
  BY DEF CreateSchemaCheck, store, cache
<1>1. CASE cacheSchemas[loc[t].schema] # 0
  BY <1>0, <1>1, ReturnStep DEF CreateSchemaCheck
<1>2. CASE cacheSchemas[loc[t].schema] = 0
  <2>1. pc' = [pc EXCEPT ![t] = "cs_alloc"] /\ loc' = [loc EXCEPT ![t] = loc[t]]
    BY <1>2 DEF CreateSchemaCheck, Goto, IInv, StoreTypeOK
  <2>2. QED
    BY <1>0, <2>1, QuietStep DEF IInv, StoreTypeOK, Labels, Storing, Held
<1>3. QED
  BY <1>1, <1>2

LEMMA CreateSchemaLockPreservesIInv ==
  ASSUME IInv, NEW t \in Threads, CreateSchemaLock(t)
  PROVE  IInv'
<1>1. pc' = [pc EXCEPT ![t] = "cs_cache"] /\ loc' = [loc EXCEPT ![t] = loc[t]]
  BY DEF CreateSchemaLock, Goto, IInv, StoreTypeOK
<1>2. Held("cs_cache", loc[t])
  BY DEF CreateSchemaLock, IInv, SchemaHeld, Held
<1>3. UNCHANGED <<storeSchemas, storeTables, storeNodes, nextID, cacheSchemas>>
  BY DEF CreateSchemaLock, store, cache
<1>4. QED
  BY <1>1, <1>2, <1>3, QuietStep DEF IInv, StoreTypeOK, Labels, Storing

(***************************************************************************)
(* updateSchemaCacheLocked caches the ID of the row the goroutine stored. *)
(***************************************************************************)
LEMMA CreateSchemaCachePreservesIInv ==
  ASSUME IInv, NEW t \in Threads, CreateSchemaCache(t)
  PROVE  IInv'
<1> DEFINE s == loc[t].schema
<1>1. s \in SchemaNames /\ loc[t].id \in 0..MaxID
  BY DEF IInv, StoreTypeOK, Locals
<1>2. Stored(loc[t].id)
  BY DEF CreateSchemaCache, IInv, SchemaHeld, Held
<1>3. cacheSchemas' = [cacheSchemas EXCEPT ![s] = loc[t].id]
      /\ UNCHANGED <<storeSchemas, storeTables, storeNodes, nextID>>
  BY DEF CreateSchemaCache, store
<1>4. SchemaCached'
  BY <1>2, <1>3 DEF IInv, SchemaCached, Stored
<1>5. Meta!UsedIDs' = Meta!UsedIDs /\ Meta!FreeIDs' = Meta!FreeIDs
  BY <1>3 DEF Meta!UsedIDs, Meta!FreeIDs
<1>6. pc' = [pc EXCEPT ![t] = "idle"] /\ loc' = [loc EXCEPT ![t] = NoLocals]
  BY DEF CreateSchemaCache, Return
<1>7. StoreTypeOK'
  BY <1>1, <1>3, <1>6, NoLocalsType DEF IInv, StoreTypeOK, Labels
<1>8. SchemaHeld' /\ StoredIDsAllocated' /\ FreshIDs' /\ DistinctIDs' /\ LeaseHeld'
  BY <1>3, <1>5, <1>6 DEF IInv, StoreTypeOK, SchemaHeld, Held, Stored, StoredIDsAllocated,
                          FreshIDs, DistinctIDs, LeaseHeld, Storing
<1>9. QED
  BY <1>4, <1>7, <1>8 DEF IInv

LEMMA DropTableCheckPreservesIInv ==
  ASSUME IInv, NEW t \in Threads, DropTableCheck(t)
  PROVE  IInv'
BY ReturnStep DEF DropTableCheck, store, cache

(***************************************************************************)
(* GetTable goes to storage with the ID of the schema it found cached.    *)
(***************************************************************************)
LEMMA GetTableLookupPreservesIInv ==
  ASSUME IInv, NEW t \in Threads, GetTableLookup(t)
  PROVE  IInv'
<1> DEFINE s == loc[t].schema
<1>0. UNCHANGED <<storeSchemas, storeTables, storeNodes, nextID, cacheSchemas>>
  BY DEF GetTableLookup, store, cache
<1>1. CASE cacheSchemas[s] = 0 /\ Return(t, "errSchemaNotFound", 0)
  BY <1>0, <1>1, ReturnStep
<1>2. CASE Return(t, "ok", cacheTables[s][loc[t].table].id)
  BY <1>0, <1>2, ReturnStep
<1>3. CASE /\ cacheSchemas[s] # 0
           /\ loc' = [loc EXCEPT ![t].id = cacheSchemas[s]]
           /\ Goto(t, "gt_store")
  <2>1. s \in SchemaNames /\ cacheSchemas[s] \in 0..MaxID
    BY DEF IInv, StoreTypeOK, Locals
  <2>2. [loc[t] EXCEPT !.id = cacheSchemas[s]] \in Locals
    BY <2>1 DEF IInv, StoreTypeOK, Locals
  <2>3. loc' = [loc EXCEPT ![t] = [loc[t] EXCEPT !.id = cacheSchemas[s]]]
    BY <1>3 DEF IInv, StoreTypeOK
  <2>4. Held("gt_store", [loc[t] EXCEPT !.id = cacheSchemas[s]])
    BY <1>3, <2>2 DEF Held, Locals
  <2>5. QED
    BY <1>0, <1>3, <2>2, <2>3, <2>4, QuietStep DEF Goto, Labels, Storing
<1>4. QED
  BY <1>1, <1>2, <1>3 DEF GetTableLookup

LEMMA GetTableStorePreservesIInv ==
  ASSUME IInv, NEW t \in Threads, GetTableStore(t)
  PROVE  IInv'
<1> DEFINE row == storeTables[loc[t].id][loc[t].table]
<1>0. UNCHANGED <<storeSchemas, storeTables, storeNodes, nextID, cacheSchemas>>
  BY DEF GetTableStore, store, cache
<1>1. CASE Return(t, "errUnavailable", 0) \/ Return(t, "notFound", 0)
  BY <1>0, <1>1, ReturnStep
<1>2. CASE /\ row # NoTable
           /\ loc' = [loc EXCEPT ![t].rec = row]
           /\ Goto(t, "gt_cache")
  <2>1. loc[t].id \in 1..MaxID /\ loc[t].table \in TableNames
    <3>1. pc[t] = "gt_store"
      BY DEF GetTableStore
    <3>2. QED
      BY <3>1 DEF IInv, SchemaHeld, Held, StoreTypeOK, Locals
  <2>2. row \in TableRec
    BY <1>2, <2>1 DEF IInv, StoreTypeOK
  <2>3. [loc[t] EXCEPT !.rec = row] \in Locals
    BY <2>2 DEF IInv, StoreTypeOK, Locals
  <2>4. loc' = [loc EXCEPT ![t] = [loc[t] EXCEPT !.rec = row]]
    BY <1>2 DEF IInv, StoreTypeOK
  <2>5. QED
    BY <1>0, <1>2, <2>3, <2>4, QuietStep DEF Goto, Labels, Storing, Held
<1>3. QED
  BY <1>1, <1>2 DEF GetTableStore

LEMMA GetTableFillPreservesIInv ==
  ASSUME IInv, NEW t \in Threads, GetTableFill(t)
  PROVE  IInv'
BY ReturnStep DEF GetTableFill, store

LEMMA RegisterNodeCachePreservesIInv ==
  ASSUME IInv, NEW t \in Threads, RegisterNodeCache(t)
  PROVE  IInv'
BY ReturnStep DEF RegisterNodeCache, store

(***************************************************************************)
(* A restart empties every call, and Load caches the ID of a stored row  *)
(* of each name it keeps.                                                 *)
(***************************************************************************)
LEMMA LoadedSchemasStored ==
  ASSUME StoreTypeOK, NEW pick \in SchemaPicks
  PROVE  /\ LoadedSchemas(pick) \in [SchemaNames -> 0..MaxID]
         /\ \A s \in SchemaNames :
               LoadedSchemas(pick)[s] # 0 =>
                   /\ LoadedSchemas(pick)[s] = pick[s]
                   /\ storeSchemas[pick[s]] = s
<1>1. pick \in [SchemaNames -> 0..MaxID]
  BY DEF SchemaPicks
<1>2. \A s \in SchemaNames : pick[s] # 0 => storeSchemas[pick[s]] = s
  BY DEF SchemaPicks
<1>3. \A s \in SchemaNames : LoadedSchemas(pick)[s] \in {pick[s], 0}
  BY DEF LoadedSchemas
<1>4. LoadedSchemas(pick) = [s \in SchemaNames |-> LoadedSchemas(pick)[s]]
  BY DEF LoadedSchemas
<1>5. LoadedSchemas(pick) \in [SchemaNames -> 0..MaxID]
  <2>1. \A s \in SchemaNames : LoadedSchemas(pick)[s] \in 0..MaxID
    BY <1>1, <1>3, ClusterAssumption
  <2>2. QED
    BY <1>4, <2>1
<1>6. ASSUME NEW s \in SchemaNames, LoadedSchemas(pick)[s] # 0
      PROVE  LoadedSchemas(pick)[s] = pick[s] /\ storeSchemas[pick[s]] = s
  BY <1>2, <1>3, <1>6
<1>7. QED
  BY <1>5, <1>6

LEMMA RestartPreservesIInv ==
  ASSUME IInv, Restart
  PROVE  IInv'
<1>1. UNCHANGED <<storeSchemas, storeTables, storeNodes, nextID>>
  BY DEF Restart, store
<1>2. PICK pick \in SchemaPicks : cacheSchemas' = LoadedSchemas(pick)
  BY DEF Restart, Load
<1>3. pc' = [u \in Threads |-> "idle"] /\ loc' = [u \in Threads |-> NoLocals]
  BY DEF Restart
<1>4. Meta!UsedIDs' = Meta!UsedIDs /\ Meta!FreeIDs' = Meta!FreeIDs
  BY <1>1 DEF Meta!UsedIDs, Meta!FreeIDs
<1>5. StoreTypeOK'
  BY <1>1, <1>2, <1>3, LoadedSchemasStored, NoLocalsType DEF IInv, StoreTypeOK, Labels
<1>6. SchemaCached'
  BY <1>1, <1>2, LoadedSchemasStored, ClusterAssumption DEF IInv, SchemaCached, Stored
<1>7. SchemaHeld' /\ StoredIDsAllocated' /\ FreshIDs' /\ DistinctIDs' /\ LeaseHeld'
  BY <1>1, <1>3, <1>4 DEF IInv, SchemaHeld, Held, StoredIDsAllocated, FreshIDs, DistinctIDs,
                          LeaseHeld, Storing
<1>8. QED
  BY <1>5, <1>6, <1>7 DEF IInv
(***************************************************************************)
(* Allocating: the goroutine takes the ID one above every allocated one,  *)
(* so it is free and differs from the ID of every other storing goroutine.*)
(***************************************************************************)
LEMMA AllocStep ==
  ASSUME IInv, NEW t \in Threads, NEW l \in Storing, NEW lt \in Locals,
         nextID < MaxID, nextID' = nextID + 1, lt.id = nextID + 1,
         loc' = [loc EXCEPT ![t] = lt],
         pc' = [pc EXCEPT ![t] = l],
         Held(l, lt),
         UNCHANGED <<storeSchemas, storeTables, storeNodes, cacheSchemas>>
  PROVE  IInv'
<1> USE DEF IInv
<1>1. Meta!UsedIDs' = Meta!UsedIDs
  BY DEF Meta!UsedIDs
<1>2. \A u \in Threads : pc[u] \in Storing => loc[u].id \in 1..nextID \ Meta!UsedIDs
  BY DEF FreshIDs, Meta!FreeIDs
<1>3. nextID + 1 \in 1..MaxID /\ nextID + 1 \notin Meta!UsedIDs
  <2>1. nextID \in Nat /\ nextID + 1 \in 1..MaxID
    BY ClusterAssumption DEF StoreTypeOK
  <2>2. \A x \in Meta!UsedIDs : x \in 1..nextID
    BY DEF StoredIDsAllocated
  <2>3. QED
    BY <2>1, <2>2
<1>4. \A u \in Threads \ {t} : pc'[u] = pc[u] /\ loc'[u] = loc[u]
  BY DEF StoreTypeOK
<1>5. pc'[t] = l /\ loc'[t] = lt
  BY DEF StoreTypeOK
<1>6. StoreTypeOK'
  <2>1. loc' \in [Threads -> Locals]
    BY DEF StoreTypeOK
  <2>2. pc' \in [Threads -> Labels]
    BY DEF StoreTypeOK, Storing, Labels
  <2>3. QED
    BY <1>3, <2>1, <2>2, ClusterAssumption DEF StoreTypeOK
<1>7. SchemaCached' /\ StoredIDsAllocated'
  BY <1>1 DEF SchemaCached, Stored, StoredIDsAllocated, StoreTypeOK
<1>8. SchemaHeld'
  BY <1>4, <1>5 DEF SchemaHeld, Held, Stored
<1>9. FreshIDs'
  BY <1>1, <1>2, <1>3, <1>4, <1>5 DEF FreshIDs, Meta!FreeIDs, StoreTypeOK
<1>10. DistinctIDs'
  BY <1>2, <1>4, <1>5 DEF DistinctIDs, StoreTypeOK
<1>11. LeaseHeld'
  BY <1>4, <1>5 DEF LeaseHeld, Storing
<1>12. QED
  BY <1>6, <1>7, <1>8, <1>9, <1>10, <1>11

LEMMA CreateSchemaAllocPreservesIInv ==
  ASSUME IInv, NEW t \in Threads, CreateSchemaAlloc(t)
  PROVE  IInv'
<1>1. CASE /\ nextID < MaxID
           /\ nextID' = nextID + 1
           /\ loc' = [loc EXCEPT ![t].id = nextID + 1]
           /\ Goto(t, "cs_store")
  <2> DEFINE lt == [loc[t] EXCEPT !.id = nextID + 1]
  <2>0. loc[t] \in Locals /\ nextID + 1 \in 0..MaxID
    BY <1>1, ClusterAssumption DEF IInv, StoreTypeOK
  <2>1. lt \in Locals /\ lt.id = nextID + 1
    BY <2>0 DEF Locals
  <2>2. loc' = [loc EXCEPT ![t] = lt]
    BY <1>1 DEF IInv, StoreTypeOK
  <2>3. QED
    BY <1>1, <2>1, <2>2, AllocStep DEF CreateSchemaAlloc, Goto, Storing, Held, cache
<1>2. CASE Return(t, "errAlloc", 0) /\ UNCHANGED nextID
  BY <1>2, ReturnStep DEF CreateSchemaAlloc, cache
<1>3. QED
  BY <1>1, <1>2 DEF CreateSchemaAlloc

(***************************************************************************)
(* CreateTable allocates only for a cached, hence stored, schema, and     *)
(* keeps its ID.                                                          *)
(***************************************************************************)
LEMMA CreateTableStartPreservesIInv ==
  ASSUME IInv, NEW t \in Threads, CreateTableStart(t)
  PROVE  IInv'
<1> DEFINE s == loc[t].schema
<1>1. CASE /\ cacheSchemas[s] # 0
           /\ nextID < MaxID
           /\ nextID' = nextID + 1
           /\ loc' = [loc EXCEPT ![t].id = nextID + 1, ![t].sid = cacheSchemas[s]]
           /\ Goto(t, "ct_store")
  <2> DEFINE lt == [loc[t] EXCEPT !.id = nextID + 1, !.sid = cacheSchemas[s]]
  <2>1. s \in SchemaNames /\ cacheSchemas[s] \in 0..MaxID
    BY DEF IInv, StoreTypeOK, Locals
  <2>0. loc[t] \in Locals /\ nextID + 1 \in 0..MaxID
    BY <1>1, ClusterAssumption DEF IInv, StoreTypeOK
  <2>2. lt \in Locals /\ lt.id = nextID + 1 /\ lt.sid = cacheSchemas[s]
    BY <2>0, <2>1 DEF Locals
  <2>3. loc' = [loc EXCEPT ![t] = lt]
    BY <1>1 DEF IInv, StoreTypeOK
  <2>4. Held("ct_store", lt)
    BY <1>1, <2>1, <2>2 DEF IInv, SchemaCached, Held
  <2>5. QED
    BY <1>1, <2>2, <2>3, <2>4, AllocStep DEF CreateTableStart, Goto, Storing, cache
<1>2. CASE /\ Return(t, "errSchemaNotFound", 0) \/ Return(t, "errAlloc", 0)
           /\ UNCHANGED <<nextID, wlock>>
  BY <1>2, ReturnStep DEF CreateTableStart, cache
<1>3. QED
  BY <1>1, <1>2 DEF CreateTableStart

(***************************************************************************)
(* Storing a schema row at the goroutine's ID: the ID was free, so no    *)
(* row is overwritten, and it differs from the ID of every other storing  *)
(* goroutine, so those stay free.                                         *)
(***************************************************************************)
LEMMA SchemaStoreStep ==
  ASSUME IInv, NEW t \in Threads, pc[t] = "cs_store",
         storeSchemas' = SchemaPut(t),
         NEW l \in {"cs_lock", "idle"}, NEW lt \in Locals,
         pc' = [pc EXCEPT ![t] = l], loc' = [loc EXCEPT ![t] = lt],
         l = "cs_lock" => lt = loc[t],
         UNCHANGED <<storeTables, storeNodes, nextID, cacheSchemas>>
  PROVE  IInv'
<1> USE DEF IInv
<1> DEFINE s == loc[t].schema  id == loc[t].id
<1>1. s \in SchemaNames /\ id \in 1..nextID /\ id \notin Meta!UsedIDs /\ id \in 1..MaxID
  BY ClusterAssumption DEF StoreTypeOK, Locals, FreshIDs, Meta!FreeIDs, Storing
<1>2. storeSchemas' = [storeSchemas EXCEPT ![id] = s]
  BY DEF SchemaPut
<1>3. Meta!UsedIDs' \subseteq Meta!UsedIDs \cup {id}
  BY <1>1, <1>2, UsedAfterSchema
<1>4. \A u \in Threads \ {t} : pc'[u] = pc[u] /\ loc'[u] = loc[u]
  BY DEF StoreTypeOK
<1>5. \A x \in 0..MaxID : Stored(x) => Stored(x)'
  BY <1>1, <1>2, ClusterAssumption DEF StoreTypeOK, Stored
<1>6. id # 0 /\ storeSchemas'[id] # NoSchema
  BY <1>1, <1>2, ClusterAssumption DEF StoreTypeOK
<1>7. StoreTypeOK'
  BY <1>1, <1>2 DEF StoreTypeOK, Labels
<1>8. SchemaCached'
  BY <1>5 DEF SchemaCached, StoreTypeOK
<1>9. SchemaHeld'
  <2>1. pc'[t] = l /\ loc'[t] = lt
    BY DEF StoreTypeOK
  <2>2. Held(l, lt)'
    BY <1>6 DEF Held, Stored
  <2>3. \A u \in Threads \ {t} : Held(pc[u], loc[u])'
    <3> SUFFICES ASSUME NEW u \in Threads \ {t} PROVE Held(pc[u], loc[u])'
      OBVIOUS
    <3>1. Held(pc[u], loc[u]) /\ loc[u].id \in 0..MaxID /\ loc[u].sid \in 0..MaxID
      BY DEF SchemaHeld, StoreTypeOK, Locals
    <3>2. QED
      BY <1>5, <3>1 DEF Held
  <2>4. QED
    BY <1>4, <2>1, <2>2, <2>3 DEF SchemaHeld
<1>10. StoredIDsAllocated'
  BY <1>1, <1>3 DEF StoredIDsAllocated
<1>11. FreshIDs' /\ DistinctIDs'
  <2>1. \A u \in Threads \ {t} : pc[u] \in Storing => loc[u].id # id
    BY DEF DistinctIDs, Storing
  <2>2. pc'[t] \notin Storing
    BY DEF StoreTypeOK, Storing
  <2>3. QED
    BY <1>3, <1>4, <2>1, <2>2 DEF FreshIDs, DistinctIDs, Meta!FreeIDs
<1>12. LeaseHeld'
  BY <1>4 DEF LeaseHeld, StoreTypeOK
<1>13. QED
  BY <1>7, <1>8, <1>9, <1>10, <1>11, <1>12

LEMMA CreateSchemaStorePreservesIInv ==
  ASSUME IInv, NEW t \in Threads, CreateSchemaStore(t)
  PROVE  IInv'
<1>0. pc[t] = "cs_store" /\ UNCHANGED <<storeTables, storeNodes, nextID, cacheSchemas>>
  BY DEF CreateSchemaStore, cache
<1>1. CASE storeSchemas' = SchemaPut(t) /\ Goto(t, "cs_lock") /\ UNCHANGED loc
  <2>1. loc' = [loc EXCEPT ![t] = loc[t]] /\ loc[t] \in Locals
    BY <1>1 DEF IInv, StoreTypeOK
  <2>2. QED
    BY <1>0, <1>1, <2>1, SchemaStoreStep DEF Goto
<1>2. CASE storeSchemas' \in {storeSchemas, SchemaPut(t)} /\ Return(t, "errUnavailable", 0)
  <2>1. CASE storeSchemas' = storeSchemas
    BY <1>0, <1>2, <2>1, ReturnStep
  <2>2. CASE storeSchemas' = SchemaPut(t)
    BY <1>0, <1>2, <2>2, NoLocalsType, SchemaStoreStep DEF Return
  <2>3. QED
    BY <1>2, <2>1, <2>2
<1>3. QED
  BY <1>1, <1>2 DEF CreateSchemaStore

(***************************************************************************)
(* Storing a table row under the stored schema ID the goroutine holds,    *)
(* after which it returns.                                                *)
(***************************************************************************)
LEMMA TableStoreStep ==
  ASSUME IInv, NEW t \in Threads, pc[t] = "ct_store",
         storeTables[loc[t].sid][loc[t].table] = NoTable,
         storeTables' = [storeTables EXCEPT ![loc[t].sid][loc[t].table] =
                                              [id |-> loc[t].id, shard |-> loc[t].shard]],
         pc' = [pc EXCEPT ![t] = "idle"], loc' = [loc EXCEPT ![t] = NoLocals],
         UNCHANGED <<storeSchemas, storeNodes, nextID, cacheSchemas>>
  PROVE  IInv'
<1> USE DEF IInv
<1> DEFINE tid == loc[t].id  sid == loc[t].sid
<1>1. /\ sid \in 1..MaxID /\ loc[t].table \in TableNames /\ loc[t].shard \in Shards
      /\ tid \in 1..nextID /\ tid \notin Meta!UsedIDs /\ tid \in 1..MaxID
  <2>1. Stored(sid) /\ sid \in 0..MaxID
    BY DEF SchemaHeld, Held, StoreTypeOK, Locals
  <2>2. QED
    BY <2>1, ClusterAssumption DEF StoreTypeOK, Locals, FreshIDs, Meta!FreeIDs, Storing, Stored
<1>2. Meta!UsedIDs' \subseteq Meta!UsedIDs \cup {tid}
  <2>1. StoreTypeOK
    OBVIOUS
  <2>2. QED
    BY ONLY <1>1, <2>1, UsedAfterTable, storeSchemas' = storeSchemas,
         storeTables' = [storeTables EXCEPT ![loc[t].sid][loc[t].table] =
                                              [id |-> loc[t].id, shard |-> loc[t].shard]]
<1>3. \A u \in Threads \ {t} : pc'[u] = pc[u] /\ loc'[u] = loc[u]
  BY DEF StoreTypeOK
<1>4. StoreTypeOK'
  <2>1. [id |-> tid, shard |-> loc[t].shard] \in TableRec
    BY <1>1 DEF TableRec
  <2>2. QED
    BY <1>1, <2>1, NoLocalsType DEF StoreTypeOK, Labels
<1>5. SchemaCached' /\ SchemaHeld'
  <2>1. pc'[t] = "idle"
    BY DEF StoreTypeOK
  <2>2. QED
    BY <1>3, <2>1 DEF SchemaCached, SchemaHeld, Held, Stored
<1>6. StoredIDsAllocated'
  BY <1>1, <1>2 DEF StoredIDsAllocated
<1>7. FreshIDs' /\ DistinctIDs'
  <2>1. \A u \in Threads \ {t} : pc[u] \in Storing => loc[u].id # tid
    BY DEF DistinctIDs, Storing
  <2>2. pc'[t] \notin Storing
    BY DEF StoreTypeOK, Storing
  <2>3. QED
    BY <1>2, <1>3, <2>1, <2>2 DEF FreshIDs, DistinctIDs, Meta!FreeIDs
<1>8. LeaseHeld'
  BY <1>3 DEF LeaseHeld, StoreTypeOK
<1>9. QED
  BY <1>4, <1>5, <1>6, <1>7, <1>8

LEMMA CreateTableStorePreservesIInv ==
  ASSUME IInv, NEW t \in Threads, CreateTableStore(t)
  PROVE  IInv'
<1> DEFINE sid == loc[t].sid  tn == loc[t].table
           rec == [id |-> loc[t].id, shard |-> loc[t].shard]
<1>0. /\ pc[t] = "ct_store" /\ UNCHANGED <<storeSchemas, storeNodes, nextID, cacheSchemas>>
      /\ pc' = [pc EXCEPT ![t] = "idle"] /\ loc' = [loc EXCEPT ![t] = NoLocals]
  BY DEF CreateTableStore, Return
<1>1. CASE UNCHANGED storeTables
  BY <1>0, <1>1, ReturnStep DEF Return
<1>2. CASE storeTables[sid][tn] = NoTable /\ storeTables' = [storeTables EXCEPT ![sid][tn] = rec]
  BY <1>0, <1>2, TableStoreStep
<1>3. QED
  BY <1>1, <1>2 DEF CreateTableStore

LEMMA RegisterNodeStorePreservesIInv ==
  ASSUME IInv, NEW t \in Threads, RegisterNodeStore(t)
  PROVE  IInv'
<1> DEFINE n == loc[t].node
<1>0. /\ pc[t] = "rn_store"
      /\ UNCHANGED <<storeSchemas, storeTables, nextID, cacheSchemas>>
      /\ storeNodes' \in {storeNodes, [storeNodes EXCEPT ![n] = loc[t].lease]}
  BY DEF RegisterNodeStore, cache
<1>1. StoreTypeOK!3'
  BY <1>0 DEF IInv, StoreTypeOK, LeaseHeld, Locals
<1>2. Meta!UsedIDs' = Meta!UsedIDs
  BY <1>0 DEF Meta!UsedIDs
<1>3. CASE Goto(t, "rn_cache") /\ UNCHANGED loc
  <2> USE DEF IInv
  <2>1. \A u \in Threads : /\ pc'[u] = IF u = t THEN "rn_cache" ELSE pc[u]
                          /\ loc'[u] = loc[u]
    BY <1>3 DEF Goto, StoreTypeOK
  <2>2. StoreTypeOK'
    BY <1>0, <1>1, <1>3 DEF Goto, StoreTypeOK, Labels
  <2>3. SchemaCached' /\ StoredIDsAllocated'
    BY <1>0, <1>2 DEF SchemaCached, StoredIDsAllocated, Stored
  <2>4. SchemaHeld'
    BY <1>0, <2>1 DEF SchemaHeld, Held, Stored
  <2>5. FreshIDs' /\ DistinctIDs'
    BY <1>0, <1>2, <2>1 DEF FreshIDs, DistinctIDs, Meta!FreeIDs, Storing
  <2>6. LeaseHeld'
    BY <2>1 DEF LeaseHeld
  <2>7. QED
    BY <2>2, <2>3, <2>4, <2>5, <2>6
<1>4. CASE Return(t, "errUnavailable", 0)
  <2> USE DEF IInv
  <2>1. \A u \in Threads : /\ pc'[u] = IF u = t THEN "idle" ELSE pc[u]
                          /\ loc'[u] = IF u = t THEN NoLocals ELSE loc[u]
    BY <1>4 DEF Return, StoreTypeOK
  <2>2. StoreTypeOK'
    BY <1>0, <1>1, <1>4, NoLocalsType DEF Return, StoreTypeOK, Labels
  <2>3. SchemaCached' /\ StoredIDsAllocated'
    BY <1>0, <1>2 DEF SchemaCached, StoredIDsAllocated, Stored
  <2>4. SchemaHeld'
    BY <1>0, <2>1 DEF SchemaHeld, Held, Stored
  <2>5. FreshIDs' /\ DistinctIDs'
    BY <1>0, <1>2, <2>1 DEF FreshIDs, DistinctIDs, Meta!FreeIDs, Storing
  <2>6. LeaseHeld'
    BY <2>1 DEF LeaseHeld
  <2>7. QED
    BY <2>2, <2>3, <2>4, <2>5, <2>6
<1>5. QED
  BY <1>3, <1>4 DEF RegisterNodeStore
(***************************************************************************)
(* The inductive invariant holds in every state of every behaviour.       *)
(***************************************************************************)
THEOREM IInvInvariant == Spec => []IInv
<1>1. Init => IInv
  BY InitIInv
<1>2. IInv /\ [Next]_vars => IInv'
  <2> SUFFICES ASSUME IInv, [Next]_vars PROVE IInv'
    OBVIOUS
  <2>1. ASSUME NEW t \in Threads, Call(t) PROVE IInv'
    BY <2>1, CallPreservesIInv
  <2>2. ASSUME NEW t \in Threads, Step(t) PROVE IInv'
    <3>1. CASE UnlockedReadFatal(t) \/ DropTablePanic(t)
      BY <3>1, RestartPreservesIInv DEF UnlockedReadFatal, DropTablePanic
    <3>2. QED
      BY <2>2, <3>1, CreateSchemaCheckPreservesIInv, CreateSchemaAllocPreservesIInv,
         CreateSchemaStorePreservesIInv, CreateSchemaLockPreservesIInv,
         CreateSchemaCachePreservesIInv, CreateTableStartPreservesIInv,
         CreateTableStorePreservesIInv, DropTableCheckPreservesIInv,
         GetTableLookupPreservesIInv, GetTableStorePreservesIInv, GetTableFillPreservesIInv,
         RegisterNodeStorePreservesIInv, RegisterNodeCachePreservesIInv DEF Step
  <2>3. CASE Restart
    BY <2>3, RestartPreservesIInv
  <2>4. CASE UNCHANGED vars
    <3>1. UNCHANGED <<storeSchemas, storeTables, storeNodes, nextID, cacheSchemas, pc, loc>>
      BY <2>4 DEF vars, store, cache
    <3>2. Meta!UsedIDs' = Meta!UsedIDs /\ Meta!FreeIDs' = Meta!FreeIDs
      BY <3>1 DEF Meta!UsedIDs, Meta!FreeIDs
    <3>3. QED
      BY <3>1, <3>2 DEF IInv, StoreTypeOK, SchemaCached, SchemaHeld, StoredIDsAllocated,
                        FreshIDs, DistinctIDs, LeaseHeld, Held, Stored
  <2>5. QED
    BY <2>1, <2>2, <2>3, <2>4 DEF Next
<1>3. QED
  BY <1>1, <1>2, PTL DEF Spec

-----------------------------------------------------------------------------
(***************************************************************************)
(* Refinement: every step of Cluster is a step of MetaStore on storage,   *)
(* or leaves storage alone.                                                *)
(***************************************************************************)
LEMMA AllocRefines ==
  ASSUME nextID < MaxID, nextID' = nextID + 1,
         UNCHANGED <<storeSchemas, storeTables, storeNodes>>
  PROVE  Meta!Alloc
BY DEF Meta!Alloc

LEMMA CreateSchemaStoreRefines ==
  ASSUME IInv, NEW t \in Threads, CreateSchemaStore(t)
  PROVE  [Meta!MNext]_Meta!mvars
<1>1. loc[t].schema \in SchemaNames /\ loc[t].id \in Meta!FreeIDs /\ loc[t].id \in 1..MaxID
  <2>1. pc[t] = "cs_store"
    BY DEF CreateSchemaStore
  <2>2. QED
    BY <2>1, ClusterAssumption DEF IInv, StoreTypeOK, Locals, FreshIDs, Storing, Meta!FreeIDs
<1>2. UNCHANGED <<storeTables, storeNodes, nextID>>
  BY DEF CreateSchemaStore
<1>3. storeSchemas' = storeSchemas
      \/ storeSchemas' = [storeSchemas EXCEPT ![loc[t].id] = loc[t].schema]
  BY DEF CreateSchemaStore, SchemaPut
<1>4. QED
  BY <1>1, <1>2, <1>3 DEF Meta!MNext, Meta!CreateSchema, Meta!mvars

LEMMA CreateTableStoreRefines ==
  ASSUME IInv, NEW t \in Threads, CreateTableStore(t)
  PROVE  [Meta!MNext]_Meta!mvars
<1> DEFINE sid == loc[t].sid  tn == loc[t].table
<1>1. /\ sid \in 1..MaxID /\ tn \in TableNames /\ loc[t].shard \in Shards
      /\ storeSchemas[sid] # NoSchema
      /\ loc[t].id \in Meta!FreeIDs /\ loc[t].id \in 1..MaxID
  <2>1. pc[t] = "ct_store"
    BY DEF CreateTableStore
  <2>2. Stored(sid) /\ sid \in 0..MaxID
    BY <2>1 DEF IInv, SchemaHeld, Held, StoreTypeOK, Locals
  <2>3. QED
    BY <2>1, <2>2, ClusterAssumption DEF IInv, StoreTypeOK, Locals, FreshIDs, Storing,
                                         Meta!FreeIDs, Stored
<1>2. UNCHANGED <<storeSchemas, storeNodes, nextID>>
  BY DEF CreateTableStore
<1>3. storeTables' = storeTables
      \/ (/\ storeTables[sid][tn] = NoTable
          /\ storeTables' = [storeTables EXCEPT ![sid][tn] = [id |-> loc[t].id, shard |-> loc[t].shard]])
  BY DEF CreateTableStore
<1>4. QED
  BY <1>1, <1>2, <1>3 DEF Meta!MNext, Meta!CreateTable, Meta!mvars

LEMMA RegisterNodeStoreRefines ==
  ASSUME IInv, NEW t \in Threads, RegisterNodeStore(t)
  PROVE  [Meta!MNext]_Meta!mvars
<1>1. loc[t].node \in NodeNames /\ loc[t].lease \in Leases
  BY DEF RegisterNodeStore, IInv, StoreTypeOK, Locals, LeaseHeld
<1>2. UNCHANGED <<storeSchemas, storeTables, nextID>>
  BY DEF RegisterNodeStore
<1>3. storeNodes' \in {storeNodes, [storeNodes EXCEPT ![loc[t].node] = loc[t].lease]}
  BY DEF RegisterNodeStore
<1>4. QED
  BY <1>1, <1>2, <1>3 DEF Meta!MNext, Meta!PutNode, Meta!mvars

(***************************************************************************)
(* For every set of goroutines, names, shards and leases and every bound *)
(* on IDs, the cluster drives storage as the metadata store of spec       *)
(* 4.1-4.2 promises: each schema row is put once at an allocated ID no    *)
(* stored row has, each table row once per name under a stored schema ID *)
(* with such an ID, although CreateSchema and CreateTable race (lines     *)
(* 267-323), storage commits reported as failures, and the process       *)
(* restarts and reloads.                                                  *)
(***************************************************************************)
THEOREM ClusterImplementsMetaStore == Spec => MetaStoreSpec
<1>1. Init => Meta!MInit
  BY DEF Init, Meta!MInit
<1>2. IInv /\ [Next]_vars => [Meta!MNext]_Meta!mvars
  <2> SUFFICES ASSUME IInv, [Next]_vars PROVE [Meta!MNext]_Meta!mvars
    OBVIOUS
  <2>1. CASE UNCHANGED <<storeSchemas, storeTables, storeNodes, nextID>>
    BY <2>1 DEF Meta!mvars
  <2>2. ASSUME NEW t \in Threads, CreateSchemaAlloc(t) PROVE [Meta!MNext]_Meta!mvars
    BY <2>2, AllocRefines DEF CreateSchemaAlloc, Meta!MNext, Meta!mvars
  <2>3. ASSUME NEW t \in Threads, CreateTableStart(t) PROVE [Meta!MNext]_Meta!mvars
    BY <2>3, AllocRefines DEF CreateTableStart, Meta!MNext, Meta!mvars
  <2>4. ASSUME NEW t \in Threads, Step(t) PROVE [Meta!MNext]_Meta!mvars
    <3>1. CASE \/ CreateSchemaCheck(t) \/ UnlockedReadFatal(t) \/ CreateSchemaLock(t)
               \/ CreateSchemaCache(t) \/ DropTableCheck(t) \/ DropTablePanic(t)
               \/ GetTableLookup(t) \/ GetTableStore(t) \/ GetTableFill(t)
               \/ RegisterNodeCache(t)
      <4>1. UNCHANGED <<storeSchemas, storeTables, storeNodes, nextID>>
        BY <3>1 DEF CreateSchemaCheck, UnlockedReadFatal, CreateSchemaLock, CreateSchemaCache,
                    DropTableCheck, DropTablePanic, GetTableLookup, GetTableStore,
                    GetTableFill, RegisterNodeCache, Restart, store
      <4>2. QED
        BY <4>1, <2>1
    <3>2. QED
      BY <2>4, <3>1, <2>2, <2>3, CreateSchemaStoreRefines, CreateTableStoreRefines,
         RegisterNodeStoreRefines DEF Step
  <2>5. QED
    <3>1. ASSUME NEW t \in Threads, Call(t) PROVE UNCHANGED <<storeSchemas, storeTables, storeNodes, nextID>>
      BY <3>1 DEF Call, store
    <3>2. Restart => UNCHANGED <<storeSchemas, storeTables, storeNodes, nextID>>
      BY DEF Restart, store
    <3>3. UNCHANGED vars => UNCHANGED <<storeSchemas, storeTables, storeNodes, nextID>>
      BY DEF vars, store
    <3>4. QED
      BY <2>1, <2>4, <3>1, <3>2, <3>3 DEF Next
<1>3. QED
  BY <1>1, <1>2, IInvInvariant, PTL DEF Spec, MetaStoreSpec, Meta!MSpec
-----------------------------------------------------------------------------
(***************************************************************************)
(* A stored row gets an ID no stored row has, so a table's ID stays       *)
(* unique among tables and unused by schemas.                             *)
(***************************************************************************)
LEMMA UniqueIDsStep == IInv /\ UniqueIDs /\ [Next]_vars => UniqueIDs'
<1> SUFFICES ASSUME IInv, UniqueIDs, [Next]_vars PROVE UniqueIDs'
  OBVIOUS
<1>1. ASSUME UNCHANGED <<storeSchemas, storeTables>> PROVE UniqueIDs'
  BY <1>1 DEF UniqueIDs
<1>2. ASSUME NEW t \in Threads, pc[t] = "cs_store",
             storeSchemas' = SchemaPut(t), UNCHANGED storeTables
      PROVE  UniqueIDs'
  <2> DEFINE id == loc[t].id
  <2>1. loc[t].schema \in SchemaNames /\ id \in 1..MaxID /\ id \notin Meta!UsedIDs
    BY <1>2, ClusterAssumption DEF IInv, StoreTypeOK, Locals, FreshIDs, Storing, Meta!FreeIDs
  <2>2. \A x \in 1..MaxID, b \in TableNames :
          storeTables[x][b] # NoTable => storeTables[x][b].id # id
    BY <2>1, UsedIDsMembers
  <2>3. \A x \in 1..MaxID, b \in TableNames :
          storeTables[x][b] # NoTable => storeTables[x][b].id \in 1..MaxID
    BY DEF IInv, StoreTypeOK, TableRec
  <2>4. \A x \in 1..MaxID : x # id => storeSchemas'[x] = storeSchemas[x]
    BY <1>2 DEF IInv, StoreTypeOK, SchemaPut
  <2>5. QED
    BY <1>2, <2>2, <2>3, <2>4 DEF UniqueIDs
<1>3. ASSUME NEW t \in Threads, pc[t] = "ct_store",
             storeTables[loc[t].sid][loc[t].table] = NoTable,
             storeTables' = [storeTables EXCEPT ![loc[t].sid][loc[t].table] =
                                                  [id |-> loc[t].id, shard |-> loc[t].shard]],
             UNCHANGED storeSchemas
      PROVE  UniqueIDs'
  <2> DEFINE tid == loc[t].id  sid == loc[t].sid  tn == loc[t].table
  <2>1. /\ sid \in 1..MaxID /\ tn \in TableNames
        /\ tid \in 1..MaxID /\ tid \notin Meta!UsedIDs
    <3>1. Stored(sid) /\ sid \in 0..MaxID
      BY <1>3 DEF IInv, SchemaHeld, Held, StoreTypeOK, Locals
    <3>2. QED
      BY <1>3, <3>1, ClusterAssumption DEF IInv, StoreTypeOK, Locals, FreshIDs, Storing,
                                           Meta!FreeIDs, Stored
  <2>2. \A x \in 1..MaxID, b \in TableNames :
          /\ storeSchemas[x] # NoSchema => x # tid
          /\ storeTables[x][b] # NoTable => storeTables[x][b].id # tid
    BY <2>1, UsedIDsMembers
  <2>3. storeSchemas[tid] = NoSchema
    BY <2>1, <2>2
  <2>4. \A x \in 1..MaxID, b \in TableNames :
          storeTables'[x][b] = IF x = sid /\ b = tn THEN [id |-> tid, shard |-> loc[t].shard]
                                                    ELSE storeTables[x][b]
    BY <1>3, <2>1 DEF IInv, StoreTypeOK
  <2>5. QED
    BY <1>3, <2>2, <2>3, <2>4 DEF UniqueIDs
<1>4. ASSUME NEW t \in Threads, CreateSchemaStore(t) PROVE UniqueIDs'
  <2>1. pc[t] = "cs_store" /\ UNCHANGED storeTables
    BY <1>4 DEF CreateSchemaStore
  <2>2. CASE UNCHANGED storeSchemas
    BY <2>1, <2>2, <1>1
  <2>3. CASE storeSchemas' = SchemaPut(t)
    BY <2>1, <2>3, <1>2
  <2>4. QED
    BY <1>4, <2>2, <2>3 DEF CreateSchemaStore
<1>5. ASSUME NEW t \in Threads, CreateTableStore(t) PROVE UniqueIDs'
  <2>1. pc[t] = "ct_store" /\ UNCHANGED storeSchemas
    BY <1>5 DEF CreateTableStore
  <2>2. CASE UNCHANGED storeTables
    BY <2>1, <2>2, <1>1
  <2>3. CASE /\ storeTables[loc[t].sid][loc[t].table] = NoTable
             /\ storeTables' = [storeTables EXCEPT ![loc[t].sid][loc[t].table] =
                                                  [id |-> loc[t].id, shard |-> loc[t].shard]]
    BY <2>1, <2>3, <1>3
  <2>4. QED
    BY <1>5, <2>2, <2>3 DEF CreateTableStore
<1>6. QED
  <2>1. ASSUME NEW t \in Threads,
               ~CreateSchemaStore(t), ~CreateTableStore(t), Call(t) \/ Step(t)
        PROVE  UNCHANGED <<storeSchemas, storeTables>>
    BY <2>1 DEF Call, Step, CreateSchemaCheck, UnlockedReadFatal, CreateSchemaAlloc,
                CreateSchemaLock, CreateSchemaCache, CreateTableStart, DropTableCheck,
                DropTablePanic, GetTableLookup, GetTableStore, GetTableFill,
                RegisterNodeStore, RegisterNodeCache, Restart, store
  <2>2. Restart \/ UNCHANGED vars => UNCHANGED <<storeSchemas, storeTables>>
    BY DEF Restart, vars, store
  <2>3. QED
    BY <1>1, <1>4, <1>5, <2>1, <2>2 DEF Next

(***************************************************************************)
(* For every instance, a table's ID is cluster-unique (spec 4.2): no     *)
(* other table and no schema has it, although the two creates allocate   *)
(* from one allocator, CreateSchema without the lock and CreateTable     *)
(* under it (lines 267-323), and failed calls waste IDs.                  *)
(***************************************************************************)
THEOREM UniqueIDsHold == Spec => []UniqueIDs
<1>1. Init => UniqueIDs
  BY DEF Init, UniqueIDs
<1>2. Spec => [](IInv /\ UniqueIDs)
  BY <1>1, IInvInvariant, UniqueIDsStep, PTL DEF Spec
<1>3. QED
  BY <1>2, PTL
=============================================================================
