----------------------------- MODULE MetaStore ------------------------------
(***************************************************************************)
(* What the cluster's metadata storage promises (spec 4.1 and 4.2), as an *)
(* abstract key-value store with one atomic step per committed write:     *)
(*                                                                         *)
(*   - the ID allocator hands out each ID once, in increasing order;      *)
(*   - a schema row is created at an allocated ID no stored object has;  *)
(*     its name is not checked against other rows (spec 4.1 keys schemas *)
(*     by ID, and storage's own test stores ten schemas of one name);     *)
(*   - a table is created once per name within a stored schema ID, with   *)
(*     an allocated ID no stored object has;                              *)
(*   - a node's row is overwritten by each registration.                  *)
(*                                                                         *)
(* Nothing is ever deleted: no code of the cluster deletes a row.  The    *)
(* storage itself is not under src/; Cluster is shown to implement this   *)
(* specification (Cluster's MetaStoreSpec, checked by the cluster run   *)
(* and proved in ClusterProofs).                                          *)
(***************************************************************************)
EXTENDS Naturals

CONSTANTS SchemaNames, TableNames, NodeNames, Shards, Leases, MaxID, NoSchema, NoTable

VARIABLES
    schemas,    \* schema ID -> name (NoSchema: absent)
    tables,     \* schema ID -> table name -> [id, shard] or NoTable
    nodes,      \* node name -> lease (0: absent)
    allocated   \* the last ID the allocator handed out

mvars == <<schemas, tables, nodes, allocated>>

\* The IDs of the stored schemas and tables.
UsedIDs ==
    {id \in 1..MaxID : schemas[id] # NoSchema}
    \cup {tables[p[1]][p[2]].id : p \in {q \in (1..MaxID) \X TableNames :
                                             tables[q[1]][q[2]] # NoTable}}

\* Allocated IDs that no stored object has.
FreeIDs == (1..allocated) \ UsedIDs

MInit ==
    /\ schemas = [id \in 1..MaxID |-> NoSchema]
    /\ tables = [id \in 1..MaxID |-> [tn \in TableNames |-> NoTable]]
    /\ nodes = [n \in NodeNames |-> 0]
    /\ allocated = 0

Alloc ==
    /\ allocated < MaxID
    /\ allocated' = allocated + 1
    /\ UNCHANGED <<schemas, tables, nodes>>

CreateSchema(id, s) ==
    /\ id \in FreeIDs
    /\ schemas' = [schemas EXCEPT ![id] = s]
    /\ UNCHANGED <<tables, nodes, allocated>>

CreateTable(sid, tn, sh, id) ==
    /\ schemas[sid] # NoSchema
    /\ tables[sid][tn] = NoTable
    /\ id \in FreeIDs
    /\ tables' = [tables EXCEPT ![sid][tn] = [id |-> id, shard |-> sh]]
    /\ UNCHANGED <<schemas, nodes, allocated>>

PutNode(n, l) ==
    /\ nodes' = [nodes EXCEPT ![n] = l]
    /\ UNCHANGED <<schemas, tables, allocated>>

MNext ==
    \/ Alloc
    \/ \E id \in 1..MaxID, s \in SchemaNames : CreateSchema(id, s)
    \/ \E sid \in 1..MaxID, tn \in TableNames, sh \in Shards, id \in 1..MaxID :
          CreateTable(sid, tn, sh, id)
    \/ \E n \in NodeNames, l \in Leases : PutNode(n, l)

MSpec == MInit /\ [][MNext]_mvars
=============================================================================
