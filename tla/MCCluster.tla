----------------------------- MODULE MCCluster -----------------------------
(***************************************************************************)
(* Model-checking instance of Cluster.  Two goroutines are enough for     *)
(* every race of the code, which is always between two calls; one schema  *)
(* name makes racing CreateSchema calls store two rows of it; one table  *)
(* name makes racing CreateTable calls collide, and two shards let a     *)
(* table land on either; three IDs cover two schema rows and a table, or *)
(* a schema, a table and an ID wasted by a failed call.  One node,        *)
(* leader of both shards, with two lease values is enough for the races   *)
(* of RegisterNode, which are between calls for the same node.           *)
(***************************************************************************)
EXTENDS Cluster

CONSTANTS t1, t2, s1, tb1, n1, sh1, sh2

MCThreads == {t1, t2}
MCSchemaNames == {s1}
MCTableNames == {tb1}
MCNodeNames == {n1}
MCShards == {sh1, sh2}
MCLeases == {1, 2}
MCTopology == << [shard |-> sh1, node |-> n1, role |-> "leader"],
                 [shard |-> sh2, node |-> n1, role |-> "leader"] >>
MCMaxID == 3
=============================================================================
