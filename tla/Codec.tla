------------------------------ MODULE Codec --------------------------------
(***************************************************************************)
(* The conversions between the server's enums and their protobuf forms    *)
(* (src/server/storage/types.go, lines 266-574), as the metadata goes to  *)
(* storage or to a data node and comes back.                              *)
(*                                                                         *)
(* A Go value is a record of the enum fields the metadata carries: the    *)
(* cluster's state and topology type, a shard's role and status and a     *)
(* node's state, each an integer of its iota block (or a string for the  *)
(* topology type).  A protobuf value has the enum names of the wire.     *)
(* The other fields are copied unchanged by the converters and are left  *)
(* out.                                                                    *)
(***************************************************************************)
EXTENDS Naturals

\* The constants of the iota blocks (lines 40-64).
ClusterStateEmpty == 1    ClusterStateStable == 2    ClusterStatePrepare == 3
ShardRoleLeader == 1      ShardRoleFollower == 2
ShardStatusUnknown == 0   ShardStatusReady == 1      ShardStatusPartialOpen == 2
NodeStateUnknown == 0     NodeStateOnline == 1       NodeStateOffline == 2

\* What the server can hold in memory: the named constants and, for a
\* field never set, Go's zero value (0 for the iota+1 blocks, "" for the
\* topology type), which no constant names.
GoClusterStates == {0, ClusterStateEmpty, ClusterStateStable, ClusterStatePrepare}
GoTopologyTypes == {"", "unknown", "static", "dynamic"}
GoShardRoles == {0, ShardRoleLeader, ShardRoleFollower}
GoShardStatuses == {ShardStatusUnknown, ShardStatusReady, ShardStatusPartialOpen}
GoNodeStates == {NodeStateUnknown, NodeStateOnline, NodeStateOffline}

GoValues ==
    [clusterState : GoClusterStates, topology : GoTopologyTypes, role : GoShardRoles,
     shardStatus : GoShardStatuses, nodeState : GoNodeStates]

\* What the wire and storage can hold: every name of the protobuf enums
\* and the nil status pointer.
PBValues ==
    [clusterState : {"EMPTY", "STABLE", "PREPARE_REBALANCE", "AWAITING_OPEN", "AWAITING_CLOSE"},
     topology     : {"UNKNOWN", "STATIC", "DYNAMIC"},
     role         : {"LEADER", "FOLLOWER"},
     shardStatus  : {"Ready", "PartialOpen", "nil"},
     nodeState    : {"ONLINE", "OFFLINE"}]

-----------------------------------------------------------------------------
(***************************************************************************)
(* To protobuf.                                                            *)
(***************************************************************************)
\* A switch that lost its PREPARE case.
ClusterStateToPBNoPrepare(s) == IF s = ClusterStateStable THEN "STABLE" ELSE "EMPTY"

\* convertClusterStateToPB (lines 338-348).
ClusterStateToPB(s) ==
    CASE s = ClusterStateStable  -> "STABLE"
      [] s = ClusterStatePrepare -> "PREPARE_REBALANCE"
      [] OTHER                   -> "EMPTY"

\* convertTopologyTypeToPB (lines 314-324).
TopologyTypeToPB(t) ==
    CASE t = "unknown" -> "UNKNOWN"
      [] t = "dynamic" -> "DYNAMIC"
      [] OTHER         -> "STATIC"

\* ConvertShardRoleToPB (lines 363-371).
ShardRoleToPB(r) == IF r = ShardRoleLeader THEN "LEADER" ELSE "FOLLOWER"

\* ConvertShardStatusToPB (lines 386-397): Unknown goes out as Ready.
ShardStatusToPB(s) == IF s = ShardStatusPartialOpen THEN "PartialOpen" ELSE "Ready"

\* convertNodeStateToPB (lines 533-543): Unknown goes out as OFFLINE.
NodeStateToPB(s) == IF s = NodeStateOnline THEN "ONLINE" ELSE "OFFLINE"

ToPB(x) ==
    [clusterState |-> ClusterStateToPB(x.clusterState),
     topology     |-> TopologyTypeToPB(x.topology),
     role         |-> ShardRoleToPB(x.role),
     shardStatus  |-> ShardStatusToPB(x.shardStatus),
     nodeState    |-> NodeStateToPB(x.nodeState)]

-----------------------------------------------------------------------------
(***************************************************************************)
(* From protobuf.                                                          *)
(***************************************************************************)
\* convertClusterStatePB (lines 350-361): the two AWAITING states read as
\* empty; any other value panics, which no name of the enum is.
ClusterStatePB(s) ==
    CASE s = "STABLE"            -> ClusterStateStable
      [] s = "PREPARE_REBALANCE" -> ClusterStatePrepare
      [] OTHER                   -> ClusterStateEmpty

\* convertTopologyTypePB (lines 326-336).
TopologyTypePB(t) ==
    CASE t = "UNKNOWN" -> "unknown"
      [] t = "DYNAMIC" -> "dynamic"
      [] OTHER         -> "static"

\* ConvertShardRolePB (lines 266-274).
ShardRolePB(r) == IF r = "LEADER" THEN ShardRoleLeader ELSE ShardRoleFollower

\* ConvertShardStatusPB (lines 373-384): a nil status reads as Ready.
ShardStatusPB(s) == IF s = "PartialOpen" THEN ShardStatusPartialOpen ELSE ShardStatusReady

\* convertNodeStatePB (lines 545-553).
NodeStatePB(s) == IF s = "ONLINE" THEN NodeStateOnline ELSE NodeStateOffline

FromPB(p) ==
    [clusterState |-> ClusterStatePB(p.clusterState),
     topology     |-> TopologyTypePB(p.topology),
     role         |-> ShardRolePB(p.role),
     shardStatus  |-> ShardStatusPB(p.shardStatus),
     nodeState    |-> NodeStatePB(p.nodeState)]

-----------------------------------------------------------------------------
(***************************************************************************)
(* Metadata saved and loaded.  The leader changes a value in memory,      *)
(* saves it, and loads what storage holds (after a restart, or on a new   *)
(* leader); storage may also hold what another writer put there, a data  *)
(* node's report or a newer server version.                               *)
(***************************************************************************)
VARIABLES
    mem,        \* the Go value in memory
    kv,         \* the protobuf value in storage
    savedFrom,  \* the Go value this server last saved, while kv holds it
    writer      \* who wrote kv last: "self" or "other"

vars == <<mem, kv, savedFrom, writer>>

TypeOK ==
    /\ mem \in GoValues
    /\ kv \in PBValues
    /\ savedFrom \in GoValues
    /\ writer \in {"self", "other"}

Init ==
    /\ mem \in GoValues
    /\ kv = ToPB(mem)
    /\ savedFrom = mem
    /\ writer = "self"

\* The metadata changes in memory, one field at a time: the cluster's state
\* or topology type, a shard's role or status, a node's state.
Update ==
    /\ \/ \E v \in GoClusterStates : mem' = [mem EXCEPT !.clusterState = v]
       \/ \E v \in GoTopologyTypes : mem' = [mem EXCEPT !.topology = v]
       \/ \E v \in GoShardRoles : mem' = [mem EXCEPT !.role = v]
       \/ \E v \in GoShardStatuses : mem' = [mem EXCEPT !.shardStatus = v]
       \/ \E v \in GoNodeStates : mem' = [mem EXCEPT !.nodeState = v]
    /\ UNCHANGED <<kv, savedFrom, writer>>

\* A save goes through ToPB.
Save ==
    /\ kv' = ToPB(mem)
    /\ savedFrom' = mem
    /\ writer' = "self"
    /\ UNCHANGED mem

\* A load goes through FromPB.
Load ==
    /\ mem' = FromPB(kv)
    /\ UNCHANGED <<kv, savedFrom, writer>>

\* savedFrom means nothing once another writer has written kv.
NoSave == CHOOSE x \in GoValues : TRUE

\* Another writer stores any protobuf value.
OtherWriter ==
    /\ kv' \in PBValues
    /\ writer' = "other"
    /\ savedFrom' = NoSave
    /\ UNCHANGED mem

Next == Update \/ Save \/ Load \/ OtherWriter

Spec == Init /\ [][Next]_vars

-----------------------------------------------------------------------------
(***************************************************************************)
(* What a round trip should give back: the value itself, except the two   *)
(* Unknown states, which the wire cannot carry (spec 9, open question b,  *)
(* and the FIXME of line 393) and which come back as Ready and Offline,   *)
(* and the zero values, which the switches' default cases send out as     *)
(* EMPTY, STATIC and FOLLOWER and which come back as those.              *)
(***************************************************************************)
Expected(x) ==
    [clusterState |-> IF x.clusterState = 0 THEN ClusterStateEmpty ELSE x.clusterState,
     topology     |-> IF x.topology = "" THEN "static" ELSE x.topology,
     role         |-> IF x.role = 0 THEN ShardRoleFollower ELSE x.role,
     shardStatus  |-> IF x.shardStatus = ShardStatusUnknown THEN ShardStatusReady ELSE x.shardStatus,
     nodeState    |-> IF x.nodeState = NodeStateUnknown THEN NodeStateOffline ELSE x.nodeState]

(***************************************************************************)
(* The converters undo each other on what each side can hold.  Loading   *)
(* what this server saved gives back what it had, up to the two          *)
(* documented Unknown collapses; and saving what was loaded from another  *)
(* writer writes back what it stored, except the states this version     *)
(* cannot hold (the AWAITING cluster states, written back as EMPTY, and   *)
(* the nil status, written back as Ready).  No state, topology, role or   *)
(* status turns into another one through the switches of lines 266-553.  *)
(***************************************************************************)
RoundTrip ==
    /\ Load /\ writer = "self" => mem' = Expected(savedFrom)
    /\ (/\ Save /\ writer = "other" /\ mem = FromPB(kv)
        /\ kv.clusterState \notin {"AWAITING_OPEN", "AWAITING_CLOSE"}
        /\ kv.shardStatus # "nil")
       => kv' = kv

\* Every save and load step of every behaviour is such a round trip.
ConvertersRoundTrip == [][RoundTrip]_vars
=============================================================================
