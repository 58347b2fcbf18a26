---------------------------- MODULE CodecProofs ----------------------------
(***************************************************************************)
(* Proof that the save and load steps of Codec keep ConvertersRoundTrip,  *)
(* for every value in memory and in storage.  The property speaks of a   *)
(* Load while this server is the last writer, so the proof needs that    *)
(* storage then holds exactly ToPB of what was saved (SavedInKV); the    *)
(* rest is what the converters of types.go compute on each value.         *)
(***************************************************************************)
EXTENDS Codec, TLAPS

\* While this server wrote storage last, storage holds what it saved.
SavedInKV == writer = "self" => kv = ToPB(savedFrom)

IInv == TypeOK /\ SavedInKV

\* ToPB maps what memory holds to what storage holds.
LEMMA ToPBType ==
  ASSUME NEW x \in GoValues
  PROVE  ToPB(x) \in PBValues
BY DEF GoValues, GoClusterStates, GoTopologyTypes, GoShardRoles, GoShardStatuses, GoNodeStates,
       PBValues, ToPB, ClusterStateToPB, TopologyTypeToPB, ShardRoleToPB,
       ShardStatusToPB, NodeStateToPB

\* FromPB maps what storage holds to what memory holds.
LEMMA FromPBType ==
  ASSUME NEW p \in PBValues
  PROVE  FromPB(p) \in GoValues
BY DEF GoValues, GoClusterStates, GoTopologyTypes, GoShardRoles, GoShardStatuses, GoNodeStates,
       PBValues, FromPB, ClusterStatePB, TopologyTypePB, ShardRolePB,
       ShardStatusPB, NodeStatePB, ClusterStateEmpty, ClusterStateStable,
       ClusterStatePrepare, ShardRoleLeader, ShardRoleFollower, ShardStatusUnknown,
       ShardStatusReady, ShardStatusPartialOpen, NodeStateUnknown, NodeStateOnline,
       NodeStateOffline

(***************************************************************************)
(* Each from-protobuf switch undoes its to-protobuf switch on what memory *)
(* holds, except Unknown shard and node states, which come back as Ready  *)
(* and Offline, and the zero values, which come back as Empty, static and *)
(* Follower.                                                               *)
(***************************************************************************)
LEMMA GoRoundTrip ==
  ASSUME NEW x \in GoValues
  PROVE  FromPB(ToPB(x)) = Expected(x)
<1> USE DEF ClusterStateEmpty, ClusterStateStable, ClusterStatePrepare, ShardRoleLeader,
            ShardRoleFollower, ShardStatusUnknown, ShardStatusReady, ShardStatusPartialOpen,
            NodeStateUnknown, NodeStateOnline, NodeStateOffline
<1>1. ClusterStatePB(ClusterStateToPB(x.clusterState))
        = IF x.clusterState = 0 THEN ClusterStateEmpty ELSE x.clusterState
  BY DEF GoValues, GoClusterStates, ClusterStatePB, ClusterStateToPB
<1>2. TopologyTypePB(TopologyTypeToPB(x.topology))
        = IF x.topology = "" THEN "static" ELSE x.topology
  BY DEF GoValues, GoTopologyTypes, TopologyTypePB, TopologyTypeToPB
<1>3. ShardRolePB(ShardRoleToPB(x.role)) = IF x.role = 0 THEN ShardRoleFollower ELSE x.role
  BY DEF GoValues, GoShardRoles, ShardRolePB, ShardRoleToPB
<1>4. ShardStatusPB(ShardStatusToPB(x.shardStatus))
        = IF x.shardStatus = ShardStatusUnknown THEN ShardStatusReady ELSE x.shardStatus
  BY DEF GoValues, GoShardStatuses, ShardStatusPB, ShardStatusToPB
<1>5. NodeStatePB(NodeStateToPB(x.nodeState))
        = IF x.nodeState = NodeStateUnknown THEN NodeStateOffline ELSE x.nodeState
  BY DEF GoValues, GoNodeStates, NodeStatePB, NodeStateToPB
<1>6. QED
  BY <1>1, <1>2, <1>3, <1>4, <1>5 DEF ToPB, FromPB, Expected

(***************************************************************************)
(* Each to-protobuf switch undoes its from-protobuf switch on what storage *)
(* holds, except the AWAITING cluster states and the nil status.          *)
(***************************************************************************)
LEMMA PBRoundTrip ==
  ASSUME NEW p \in PBValues,
         p.clusterState \notin {"AWAITING_OPEN", "AWAITING_CLOSE"},
         p.shardStatus # "nil"
  PROVE  ToPB(FromPB(p)) = p
<1> USE DEF ClusterStateEmpty, ClusterStateStable, ClusterStatePrepare, ShardRoleLeader,
            ShardRoleFollower, ShardStatusUnknown, ShardStatusReady, ShardStatusPartialOpen,
            NodeStateUnknown, NodeStateOnline, NodeStateOffline
<1>1. ClusterStateToPB(ClusterStatePB(p.clusterState)) = p.clusterState
  BY DEF PBValues, ClusterStatePB, ClusterStateToPB
<1>2. TopologyTypeToPB(TopologyTypePB(p.topology)) = p.topology
  BY DEF PBValues, TopologyTypePB, TopologyTypeToPB
<1>3. ShardRoleToPB(ShardRolePB(p.role)) = p.role
  BY DEF PBValues, ShardRolePB, ShardRoleToPB
<1>4. ShardStatusToPB(ShardStatusPB(p.shardStatus)) = p.shardStatus
  BY DEF PBValues, ShardStatusPB, ShardStatusToPB
<1>5. NodeStateToPB(NodeStatePB(p.nodeState)) = p.nodeState
  BY DEF PBValues, NodeStatePB, NodeStateToPB
<1>6. p = [clusterState |-> p.clusterState, topology |-> p.topology, role |-> p.role,
           shardStatus |-> p.shardStatus, nodeState |-> p.nodeState]
  BY DEF PBValues
<1>7. QED
  BY <1>1, <1>2, <1>3, <1>4, <1>5, <1>6 DEF ToPB, FromPB

\* Memory starts as what storage holds, saved by this server.
LEMMA InitIInv == Init => IInv
BY ToPBType DEF Init, IInv, TypeOK, SavedInKV

(***************************************************************************)
(* A save makes this server the last writer of ToPB(mem); another writer *)
(* clears that; updates and loads change memory only, into what memory   *)
(* can hold.                                                               *)
(***************************************************************************)
LEMMA NextIInv == IInv /\ [Next]_vars => IInv'
<1> SUFFICES ASSUME IInv, [Next]_vars PROVE IInv'
  OBVIOUS
<1>1. CASE Update
  <2>1. mem' \in GoValues
    BY <1>1 DEF Update, IInv, TypeOK, GoValues, GoClusterStates, GoTopologyTypes, GoShardRoles, GoShardStatuses, GoNodeStates
  <2>2. QED
    BY <1>1, <2>1 DEF Update, IInv, TypeOK, SavedInKV
<1>2. CASE Save
  BY <1>2, ToPBType DEF Save, IInv, TypeOK, SavedInKV
<1>3. CASE Load
  BY <1>3, FromPBType DEF Load, IInv, TypeOK, SavedInKV
<1>4. CASE OtherWriter
  <2>1. NoSave \in GoValues
    <3>1. [clusterState |-> ClusterStateEmpty, topology |-> "unknown", role |-> ShardRoleLeader,
           shardStatus |-> ShardStatusUnknown, nodeState |-> NodeStateUnknown] \in GoValues
      BY DEF GoValues, GoClusterStates, GoTopologyTypes, GoShardRoles, GoShardStatuses, GoNodeStates
    <3>2. QED
      BY <3>1 DEF NoSave
  <2>2. QED
    BY <1>4, <2>1 DEF OtherWriter, IInv, TypeOK, SavedInKV
<1>5. CASE UNCHANGED vars
  BY <1>5 DEF vars, IInv, TypeOK, SavedInKV
<1>6. QED
  BY <1>1, <1>2, <1>3, <1>4, <1>5 DEF Next

THEOREM IInvInvariant == Spec => []IInv
BY InitIInv, NextIInv, PTL DEF Spec

(***************************************************************************)
(* In every state, any step is a round trip: loading what this server     *)
(* saved gives back the saved value up to the Unknown collapses, and      *)
(* saving what was loaded from another writer writes back what it stored. *)
(***************************************************************************)
LEMMA RoundTripFromIInv == IInv => RoundTrip
<1> SUFFICES ASSUME IInv PROVE RoundTrip
  OBVIOUS
<1>1. Load /\ writer = "self" => mem' = Expected(savedFrom)
  BY GoRoundTrip DEF Load, IInv, TypeOK, SavedInKV
<1>2. (/\ Save /\ writer = "other" /\ mem = FromPB(kv)
       /\ kv.clusterState \notin {"AWAITING_OPEN", "AWAITING_CLOSE"}
       /\ kv.shardStatus # "nil")
      => kv' = kv
  BY PBRoundTrip DEF Save, IInv, TypeOK
<1>3. QED
  BY <1>1, <1>2 DEF RoundTrip

(***************************************************************************)
(* For every value in memory and in storage, and however saves, loads,    *)
(* updates and other writers interleave, the enum converters of types.go *)
(* (lines 266-553) undo each other: no state, topology, role or status   *)
(* turns into another one through a save and a load.                     *)
(***************************************************************************)
THEOREM ConvertersRoundTripHolds == Spec => ConvertersRoundTrip
BY IInvInvariant, RoundTripFromIInv, PTL DEF ConvertersRoundTrip
=============================================================================
