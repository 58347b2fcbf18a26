--------------------------- MODULE HeartbeatProofs ---------------------------
(***************************************************************************)
(* Proof that the forwarder keeps at most one outbound stream live        *)
(* (AtMostOneLiveStream) for every set of peers and every bound.  The     *)
(* count is not inductive; what is: every live stream is the one         *)
(* f.cancel would cancel (LiveIsCancellable).  reconnect cancels f.cancel *)
(* before it opens a stream and then points f.cancel at the new one, and *)
(* every other step only ends streams.                                    *)
(***************************************************************************)
EXTENDS Heartbeat, FiniteSetTheorems, SequenceTheorems, TLAPS

\* The part of TypeOK the proof reads.
StreamsTypeOK ==
    /\ leader \in {"local"} \cup Peers
    /\ streams \in Seq([addr : Peers, state : StreamStates])
    /\ fCancel \in 0..Len(streams)

LiveIsCancellable ==
    \A k \in DOMAIN streams : streams[k].state = "live" => k = fCancel

HInv == StreamsTypeOK /\ LiveIsCancellable
-----------------------------------------------------------------------------
LEMMA InitHInv == Init => HInv
<1> SUFFICES ASSUME Init PROVE HInv
  OBVIOUS
<1>1. streams \in Seq([addr : Peers, state : StreamStates]) /\ Len(streams) = 0
  BY EmptySeq DEF Init
<1>2. DOMAIN streams = 1..0
  BY <1>1, LenProperties
<1>5. (1..0) = {}
  OBVIOUS
<1>6. fCancel = 0
  BY DEF Init
<1>4. DOMAIN streams = {} /\ fCancel \in 0..Len(streams)
  BY <1>1, <1>2, <1>5, <1>6
<1>3. QED
  BY <1>1, <1>4 DEF Init, HInv, StreamsTypeOK, LiveIsCancellable

(***************************************************************************)
(* The steps that neither open, end nor cancel a stream: the handler's   *)
(* Recv, Send, select, bind, process and unbind, and a pump reporting a  *)
(* stream that has already ended.                                         *)
(***************************************************************************)
LEMMA QuietStep ==
  ASSUME HInv, UNCHANGED <<leader, streams, fCancel>>
  PROVE  HInv'
BY DEF HInv, StreamsTypeOK, LiveIsCancellable

(***************************************************************************)
(* A stream that ends (closed by the peer, or by a failed relay) is no   *)
(* longer live, and no other stream changes.                              *)
(***************************************************************************)
LEMMA EndStep ==
  ASSUME HInv, NEW k \in DOMAIN streams,
         streams' = [streams EXCEPT ![k].state = "closed"],
         UNCHANGED <<leader, fCancel>>
  PROVE  HInv'
<1> DEFINE T == [addr : Peers, state : StreamStates]
           e == [streams[k] EXCEPT !.state = "closed"]
<1>1. streams \in Seq(T) /\ k \in 1..Len(streams) /\ streams[k] \in T
  BY LenProperties DEF HInv, StreamsTypeOK
<1>6. e \in T
  BY <1>1 DEF StreamStates
<1>2. /\ streams' \in Seq(T) /\ Len(streams') = Len(streams)
      /\ \A j \in 1..Len(streams) : streams'[j] = IF j = k THEN e ELSE streams[j]
  BY <1>1, <1>6, ExceptSeq
<1>3. StreamsTypeOK'
  BY <1>2 DEF HInv, StreamsTypeOK
<1>4. LiveIsCancellable'
  BY <1>1, <1>2, LenProperties DEF HInv, LiveIsCancellable
<1>5. QED
  BY <1>3, <1>4 DEF HInv

LEMMA LeaderChangePreservesHInv ==
  ASSUME HInv, LeaderChange
  PROVE  HInv'
BY DEF LeaderChange, HInv, StreamsTypeOK, LiveIsCancellable

(***************************************************************************)
(* Cancelling f.cancel's stream leaves no stream live.                    *)
(***************************************************************************)
LEMMA CancelledType ==
  ASSUME HInv
  PROVE  /\ Cancelled(streams, fCancel) \in Seq([addr : Peers, state : StreamStates])
         /\ Len(Cancelled(streams, fCancel)) = Len(streams)
         /\ \A k \in DOMAIN streams : Cancelled(streams, fCancel)[k].state # "live"
<1> DEFINE T == [addr : Peers, state : StreamStates]
<1>1. streams \in Seq(T) /\ DOMAIN streams = 1..Len(streams)
  BY LenProperties DEF HInv, StreamsTypeOK
<1>2. CASE fCancel # 0 /\ streams[fCancel].state = "live"
  <2>5. fCancel \in 1..Len(streams)
    BY <1>2 DEF HInv, StreamsTypeOK
  <2>6. streams[fCancel] \in T
    BY <1>1, <2>5, LenProperties
  <2>1. fCancel \in 1..Len(streams) /\ [streams[fCancel] EXCEPT !.state = "cancelled"] \in T
    BY <2>5, <2>6 DEF StreamStates
  <2>2. Cancelled(streams, fCancel)
          = [streams EXCEPT ![fCancel] = [streams[fCancel] EXCEPT !.state = "cancelled"]]
    BY <1>2 DEF Cancelled
  <2>3. /\ Cancelled(streams, fCancel) \in Seq(T)
        /\ Len(Cancelled(streams, fCancel)) = Len(streams)
        /\ \A j \in 1..Len(streams) :
              Cancelled(streams, fCancel)[j]
                = IF j = fCancel THEN [streams[fCancel] EXCEPT !.state = "cancelled"]
                  ELSE streams[j]
    BY <1>1, <2>1, <2>2, ExceptSeq
  <2>4. QED
    BY <1>1, <2>1, <2>3 DEF HInv, LiveIsCancellable
<1>3. CASE ~(fCancel # 0 /\ streams[fCancel].state = "live")
  BY <1>1, <1>3 DEF Cancelled, HInv, LiveIsCancellable, StreamsTypeOK
<1>4. QED
  BY <1>2, <1>3

(***************************************************************************)
(* maybeInitForwardedStream: a reconnect cancels f.cancel's stream first;*)
(* a stream it opens is the only live one, and f.cancel points at it.    *)
(***************************************************************************)
LEMMA MaybeInitPreservesHInv ==
  ASSUME HInv, MaybeInitForwardedStream
  PROVE  HInv'
<1> DEFINE isLocal == leader = "local"
           addr == IF isLocal THEN "" ELSE leader
           cs == Cancelled(streams, fCancel)
<1>0. UNCHANGED leader
  BY DEF MaybeInitForwardedStream
<1>1. CASE UNCHANGED <<streams, fCancel>>
  BY <1>0, <1>1, QuietStep
<1>2. CASE streams' = cs /\ fCancel' \in 0..Len(streams)
  <2>1. StreamsTypeOK'
    BY <1>0, <1>2, CancelledType DEF HInv, StreamsTypeOK
  <2>2. LiveIsCancellable'
    BY <1>2, CancelledType DEF LiveIsCancellable
  <2>3. QED
    BY <2>1, <2>2 DEF HInv
<1>3. CASE /\ ~isLocal
           /\ streams' = Append(cs, [addr |-> addr, state |-> "live"])
           /\ fCancel' = Len(streams) + 1
  <2>1. leader \in Peers /\ addr = leader
    BY <1>3 DEF HInv, StreamsTypeOK
  <2>2. [addr |-> addr, state |-> "live"] \in [addr : Peers, state : StreamStates]
    BY <2>1 DEF StreamStates
  <2>3. /\ streams' \in Seq([addr : Peers, state : StreamStates])
        /\ Len(streams') = Len(streams) + 1
        /\ \A k \in 1..Len(streams) : streams'[k] = cs[k]
        /\ streams'[Len(streams) + 1].state = "live"
    BY <1>3, <2>2, CancelledType
  <2>4. StreamsTypeOK'
    BY <1>0, <1>3, <2>3 DEF HInv, StreamsTypeOK
  <2>5. LiveIsCancellable'
    <3>1. ASSUME NEW k \in DOMAIN streams', streams'[k].state = "live"
          PROVE  k = fCancel'
      <4>1. k \in 1..Len(streams) + 1
        BY <2>3
      <4>2. k \notin 1..Len(streams)
        BY <2>3, <3>1, CancelledType DEF HInv, StreamsTypeOK
      <4>3. QED
        BY <1>3, <4>1, <4>2 DEF HInv, StreamsTypeOK
    <3>2. QED
      BY <3>1 DEF LiveIsCancellable
  <2>6. QED
    BY <2>4, <2>5 DEF HInv
<1>4. QED
  <2>1. CASE Return("leaderErr") /\ UNCHANGED <<fStream, fCancel, streams, pump, fwdAddr>>
    BY <1>1, <2>1
  <2>2. CASE NeedReconnect(addr)
    <3>1. fCancel \in 0..Len(streams)
      BY DEF HInv, StreamsTypeOK
    <3>2. (IF NeedReconnect(addr) THEN cs ELSE streams) = cs
      BY <2>2
    <3>3. CASE streams' = cs /\ (UNCHANGED fCancel \/ fCancel' = 0)
      BY <3>1, <3>3, <1>2
    <3>4. CASE /\ ~isLocal
               /\ streams' = Append(cs, [addr |-> addr, state |-> "live"])
               /\ fCancel' = Len(streams) + 1
      BY <3>4, <1>3
    <3>5. QED
      BY <2>2, <3>2, <3>3, <3>4, <1>1 DEF MaybeInitForwardedStream
  <2>3. CASE ~NeedReconnect(addr)
    BY <2>3, <1>1 DEF MaybeInitForwardedStream
  <2>4. QED
    BY <2>1, <2>2, <2>3

(***************************************************************************)
(* HInv is an inductive invariant of the heartbeat stream.                *)
(***************************************************************************)
THEOREM HInvInvariant == Spec => []HInv
<1>1. Init => HInv
  BY InitHInv
<1>2. HInv /\ [Next]_vars => HInv'
  <2> SUFFICES ASSUME HInv, [Next]_vars PROVE HInv'
    OBVIOUS
  <2>1. CASE Recv \/ Send \/ Select \/ Bind \/ Process \/ Unbind
    BY <2>1, QuietStep DEF Recv, Send, Select, Bind, Process, Unbind
  <2>2. CASE MaybeInitForwardedStream
    BY <2>2, MaybeInitPreservesHInv
  <2>3. ASSUME NEW k \in DOMAIN streams, PumpRecvFails(k) PROVE HInv'
    BY <2>3, QuietStep DEF PumpRecvFails
  <2>4. ASSUME NEW k \in DOMAIN streams, PumpSendFails(k) \/ PeerCloses(k) PROVE HInv'
    BY <2>4, EndStep DEF PumpSendFails, PeerCloses
  <2>5. CASE LeaderChange
    BY <2>5, LeaderChangePreservesHInv
  <2>6. CASE UNCHANGED vars
    BY <2>6, QuietStep DEF vars
  <2>7. QED
    BY <2>1, <2>2, <2>3, <2>4, <2>5, <2>6 DEF Next, Handler, Handling, Pumps
<1>3. QED
  BY <1>1, <1>2, PTL DEF Spec

(***************************************************************************)
(* For every set of peers and every bound on frames, streams and leader   *)
(* moves, the forwarder of a NodeHeartbeat stream keeps at most one       *)
(* outbound stream live: reconnect (lines 294-317) is only reached after *)
(* maybeInitForwardedStream has cancelled the stream f.cancel belongs to *)
(* (lines 334-337), on the paths where the dial or the open then fails as*)
(* well, and across any moves of the leader.                              *)
(***************************************************************************)
THEOREM AtMostOneLiveStreamHolds == Spec => []AtMostOneLiveStream
<1>1. HInv => AtMostOneLiveStream
  <2> SUFFICES ASSUME HInv
               PROVE  Cardinality({k \in DOMAIN streams : streams[k].state = "live"}) <= 1
    BY DEF AtMostOneLiveStream
  <2>1. {k \in DOMAIN streams : streams[k].state = "live"} \subseteq {fCancel}
    BY DEF HInv, LiveIsCancellable
  <2>2. IsFiniteSet({fCancel}) /\ Cardinality({fCancel}) = 1
    BY FS_Singleton
  <2>3. QED
    BY <2>1, <2>2, FS_Subset
<1>2. QED
  BY <1>1, HInvInvariant, PTL
=============================================================================
