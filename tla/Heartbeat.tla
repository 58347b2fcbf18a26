----------------------------- MODULE Heartbeat -----------------------------
(***************************************************************************)
(* One NodeHeartbeat stream on one coordinator instance                   *)
(* (src/server/grpcservice/service.go, lines 51-157 and 281-342), with    *)
(* the forwarder that relays it to the leader and the goroutines the      *)
(* forwarder starts.                                                       *)
(*                                                                         *)
(* The handler goroutine receives frames from the data node one at a     *)
(* time.  For each frame it asks who the leader is: if another instance, *)
(* it (re)opens an outbound stream to it and sends the frame there; if    *)
(* itself, it binds the node's stream and processes the frame.  Every     *)
(* outbound stream gets a pump goroutine (forwardRegionHeartbeatRespTo-  *)
(* Client, not under src/, modelled from spec 4.4) that relays the        *)
(* leader's answers and reports the stream's failure on errCh, a channel *)
(* of capacity 1 that the handler polls after each forwarded send.       *)
(*                                                                         *)
(* Leadership (GetLeader, not under src/) is the environment: it may      *)
(* move at any time and the call may fail.  The remote leader may close  *)
(* a stream at any time.  Frames carry no data the properties need: a     *)
(* frame is only counted.                                                 *)
(***************************************************************************)
EXTENDS Naturals, Sequences, FiniteSets

CONSTANTS
    Peers,              \* endpoints of the other coordinator instances
    MaxFrames,          \* frames the data node sends on this stream
    MaxStreams,         \* outbound streams the forwarder may open
    MaxLeaderChanges    \* leadership moves during one stream

ASSUME HeartbeatAssumption ==
    /\ Peers # {} /\ "local" \notin Peers /\ "" \notin Peers
    /\ MaxFrames \in Nat /\ MaxStreams \in Nat /\ MaxLeaderChanges \in Nat

ErrChCap == 1      \* make(chan error, 1) (line 96)

VARIABLES
    leader,       \* what GetLeader would answer: "local" or a peer endpoint
    changes,      \* leadership moves so far
    frames,       \* frames the node has sent
    hpc,          \* where the handler goroutine is
    fStream,      \* f.stream: index of the current outbound stream, 0 for nil
    fCancel,      \* f.cancel: index of the stream it cancels, 0 for nil
    fAddr,        \* f.addr
    streams,      \* outbound streams: [addr, state] with state live/cancelled/closed
    pump,         \* pump[k]: the goroutine relaying stream k, running or exited
    errCh,        \* f.errCh: indices of the streams whose failure it holds
    bound,        \* binder.bound
    registry,     \* the handler's binding of this node: "me" or "none"
    fwdAddr,      \* the forwardedAddr of the current frame (history)
    exit          \* why the handler returned, "none" while it runs

vars == <<leader, changes, frames, hpc, fStream, fCancel, fAddr, streams, pump,
          errCh, bound, registry, fwdAddr, exit>>

Labels == {"recv", "forward", "send", "select", "bind", "process", "unbind", "exited"}
Exits == {"none", "eof", "recvErr", "leaderErr", "reconnectErr", "sendErr",
          "ownCancel", "peerClosed"}
StreamStates == {"live", "cancelled", "closed"}

TypeOK ==
    /\ leader \in {"local"} \cup Peers
    /\ changes \in 0..MaxLeaderChanges
    /\ frames \in 0..MaxFrames
    /\ hpc \in Labels
    /\ fStream \in 0..Len(streams) /\ fCancel \in 0..Len(streams)
    /\ fAddr \in {""} \cup Peers
    /\ streams \in Seq([addr : Peers, state : StreamStates])
    /\ Len(streams) <= MaxStreams
    /\ pump \in [1..Len(streams) -> {"running", "exited"}]
    /\ errCh \in Seq(1..Len(streams)) /\ Len(errCh) <= ErrChCap
    /\ bound \in BOOLEAN
    /\ registry \in {"me", "none"}
    /\ fwdAddr \in {""} \cup Peers
    /\ exit \in Exits

Init ==
    /\ leader \in {"local"} \cup Peers
    /\ changes = 0
    /\ frames = 0
    /\ hpc = "recv"
    /\ fStream = 0 /\ fCancel = 0 /\ fAddr = ""
    /\ streams = <<>>
    /\ pump = <<>>
    /\ errCh = <<>>
    /\ bound = FALSE
    /\ registry = "none"
    /\ fwdAddr = ""
    /\ exit = "none"

\* The handler returns with reason r; its deferred unbind runs next.
Return(r) == hpc' = "unbind" /\ exit' = r

\* A cancel that does not reach the stream (the f.cancel() call left out).
CancelledNothing(ss, k) == ss

\* cancel() of stream k: its context is done, the stream ends.
Cancelled(ss, k) ==
    IF k # 0 /\ ss[k].state = "live" THEN [ss EXCEPT ![k].state = "cancelled"] ELSE ss

-----------------------------------------------------------------------------
(***************************************************************************)
(* The handler loop (lines 111-156).                                       *)
(***************************************************************************)
\* heartbeatSrv.Recv(): a frame, io.EOF, or a transport error.
Recv ==
    /\ hpc = "recv"
    /\ \/ /\ frames < MaxFrames
          /\ frames' = frames + 1
          /\ hpc' = "forward"
          /\ UNCHANGED exit
       \/ Return("eof") /\ UNCHANGED frames
       \/ Return("recvErr") /\ UNCHANGED frames
    /\ UNCHANGED <<leader, changes, fStream, fCancel, fAddr, streams, pump, errCh,
                   bound, registry, fwdAddr>>

\* f.needReconnect (lines 290-292).
NeedReconnect(addr) == fStream = 0 \/ addr # fAddr

(***************************************************************************)
(* f.maybeInitForwardedStream (lines 319-342) with reconnect (294-317):   *)
(* ask for the leader; if a reconnect is needed cancel the previous       *)
(* stream and, for a remote leader, dial it and open a new stream with a  *)
(* context of its own (context.Background()) and a new pump goroutine.   *)
(* Dialing or opening may fail, which ends the handler.                   *)
(***************************************************************************)
MaybeInitForwardedStream ==
    /\ hpc = "forward"
    /\ \/ /\ Return("leaderErr")
          /\ UNCHANGED <<fStream, fCancel, streams, pump, fwdAddr>>
       \/ LET isLocal == leader = "local"
              addr == IF isLocal THEN "" ELSE leader
              afterCancel == IF NeedReconnect(addr) THEN Cancelled(streams, fCancel) ELSE streams
          IN
          /\ fwdAddr' = addr
          /\ \/ /\ ~NeedReconnect(addr) \/ isLocal
                /\ streams' = afterCancel
                /\ hpc' = IF fStream # 0 THEN "send" ELSE "bind"
                /\ UNCHANGED <<fStream, fCancel, pump, exit>>
             \/ /\ NeedReconnect(addr) /\ ~isLocal
                /\ Len(streams) < MaxStreams
                /\ streams' = Append(afterCancel, [addr |-> addr, state |-> "live"])
                /\ fStream' = Len(streams) + 1
                /\ fCancel' = Len(streams) + 1
                /\ pump' = Append(pump, "running")
                /\ hpc' = "send"
                /\ UNCHANGED exit
             \/ /\ NeedReconnect(addr) /\ ~isLocal
                /\ Return("reconnectErr")
                /\ streams' = afterCancel
                /\ \/ UNCHANGED <<fStream, fCancel>>       \* dial failed
                   \/ fStream' = 0 /\ fCancel' = 0         \* opening the stream failed
                /\ UNCHANGED pump
    /\ UNCHANGED <<leader, changes, frames, fAddr, errCh, bound, registry>>

\* f.stream.Send(req): fails once the stream has ended; gRPC may also
\* accept a frame on a stream whose end it has not noticed yet.
Send ==
    /\ hpc = "send"
    /\ \/ hpc' = "select" /\ UNCHANGED exit
       \/ streams[fStream].state # "live" /\ Return("sendErr")
    /\ UNCHANGED <<leader, changes, frames, fStream, fCancel, fAddr, streams, pump,
                   errCh, bound, registry, fwdAddr>>

\* The non-blocking select on f.errCh (lines 133-138).
Select ==
    /\ hpc = "select"
    /\ IF errCh # <<>>
         THEN /\ errCh' = Tail(errCh)
              /\ Return(IF streams[Head(errCh)].state = "cancelled"
                          THEN "ownCancel" ELSE "peerClosed")
         ELSE /\ hpc' = "recv"
              /\ UNCHANGED <<errCh, exit>>
    /\ UNCHANGED <<leader, changes, frames, fStream, fCancel, fAddr, streams, pump,
                   bound, registry, fwdAddr>>

\* binder.bindIfNot (lines 61-75); a failed bind is only logged.
Bind ==
    /\ hpc = "bind"
    /\ hpc' = "process"
    /\ \/ bound /\ UNCHANGED <<bound, registry>>
       \/ ~bound /\ bound' = TRUE /\ registry' = "me"
       \/ ~bound /\ UNCHANGED <<bound, registry>>
    /\ UNCHANGED <<leader, changes, frames, fStream, fCancel, fAddr, streams, pump,
                   errCh, fwdAddr, exit>>

\* s.h.ProcessHeartbeat under opTimeout; its error is only logged.
Process ==
    /\ hpc = "process"
    /\ hpc' = "recv"
    /\ UNCHANGED <<leader, changes, frames, fStream, fCancel, fAddr, streams, pump,
                   errCh, bound, registry, fwdAddr, exit>>

\* The deferred binder.unbind (lines 77-89, 104-108); a failed unbind is
\* only logged.  The deferred cancel() of ctx reaches no outbound stream.
Unbind ==
    /\ hpc = "unbind"
    /\ hpc' = "exited"
    /\ \/ ~bound /\ UNCHANGED registry
       \/ bound /\ registry' = "none"
       \/ bound /\ UNCHANGED registry
    /\ UNCHANGED <<leader, changes, frames, fStream, fCancel, fAddr, streams, pump,
                   errCh, bound, fwdAddr, exit>>

-----------------------------------------------------------------------------
(***************************************************************************)
(* The pump goroutine of stream k and the environment.                     *)
(***************************************************************************)
\* The stream has ended: Recv fails and the pump reports it on errCh,
\* blocking while the channel is full.
PumpRecvFails(k) ==
    /\ pump[k] = "running"
    /\ streams[k].state # "live"
    /\ Len(errCh) < ErrChCap
    /\ errCh' = Append(errCh, k)
    /\ pump' = [pump EXCEPT ![k] = "exited"]
    /\ UNCHANGED <<leader, changes, frames, hpc, fStream, fCancel, fAddr, streams,
                   bound, registry, fwdAddr, exit>>

\* The leader answers on a live stream after the node's stream is gone:
\* relaying the answer fails and the pump reports it on errCh.
PumpSendFails(k) ==
    /\ pump[k] = "running"
    /\ streams[k].state = "live"
    /\ hpc = "exited"
    /\ Len(errCh) < ErrChCap
    /\ errCh' = Append(errCh, k)
    /\ pump' = [pump EXCEPT ![k] = "exited"]
    /\ streams' = [streams EXCEPT ![k].state = "closed"]
    /\ UNCHANGED <<leader, changes, frames, hpc, fStream, fCancel, fAddr,
                   bound, registry, fwdAddr, exit>>

\* The remote instance closes stream k (it crashed or stepped down).
PeerCloses(k) ==
    /\ streams[k].state = "live"
    /\ streams' = [streams EXCEPT ![k].state = "closed"]
    /\ UNCHANGED <<leader, changes, frames, hpc, fStream, fCancel, fAddr, pump,
                   errCh, bound, registry, fwdAddr, exit>>

\* Leadership moves.
LeaderChange ==
    /\ changes < MaxLeaderChanges
    /\ changes' = changes + 1
    /\ leader' \in ({"local"} \cup Peers) \ {leader}
    /\ UNCHANGED <<frames, hpc, fStream, fCancel, fAddr, streams, pump, errCh,
                   bound, registry, fwdAddr, exit>>

\* The handler's steps after a frame or an end of stream has arrived.
Handling == MaybeInitForwardedStream \/ Send \/ Select \/ Bind \/ Process \/ Unbind

Handler == Recv \/ Handling

Pumps == \E k \in DOMAIN streams : PumpRecvFails(k) \/ PumpSendFails(k)

Next ==
    \/ Handler
    \/ Pumps
    \/ \E k \in DOMAIN streams : PeerCloses(k)
    \/ LeaderChange

Spec == Init /\ [][Next]_vars

-----------------------------------------------------------------------------
(***************************************************************************)
(* Forwarding opens at most one outbound stream at a time: before         *)
(* reconnect opens a stream, maybeInitForwardedStream cancels the one it  *)
(* opened before (lines 334-337), on every path, including the dial and   *)
(* open failures and the leader moving between frames.                    *)
(***************************************************************************)
AtMostOneLiveStream ==
    Cardinality({k \in DOMAIN streams : streams[k].state = "live"}) <= 1

-----------------------------------------------------------------------------
(***************************************************************************)
(* Properties the code violates.                                          *)
(***************************************************************************)

(***************************************************************************)
(* A frame is forwarded only while another instance leads, and only to   *)
(* it (spec 4.4: "forwarded to the current leader").  When leadership     *)
(* comes back to this instance, maybeInitForwardedStream cancels nothing *)
(* (needReconnect is false while f.stream is set) and the handler still   *)
(* sends on the old stream (line 130).                                    *)
(***************************************************************************)
ForwardsToLeader ==
    hpc = "send" => fwdAddr # "" /\ streams[fStream].addr = fwdAddr

(***************************************************************************)
(* The handler ends the node's stream only when a peer ends it (spec     *)
(* 4.4: "closing both on either peer's EOF"), never because of a stream  *)
(* it cancelled itself.  f.addr is never assigned (lines 285, 291), so    *)
(* every forwarded frame reconnects and cancels the previous stream,     *)
(* whose pump reports the cancellation on errCh.                          *)
(***************************************************************************)
NoSelfInflictedExit == exit # "ownCancel"

(***************************************************************************)
(* Once the handler has returned, every outbound stream is eventually    *)
(* closed and every pump has ended (spec 9: cancellation of the           *)
(* connection cancels both halves).  reconnect opens the stream on       *)
(* context.Background() (line 304), the handler's deferred cancel reaches *)
(* none, and a pump blocks on the full errCh.                             *)
(***************************************************************************)
NoLeakAfterExit ==
    hpc = "exited" ~>
        \A k \in DOMAIN streams : streams[k].state # "live" /\ pump[k] = "exited"
=============================================================================
