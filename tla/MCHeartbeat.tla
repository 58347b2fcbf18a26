---------------------------- MODULE MCHeartbeat ----------------------------
(***************************************************************************)
(* Model-checking instance of Heartbeat.  Two other instances let the     *)
(* leader move between two remote endpoints as well as to and from this  *)
(* one; three frames forward, reconnect and forward again; three streams *)
(* cover a stream per frame, which f.addr never being set forces; two     *)
(* leadership moves reach remote -> local -> remote.                      *)
(***************************************************************************)
EXTENDS Heartbeat

CONSTANTS pa, pb

MCPeers == {pa, pb}
=============================================================================
