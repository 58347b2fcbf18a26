----------------------------- MODULE Dispatch ------------------------------
(***************************************************************************)
(* The event dispatch client (src/unnamed/part_000, lines 515-642): the   *)
(* calls that procedures make to data nodes, each through a gRPC          *)
(* connection taken from a sync.Map keyed by the node's address.          *)
(*                                                                         *)
(* getGrpcClient loads the address's connection and, when there is none,  *)
(* dials one and stores it: Load, dial and Store are three steps, and     *)
(* other goroutines may run between them.  The six dispatch methods have  *)
(* the same control (get the client, call, check the error, check the     *)
(* response code), so one call stands for all of them.  A connection is   *)
(* a number: the position of its dial in the history of dials.            *)
(***************************************************************************)
EXTENDS Naturals, Sequences, FiniteSets

CONSTANTS
    Callers,    \* goroutines of the procedures that dispatch events
    Addrs,      \* data node addresses
    MaxCalls    \* dispatch calls made in a behaviour

\* A program runs finitely many goroutines.
ASSUME DispatchAssumption ==
    /\ Callers # {} /\ IsFiniteSet(Callers) /\ Addrs # {}
    /\ MaxCalls \in Nat

VARIABLES
    conns,      \* d.conns: a function from the addresses it holds to connections
    dialed,     \* dialed[k]: the address connection k was dialed to
    calls,      \* dispatch calls made so far
    pc,         \* pc[c]: where caller c is
    loc,        \* loc[c]: the address of c's call and the connection it holds
    result      \* result[c]: what c's last call returned

vars == <<conns, dialed, calls, pc, loc, result>>

Results == {"none", "ok", "dialErr", "rpcErr", "dispatchErr"}

\* The nil *grpc.ClientConn.
NilConn == 0

TypeOK ==
    /\ DOMAIN conns \subseteq Addrs
    /\ \A a \in DOMAIN conns : conns[a] \in 0..Len(dialed)
    /\ dialed \in Seq(Addrs)
    /\ calls \in 0..MaxCalls
    /\ pc \in [Callers -> {"idle", "load", "dial", "store", "rpc"}]
    /\ loc \in [Callers -> [addr : Addrs, cc : 0..Len(dialed)]]
    /\ result \in [Callers -> Results]

\* NewDispatchImpl: an empty sync.Map.
Init ==
    /\ conns = [a \in {} |-> NilConn]
    /\ dialed = <<>>
    /\ calls = 0
    /\ pc = [c \in Callers |-> "idle"]
    /\ loc = [c \in Callers |-> [addr |-> CHOOSE a \in Addrs : TRUE, cc |-> NilConn]]
    /\ result = [c \in Callers |-> "none"]

\* A procedure step calls one of the dispatch methods for address a.
Call(c, a) ==
    /\ pc[c] = "idle"
    /\ calls < MaxCalls
    /\ calls' = calls + 1
    /\ pc' = [pc EXCEPT ![c] = "load"]
    /\ loc' = [loc EXCEPT ![c] = [addr |-> a, cc |-> NilConn]]
    /\ UNCHANGED <<conns, dialed, result>>

\* d.conns.Load(addr): a hit goes on to the call, a miss to the dial.
LoadConn(c) ==
    LET a == loc[c].addr IN
    /\ pc[c] = "load"
    /\ IF a \in DOMAIN conns
         THEN /\ pc' = [pc EXCEPT ![c] = "rpc"]
              /\ loc' = [loc EXCEPT ![c].cc = conns[a]]
         ELSE /\ pc' = [pc EXCEPT ![c] = "dial"]
              /\ UNCHANGED loc
    /\ UNCHANGED <<conns, dialed, calls, result>>

\* A dial whose error does not return: the nil connection goes on.
DialIgnoringError(c) ==
    /\ pc[c] = "dial"
    /\ dialed' = Append(dialed, loc[c].addr)
    /\ pc' = [pc EXCEPT ![c] = "store"]
    /\ \/ loc' = [loc EXCEPT ![c].cc = Len(dialed) + 1]
       \/ loc' = [loc EXCEPT ![c].cc = NilConn]
    /\ UNCHANGED <<conns, calls, result>>

\* service.GetClientConn(ctx, addr): a new connection, or an error that
\* the call returns.
Dial(c) ==
    /\ pc[c] = "dial"
    /\ \/ /\ dialed' = Append(dialed, loc[c].addr)
          /\ loc' = [loc EXCEPT ![c].cc = Len(dialed) + 1]
          /\ pc' = [pc EXCEPT ![c] = "store"]
          /\ UNCHANGED result
       \/ /\ pc' = [pc EXCEPT ![c] = "idle"]
          /\ result' = [result EXCEPT ![c] = "dialErr"]
          /\ UNCHANGED <<dialed, loc>>
    /\ UNCHANGED <<conns, calls>>

\* A Store that does not reach the map.
StoreForgetting(c) ==
    /\ pc[c] = "store"
    /\ pc' = [pc EXCEPT ![c] = "rpc"]
    /\ UNCHANGED <<conns, dialed, calls, loc, result>>

\* d.conns.Store(addr, cc): overwrites whatever another caller stored
\* since this caller's Load.
Store(c) ==
    LET a == loc[c].addr IN
    /\ pc[c] = "store"
    /\ conns' = [x \in DOMAIN conns \cup {a} |-> IF x = a THEN loc[c].cc ELSE conns[x]]
    /\ pc' = [pc EXCEPT ![c] = "rpc"]
    /\ UNCHANGED <<dialed, calls, loc, result>>

\* The RPC on the connection: a transport error, a non-zero response code
\* (ErrDispatch) or success.  Nothing is retried here (spec 4.6).
Rpc(c) ==
    /\ pc[c] = "rpc"
    /\ pc' = [pc EXCEPT ![c] = "idle"]
    /\ \E r \in {"ok", "rpcErr", "dispatchErr"} : result' = [result EXCEPT ![c] = r]
    /\ UNCHANGED <<conns, dialed, calls, loc>>

Next ==
    \E c \in Callers :
        \/ \E a \in Addrs : Call(c, a)
        \/ LoadConn(c) \/ Dial(c) \/ Store(c) \/ Rpc(c)

Spec == Init /\ [][Next]_vars

-----------------------------------------------------------------------------
(***************************************************************************)
(* A call goes out only on a connection dialed to the address it was made *)
(* for, whether the connection came from the map or from its own dial:   *)
(* getGrpcClient never hands out a nil connection or another address's  *)
(* one, even when callers race on the same address (lines 623-634).       *)
(***************************************************************************)
CallsUseTheirAddrsConn ==
    \A c \in Callers :
        pc[c] = "rpc" => loc[c].cc \in 1..Len(dialed) /\ dialed[loc[c].cc] = loc[c].addr

(***************************************************************************)
(* The connections to an address never outnumber the callers: an address  *)
(* is dialed again only by callers whose Load ran before the first Store, *)
(* because the map keeps what is stored (lines 624, 631).                 *)
(***************************************************************************)
DialsBoundedByCallers ==
    \A a \in Addrs : Cardinality({k \in 1..Len(dialed) : dialed[k] = a}) <= Cardinality(Callers)

(***************************************************************************)
(* Every connection the client dialed is still reachable: held by the     *)
(* map or by a call in progress, so it can be used again or closed.  Two  *)
(* callers that both miss on an address both dial it, and the second     *)
(* Store drops the first connection, which nobody closes (the Load then   *)
(* Store of lines 624-631 instead of LoadOrStore).                        *)
(***************************************************************************)
NoLeakedConn ==
    \A k \in 1..Len(dialed) :
        \/ \E a \in DOMAIN conns : conns[a] = k
        \/ \E c \in Callers : pc[c] \in {"store", "rpc"} /\ loc[c].cc = k
=============================================================================
