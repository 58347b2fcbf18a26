----------------------------- MODULE Forward -------------------------------
(***************************************************************************)
(* Requests on a group of coordinator instances, forwarded to the leader  *)
(* (src/server/grpcservice/service.go): the unary gRPC handlers (lines    *)
(* 465-581, with getForwardedMetaClient and getForwardedAddr, 373-420)    *)
(* and the HTTP handlers behind wrap (1375-1399).                         *)
(*                                                                         *)
(* Every handler does the same thing: ask the member who leads; if it is  *)
(* another instance, relay the request to it, where the same handler runs *)
(* again; if it is this instance, run the operation through the cluster  *)
(* manager.  A relayed call is synchronous, so a request is a chain of   *)
(* instances whose last one is working on it.  Leadership is a KV lease  *)
(* (member, not under src/) that may move while requests are in flight.  *)
(***************************************************************************)
EXTENDS Naturals, Sequences

CONSTANTS
    Instances,        \* coordinator instances
    Requests,         \* client requests
    Handler,          \* Handler[r]: the endpoint request r calls
    MaxLeaseChanges   \* moves of the leader lease in a behaviour

\* The endpoints, by transport and by what they do.
GrpcHandlers == {"NodeHeartbeat", "AllocSchemaID", "GetTablesOfShards",
                 "RouteTables", "GetNodes", "CreateTable", "DropTable"}
HttpHandlers == {"split", "transferLeader", "createCluster", "getShardTables", "health"}
Writes == {"NodeHeartbeat", "AllocSchemaID", "CreateTable", "DropTable",
           "split", "transferLeader", "createCluster"}
\* The handlers whose body is "TODO: impl later" (lines 531-541).
Stubs == {"CreateTable", "DropTable"}
\* Routes registered with wrap(f, false, ...): /health (line 723) stands for
\* them all, /leader and the etcd routes (745, 750-755) alike.
LocalOnly == {"health"}

NoLeader == "none"

ASSUME ForwardAssumption ==
    /\ Instances # {} /\ NoLeader \notin Instances
    /\ Handler \in [Requests -> GrpcHandlers \cup HttpHandlers]
    /\ MaxLeaseChanges \in Nat

\* A chain longer than this has a hop that did not follow the lease: each
\* hop after the second needs the lease to have moved.
MaxHops == MaxLeaseChanges + 2

VARIABLES
    lease,      \* the instance holding the leader lease, or NoLeader
    changes,    \* lease moves so far
    st,         \* st[r]: new, resolve (at the chain's last hop), exec, done
    path,       \* path[r]: the instances the request has passed, in order
    answer,     \* answer[r]: what the client got: none, ok, err or empty
    execAt      \* execAt[r]: the instance that ran the operation, or NoLeader

vars == <<lease, changes, st, path, answer, execAt>>

TypeOK ==
    /\ lease \in Instances \cup {NoLeader}
    /\ changes \in 0..MaxLeaseChanges
    /\ st \in [Requests -> {"new", "resolve", "exec", "done"}]
    /\ path \in [Requests -> Seq(Instances)]
    /\ answer \in [Requests -> {"none", "ok", "err", "empty"}]
    /\ execAt \in [Requests -> Instances \cup {NoLeader}]

Init ==
    /\ lease \in Instances
    /\ changes = 0
    /\ st = [r \in Requests |-> "new"]
    /\ path = [r \in Requests |-> <<>>]
    /\ answer = [r \in Requests |-> "none"]
    /\ execAt = [r \in Requests |-> NoLeader]

\* Where request r is being handled.
At(r) == path[r][Len(path[r])]

\* The request is answered with a and the chain unwinds: every hop returns
\* the answer it got (line 472; respondForward, lines 1315-1332).
Answer(r, a) ==
    /\ st' = [st EXCEPT ![r] = "done"]
    /\ answer' = [answer EXCEPT ![r] = a]

\* A client sends request r to instance i.
Arrive(r, i) ==
    /\ st[r] = "new"
    /\ st' = [st EXCEPT ![r] = "resolve"]
    /\ path' = [path EXCEPT ![r] = <<i>>]
    /\ UNCHANGED <<lease, changes, answer, execAt>>

(***************************************************************************)
(* getForwardedAddr (lines 411-420) as getForwardedMetaClient uses it     *)
(* (373-387): GetLeader fails (no leader holds the lease, or the call     *)
(* fails), says this instance leads, or names the leader, whose client   *)
(* is then taken from the pool or dialed (397-409), which may fail.       *)
(***************************************************************************)
\* GetLeader's answer ignored: the request goes to the lease holder even
\* when that is this instance.
ResolveIgnoringIsLocal(r) ==
    LET i == At(r) IN
    /\ st[r] = "resolve"
    /\ Handler[r] \notin Stubs \cup LocalOnly
    /\ lease # NoLeader
    /\ Len(path[r]) < MaxHops
    /\ path' = [path EXCEPT ![r] = Append(@, lease)]
    /\ UNCHANGED <<lease, changes, st, answer, execAt>>

Resolve(r) ==
    LET i == At(r) IN
    /\ st[r] = "resolve"
    /\ Handler[r] \notin Stubs \cup LocalOnly
    /\ \/ /\ Answer(r, "err")
          /\ UNCHANGED path
       \/ /\ lease = i
          /\ st' = [st EXCEPT ![r] = "exec"]
          /\ UNCHANGED <<path, answer>>
       \/ /\ lease \notin {i, NoLeader}
          /\ path' = [path EXCEPT ![r] = Append(@, lease)]
          /\ UNCHANGED <<st, answer>>
    /\ UNCHANGED <<lease, changes, execAt>>

\* The stubs return nil, nil (lines 531-541): no header, no error, nothing
\* done, and nothing forwarded.
Stub(r) ==
    /\ st[r] = "resolve"
    /\ Handler[r] \in Stubs
    /\ Answer(r, "empty")
    /\ UNCHANGED <<lease, changes, path, execAt>>

\* A route registered without forwarding runs where it arrives.
RunLocally(r) ==
    /\ st[r] = "resolve"
    /\ Handler[r] \in LocalOnly
    /\ st' = [st EXCEPT ![r] = "exec"]
    /\ UNCHANGED <<lease, changes, path, answer, execAt>>

(***************************************************************************)
(* The operation runs on the cluster manager of the last hop and ends    *)
(* with an error header or a response (e.g. lines 474-483 and 643-657).  *)
(* A relayed answer may still be lost on the way back: the relayed call  *)
(* fails, or respondForward cannot read the leader's body.               *)
(***************************************************************************)
Execute(r) ==
    /\ st[r] = "exec"
    /\ execAt' = [execAt EXCEPT ![r] = At(r)]
    /\ \E a \in {"ok", "err"} :
         IF Len(path[r]) > 1 THEN \E b \in {a, "err"} : Answer(r, b)
                             ELSE Answer(r, a)
    /\ UNCHANGED <<lease, changes, path>>

\* The lease expires or moves to another instance.
LeaseChange ==
    /\ changes < MaxLeaseChanges
    /\ changes' = changes + 1
    /\ lease' \in (Instances \cup {NoLeader}) \ {lease}
    /\ UNCHANGED <<st, path, answer, execAt>>

Next ==
    \/ \E r \in Requests :
         \/ \E i \in Instances : Arrive(r, i)
         \/ Resolve(r) \/ Stub(r) \/ RunLocally(r) \/ Execute(r)
    \/ LeaseChange

Spec == Init /\ [][Next]_vars

\* Each request is served by a goroutine that keeps running; nothing is
\* assumed about clients sending requests or about the lease.
FairSpec ==
    /\ Spec
    /\ \A r \in Requests : WF_vars(Resolve(r) \/ Stub(r) \/ RunLocally(r) \/ Execute(r))

-----------------------------------------------------------------------------
(***************************************************************************)
(* Every request that reaches an instance is answered, however the lease *)
(* moves while it is relayed: each hop asks afresh and relays to the      *)
(* instance that leads now, and the leader runs the request itself        *)
(* (getForwardedAddr's IsLocal, line 416).                                *)
(***************************************************************************)
EveryRequestAnswered ==
    \A r \in Requests : st[r] = "resolve" ~> st[r] = "done"

-----------------------------------------------------------------------------
(***************************************************************************)
(* Properties the code violates.                                          *)
(***************************************************************************)

(***************************************************************************)
(* Exactly one instance writes at a time (spec 4.4: "Exactly one          *)
(* coordinator instance is writer at a time, guaranteed by holding a KV   *)
(* lease").  The handlers check leadership once, before the write         *)
(* (line 466), and the write runs after the lease may have moved.         *)
(***************************************************************************)
SingleWriter ==
    \A r, q \in Requests :
        (/\ st[r] = "exec" /\ st[q] = "exec"
         /\ Handler[r] \in Writes /\ Handler[q] \in Writes)
        => At(r) = At(q)

(***************************************************************************)
(* A client told that its request succeeded may rely on it having run: a *)
(* response without an error header means the operation was executed.    *)
(* The CreateTable and DropTable stubs (lines 531-541) answer with an     *)
(* empty response, which reads as code 0, and do nothing.                 *)
(***************************************************************************)
OkMeansExecuted ==
    \A r \in Requests : answer[r] \in {"ok", "empty"} => execAt[r] # NoLeader
=============================================================================
