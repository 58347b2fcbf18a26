----------------------------- MODULE MCForward -----------------------------
(***************************************************************************)
(* Model-checking instance of Forward.  Two instances are enough for a   *)
(* request relayed while the lease moves back; four requests cover a      *)
(* gRPC write, an HTTP write, a stub and a local route; two lease moves *)
(* let the lease leave an instance and come back, or lapse.             *)
(***************************************************************************)
EXTENDS Forward, TLC

CONSTANTS i1, i2, r1, r2, r3, r4

MCInstances == {i1, i2}
MCRequests == {r1, r2, r3, r4}
MCHandler == (r1 :> "AllocSchemaID") @@ (r2 :> "split") @@ (r3 :> "DropTable") @@ (r4 :> "health")
=============================================================================
