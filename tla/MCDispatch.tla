---------------------------- MODULE MCDispatch -----------------------------
(***************************************************************************)
(* Model-checking instance of Dispatch.  Two callers are enough for the   *)
(* race between Load and Store on one address; two addresses check that *)
(* one address's connection never serves another; four calls let a      *)
(* caller come back to an address after the race.                         *)
(***************************************************************************)
EXTENDS Dispatch

CONSTANTS c1, c2, a1, a2

MCCallers == {c1, c2}
MCAddrs == {a1, a2}
=============================================================================
