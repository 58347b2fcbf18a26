---------------------------- MODULE MCEntryLock ----------------------------
(***************************************************************************)
(* Model-checking instance of EntryLock: three procedures contending for  *)
(* three shard entries, so that overlapping, disjoint and empty lock sets *)
(* all occur, and a procedure can hold two entries another one wants.     *)
(***************************************************************************)
EXTENDS EntryLock

CONSTANTS p1, p2, p3, e1, e2, e3

MCProcs == {p1, p2, p3}
MCEntries == {e1, e2, e3}
=============================================================================
