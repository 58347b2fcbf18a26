-------------------------- MODULE EntryLockProofs --------------------------
(***************************************************************************)
(* Proofs about EntryLock for every set of procedures and entries.        *)
(* The invariant checked by TLC, MutualExclusion, is not inductive by      *)
(* itself: a TryLock only checks the lock table, so the proof needs that   *)
(* the table is exactly the union of what the running procedures hold     *)
(* (LockTableIsUnionOfHeld) and that idle procedures hold nothing.         *)
(***************************************************************************)
EXTENDS EntryLock, TLAPS

(***************************************************************************)
(* Type correctness of the lock table and of the callers' bookkeeping.    *)
(***************************************************************************)
THEOREM TypeCorrect == Spec => []TypeOK
<1>1. Init => TypeOK
  BY DEF Init, TypeOK
<1>2. TypeOK /\ [Next]_vars => TypeOK'
  <2> SUFFICES ASSUME TypeOK, [Next]_vars PROVE TypeOK'
    OBVIOUS
  <2>1. ASSUME NEW p \in Procs, NEW locks \in SUBSET Entries, TryLock(p, locks)
        PROVE TypeOK'
    BY <2>1 DEF TryLock, TypeOK
  <2>2. ASSUME NEW p \in Procs, UnLock(p) PROVE TypeOK'
    BY <2>2 DEF UnLock, TypeOK
  <2>3. CASE UNCHANGED vars
    BY <2>3 DEF vars, TypeOK
  <2>4. QED
    BY <2>1, <2>2, <2>3 DEF Next
<1>3. QED
  BY <1>1, <1>2, PTL DEF Spec

(***************************************************************************)
(* A successful TryLock keeps the invariant: the new entries were absent   *)
(* from the table, hence disjoint from what every running procedure holds. *)
(***************************************************************************)
LEMMA TryLockPreservesIInv ==
  ASSUME IInv, NEW p \in Procs, NEW locks \in SUBSET Entries, TryLock(p, locks)
  PROVE  IInv'
<1> USE DEF IInv, TypeOK, TryLock
<1>1. CASE locks \cap entryLocks = {}
  <2>1. TypeOK'
    BY <1>1
  <2>2. LockTableIsUnionOfHeld'
    <3>1. {q \in Procs : running'[q]} = {q \in Procs : running[q]} \cup {p}
      BY <1>1
    <3>2. held[p] = {}
      BY <1>1 DEF IdleHoldsNothing
    <3>3. \A q \in Procs : q # p => held'[q] = held[q]
      BY <1>1
    <3>4. QED
      BY <1>1, <3>1, <3>2, <3>3 DEF LockTableIsUnionOfHeld
  <2>3. IdleHoldsNothing'
    BY <1>1 DEF IdleHoldsNothing
  <2>4. MutualExclusion'
    <3>1. \A q \in Procs : running[q] => held[q] \subseteq entryLocks
      BY DEF LockTableIsUnionOfHeld
    <3>2. QED
      BY <1>1, <3>1 DEF MutualExclusion
  <2>5. NoUnlockPanic'
    BY <1>1 DEF NoUnlockPanic
  <2>6. QED
    BY <2>1, <2>2, <2>3, <2>4, <2>5
<1>2. CASE locks \cap entryLocks # {}
  BY <1>2 DEF LockTableIsUnionOfHeld, IdleHoldsNothing, MutualExclusion, NoUnlockPanic
<1>3. QED
  BY <1>1, <1>2

(***************************************************************************)
(* An UnLock keeps the invariant: its entries are in the table, so the     *)
(* panic branch is not taken, and they belong to no other running          *)
(* procedure, so removing them leaves exactly the others' entries.         *)
(***************************************************************************)
LEMMA UnLockPreservesIInv ==
  ASSUME IInv, NEW p \in Procs, UnLock(p)
  PROVE  IInv'
<1> USE DEF IInv, TypeOK, UnLock
<1>1. held[p] \subseteq entryLocks
  BY DEF LockTableIsUnionOfHeld
<1>2. entryLocks' = entryLocks \ held[p] /\ panicked' = panicked
  BY <1>1
<1>3. {q \in Procs : running'[q]} = {q \in Procs : running[q]} \ {p}
  OBVIOUS
<1>4. \A q \in Procs : q # p /\ running[q] => held[q] \cap held[p] = {}
  BY DEF MutualExclusion
<1>5. LockTableIsUnionOfHeld'
  BY <1>2, <1>3, <1>4 DEF LockTableIsUnionOfHeld
<1>6. IdleHoldsNothing'
  BY DEF IdleHoldsNothing
<1>7. MutualExclusion'
  BY DEF MutualExclusion
<1>8. NoUnlockPanic'
  BY <1>2 DEF NoUnlockPanic
<1>9. QED
  BY <1>2, <1>5, <1>6, <1>7, <1>8

(***************************************************************************)
(* IInv is an inductive invariant of the specification.                    *)
(***************************************************************************)
THEOREM IInvInvariant == Spec => []IInv
<1>1. Init => IInv
  BY DEF Init, IInv, TypeOK, LockTableIsUnionOfHeld, IdleHoldsNothing,
         MutualExclusion, NoUnlockPanic
<1>2. IInv /\ [Next]_vars => IInv'
  <2> SUFFICES ASSUME IInv, [Next]_vars PROVE IInv'
    OBVIOUS
  <2>1. ASSUME NEW p \in Procs, NEW locks \in SUBSET Entries, TryLock(p, locks)
        PROVE IInv'
    BY <2>1, TryLockPreservesIInv
  <2>2. ASSUME NEW p \in Procs, UnLock(p) PROVE IInv'
    BY <2>2, UnLockPreservesIInv
  <2>3. CASE UNCHANGED vars
    BY <2>3 DEF vars, IInv, TypeOK, LockTableIsUnionOfHeld, IdleHoldsNothing,
               MutualExclusion, NoUnlockPanic
  <2>4. QED
    BY <2>1, <2>2, <2>3 DEF Next
<1>3. QED
  BY <1>1, <1>2, PTL DEF Spec

(***************************************************************************)
(* Entry-lock mutual exclusion (spec I6): no two running procedures ever   *)
(* hold a common entry, for any number of procedures and entries.          *)
(***************************************************************************)
THEOREM MutualExclusionHolds == Spec => []MutualExclusion
<1>1. IInv => MutualExclusion
  BY DEF IInv
<1>2. QED
  BY <1>1, IInvInvariant, PTL

(***************************************************************************)
(* UnLock's integrity panic never fires, for any number of procedures and *)
(* entries: when a procedure unlocks, every entry it locked is still in   *)
(* the lock table under it, whatever TryLock and UnLock calls of other    *)
(* procedures ran in between.                                              *)
(***************************************************************************)
THEOREM NoUnlockPanicHolds == Spec => []NoUnlockPanic
<1>1. IInv => NoUnlockPanic
  BY DEF IInv
<1>2. QED
  BY <1>1, IInvInvariant, PTL
=============================================================================
