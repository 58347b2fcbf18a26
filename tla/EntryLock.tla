----------------------------- MODULE EntryLock -----------------------------
(***************************************************************************)
(* The process-wide entry lock of the procedure engine (src/unnamed/       *)
(* part_001, package lock) together with the procedures that use it.       *)
(*                                                                         *)
(* EntryLock keeps a set `entryLocks` of 64-bit entries (shard IDs) behind *)
(* a sync.Mutex.  TryLock(locks) takes all of `locks` or none of them;     *)
(* UnLock(locks) releases them and panics if one of them is not held.      *)
(* Both run entirely under the mutex, so each call is one atomic step.     *)
(*                                                                         *)
(* The slice argument is modelled as a set: both loops of TryLock and of   *)
(* UnLock give the same result for a slice and for the set of its         *)
(* elements, duplicates included.                                          *)
(*                                                                         *)
(* The callers are the procedures (not under src/): each procedure locks   *)
(* the entries it touches before its first step and unlocks exactly those  *)
(* entries when it ends (spec section 4.7, "Entry lock").                  *)
(***************************************************************************)
EXTENDS FiniteSets

CONSTANTS
    Procs,     \* the procedures that may run concurrently
    Entries    \* the entries (shard IDs) they may lock

ASSUME EntryLockAssumption == Procs # {} /\ Entries # {}

VARIABLES
    entryLocks,   \* EntryLock.entryLocks: the set of held entries
    held,         \* held[p]: the entries procedure p locked and has not unlocked
    running,      \* running[p]: p's TryLock returned true and p has not ended
    panicked      \* UnLock hit its "try to unlock nonexistent lock" panic

vars == <<entryLocks, held, running, panicked>>

TypeOK ==
    /\ entryLocks \subseteq Entries
    /\ held \in [Procs -> SUBSET Entries]
    /\ running \in [Procs -> BOOLEAN]
    /\ panicked \in BOOLEAN

Init ==
    /\ entryLocks = {}
    /\ held = [p \in Procs |-> {}]
    /\ running = [p \in Procs |-> FALSE]
    /\ panicked = FALSE

\* Mutant: the first loop is left out, so TryLock takes entries that are
\* already held.
TryLockWithoutCheck(p, locks) ==
    /\ ~panicked
    /\ ~running[p]
    /\ entryLocks' = entryLocks \cup locks
    /\ held' = [held EXCEPT ![p] = locks]
    /\ running' = [running EXCEPT ![p] = TRUE]
    /\ UNCHANGED panicked

(***************************************************************************)
(* TryLock(locks) called by procedure p before it starts.  The first loop  *)
(* returns false as soon as one entry is already present, leaving the set  *)
(* unchanged; otherwise the second loop inserts every entry.               *)
(***************************************************************************)
TryLock(p, locks) ==
    /\ ~panicked
    /\ ~running[p]
    /\ IF locks \cap entryLocks = {}
         THEN /\ entryLocks' = entryLocks \cup locks
              /\ held' = [held EXCEPT ![p] = locks]
              /\ running' = [running EXCEPT ![p] = TRUE]
         ELSE UNCHANGED <<entryLocks, held, running>>
    /\ UNCHANGED panicked

\* Mutant: a procedure's ending path releases its entries but stays
\* marked running, so its deferred UnLock runs a second time.
UnLockTwice(p) ==
    /\ ~panicked
    /\ running[p]
    /\ IF held[p] \subseteq entryLocks
         THEN /\ entryLocks' = entryLocks \ held[p]
              /\ UNCHANGED panicked
         ELSE /\ panicked' = TRUE
              /\ UNCHANGED entryLocks
    /\ UNCHANGED <<held, running>>

(***************************************************************************)
(* UnLock(locks) called by procedure p when it ends, with the entries it   *)
(* locked.  The first loop panics on an entry that is not present; the     *)
(* second deletes every entry.                                             *)
(***************************************************************************)
UnLock(p) ==
    /\ ~panicked
    /\ running[p]
    /\ IF held[p] \subseteq entryLocks
         THEN /\ entryLocks' = entryLocks \ held[p]
              /\ UNCHANGED panicked
         ELSE /\ panicked' = TRUE
              /\ UNCHANGED entryLocks
    /\ held' = [held EXCEPT ![p] = {}]
    /\ running' = [running EXCEPT ![p] = FALSE]

Next ==
    \E p \in Procs :
        \/ \E locks \in SUBSET Entries : TryLock(p, locks)
        \/ UnLock(p)

Spec == Init /\ [][Next]_vars

-----------------------------------------------------------------------------
(***************************************************************************)
(* Mutual exclusion (spec I6, section 5 "Effects on a single shard are     *)
(* serialized by its entry lock"): two procedures that both passed         *)
(* TryLock never hold a common entry.                                      *)
(***************************************************************************)
MutualExclusion ==
    \A p, q \in Procs :
        p # q /\ running[p] /\ running[q] => held[p] \cap held[q] = {}

(***************************************************************************)
(* UnLock's integrity check never fires: whenever a procedure unlocks, all *)
(* of its entries are still in the lock table, i.e. no other procedure's   *)
(* TryLock or UnLock took or released them meanwhile.                      *)
(***************************************************************************)
NoUnlockPanic == ~panicked

(***************************************************************************)
(* The inductive invariant: the lock table is exactly the union of the     *)
(* entries of the running procedures, which are pairwise disjoint.         *)
(***************************************************************************)
LockTableIsUnionOfHeld ==
    entryLocks = UNION {held[p] : p \in {q \in Procs : running[q]}}

IdleHoldsNothing == \A p \in Procs : ~running[p] => held[p] = {}

IInv ==
    /\ TypeOK
    /\ LockTableIsUnionOfHeld
    /\ IdleHoldsNothing
    /\ MutualExclusion
    /\ NoUnlockPanic
=============================================================================
