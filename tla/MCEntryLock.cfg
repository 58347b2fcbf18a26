CONSTANTS
    p1 = p1
    p2 = p2
    p3 = p3
    e1 = e1
    e2 = e2
    e3 = e3
    Procs <- MCProcs
    Entries <- MCEntries

SPECIFICATION Spec

INVARIANT MutualExclusion
INVARIANT NoUnlockPanic
