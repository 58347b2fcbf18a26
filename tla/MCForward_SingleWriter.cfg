CONSTANTS
    i1 = i1
    i2 = i2
    r1 = r1
    r2 = r2
    r3 = r3
    r4 = r4
    Instances <- MCInstances
    Requests <- MCRequests
    Handler <- MCHandler
    MaxLeaseChanges = 2

SPECIFICATION Spec

INVARIANT SingleWriter

\* Once every request is answered and the lease has stopped moving there
\* is nothing left to do.
CHECK_DEADLOCK FALSE
