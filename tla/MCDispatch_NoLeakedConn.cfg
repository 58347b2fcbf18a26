CONSTANTS
    c1 = c1
    c2 = c2
    a1 = a1
    a2 = a2
    Callers <- MCCallers
    Addrs <- MCAddrs
    MaxCalls = 4

SPECIFICATION Spec

INVARIANT NoLeakedConn


\* Once the procedures stop dispatching, every caller is idle and the
\* client has nothing left to do.
CHECK_DEADLOCK FALSE
