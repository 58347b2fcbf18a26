CONSTANTS
    pa = pa
    pb = pb
    Peers <- MCPeers
    MaxFrames = 3
    MaxStreams = 3
    MaxLeaderChanges = 2

SPECIFICATION Spec

INVARIANT AtMostOneLiveStream

\* The handler returns once the data node's stream ends; the system then
\* stops, with at most pumps and remote streams left.
CHECK_DEADLOCK FALSE
