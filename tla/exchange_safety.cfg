SPECIFICATION Spec
CONSTANTS
    Requests = {r1, r2}
    Streams = {s1, s2}
    ChannelSize = 1
    Parts = 3
    BigRequests = {}
    BigResponses = {}
    GatewayTimeout = GatewayTimeout
    None = None
SYMMETRY Symmetry
INVARIANTS TypeOK OwnReply WholeReply SignalledOnce DeadStreamTakesOne RecordsAreAwaited
\* Every request may have ended and every goroutine returned.
CHECK_DEADLOCK FALSE
