SPECIFICATION Spec
CONSTANTS
    Requests = {r1, r2}
    Streams = {s1}
    ChannelSize = 1
    Parts = 3
    BigRequests = {}
    BigResponses = {r2}
    GatewayTimeout = GatewayTimeout
    None = None
INVARIANTS OversizedDiscarded
\* Every request may have ended and every goroutine returned.
CHECK_DEADLOCK FALSE
