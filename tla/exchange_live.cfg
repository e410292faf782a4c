SPECIFICATION FairSpec
CONSTANTS
    Requests = {r1, r2, r3}
    Streams = {s1}
    ChannelSize = 1
    Parts = 1
    BigRequests = {r1, r2}
    BigResponses = {r3}
    GatewayTimeout = GatewayTimeout
    None = None
PROPERTIES EveryRequestEnds
\* Every request may have ended and every goroutine returned.
CHECK_DEADLOCK FALSE
