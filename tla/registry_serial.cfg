SPECIFICATION SerialFairSpec
CONSTANTS
    Tunnels = {t1, t2, t3}
    Clients = {c1}
    Names = {a}
    HashIds = {h1, h2}
    OtherSeed = OtherSeed
    None = None
INVARIANTS RegistryExact ServerStaysUp
PROPERTIES ClosedByOwnTimer DetachedIdFreed
\* Every handler may have ended and every goroutine returned.
CHECK_DEADLOCK FALSE
