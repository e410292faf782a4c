SPECIFICATION Spec
CONSTANTS
    Tunnels = {t1, t2, t3}
    Clients = {c1, c2}
    Names = {a}
    HashIds = {h1, h2, h3}
    OtherSeed = OtherSeed
    None = None
SYMMETRY Symmetry
INVARIANTS DistinctIds
\* Every handler may have ended and every goroutine returned.
CHECK_DEADLOCK FALSE
