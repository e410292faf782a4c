SPECIFICATION MCSpec
CONSTANTS
    Limits <- UpToOne
    Timeouts <- NoneAndOne
    MaxTime = 4
    MaxBreaks = 1
    PERIOD = 1
    WireSize = 1
    MaxErrors = 1
INVARIANTS TypeOK StatusTellsPhase DialsAsOftenAsTold PageFollows CardsCurrent
           OneInterval
PROPERTIES ExpiryNeverExtended Settles
