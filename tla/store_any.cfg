SPECIFICATION Spec
CONSTANTS
    maxRecords = 3
    MaxId = 8
INVARIANTS TypeOK BoundWithMisses EscapeesMissed
PROPERTIES EvictsOldestWhenFull
