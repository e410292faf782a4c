SPECIFICATION Spec
CONSTANTS
    maxRecords = 2
    MaxId = 6
INVARIANTS MaxRecordsKept
