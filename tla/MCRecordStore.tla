--------------------------- MODULE MCRecordStore ---------------------------
(* Small instances of RecordStore for TLC.                                 *)
EXTENDS RecordStore
=============================================================================
