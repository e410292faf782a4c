-------------------------- MODULE MCRecordExchange --------------------------
(* Small instances of RecordExchange for TLC.                              *)
EXTENDS RecordExchange, TLC

\* Streams are interchangeable, and so are the requests a cfg names in neither
\* BigRequests nor BigResponses: used by the runs that check no liveness.
Symmetry == Permutations(Streams) \cup Permutations(Requests \ (BigRequests \cup BigResponses))
=============================================================================
