---------------------------- MODULE RecordStore ----------------------------
(***************************************************************************)
(* The client's record store (adt.Records): a map from client ids to       *)
(* records that evicts one record for every record added beyond its limit. *)
(*                                                                         *)
(* A record gets its id, the next of seqId, when its request arrives       *)
(* (NewRecord, EnhanceRecord), but enters the store only when its response *)
(* is there (AddRecord), every request in a goroutine of its own: records  *)
(* are added in any order, and some never are.  Records are modelled by    *)
(* their ids.                                                              *)
(***************************************************************************)
EXTENDS Naturals, FiniteSets

CONSTANTS
    maxRecords, \* Records.maxRecords, 0 for no limit
    MaxId       \* bound: the ids that are handed out

ASSUME BoundsAssumption == maxRecords \in Nat /\ MaxId \in Nat

VARIABLES
    seqId,          \* the last id handed out
    pending,        \* ids of the records whose response is awaited
    records,        \* the ids in Records.records
    lastDeleted,    \* Records.lastDeleted
    missed          \* history: ids whose turn to be evicted came while they
                    \* were not in the store

vars == <<seqId, pending, records, lastDeleted, missed>>

Ids == 1..MaxId

\* Every variable has its type; an id handed out is in at most one place.
TypeOK ==
    /\ seqId \in 0..MaxId
    /\ pending \subseteq 1..seqId
    /\ records \subseteq 1..seqId
    /\ pending \cap records = {}
    /\ lastDeleted \in Nat
    /\ missed \subseteq 1..lastDeleted

Init ==
    /\ seqId = 0
    /\ pending = {}
    /\ records = {}
    /\ lastDeleted = 0
    /\ missed = {}

\* Mutant: the id handed out is the one before seqId was advanced.
NewRecordOld ==
    /\ seqId < MaxId
    /\ seqId' = seqId + 1
    /\ pending' = pending \cup {seqId}
    /\ UNCHANGED <<records, lastDeleted, missed>>

\* A request arrives: from the tunnel, from a replay or, standalone, over HTTP.
NewRecord ==
    /\ seqId < MaxId
    /\ seqId' = seqId + 1
    /\ pending' = pending \cup {seqId + 1}
    /\ UNCHANGED <<records, lastDeleted, missed>>

\* The goroutine ends without a record: the forwarded-to header of a replay
\* does not parse, or a panic is caught by catchAllErrors.
Abandon(id) ==
    /\ id \in pending
    /\ pending' = pending \ {id}
    /\ UNCHANGED <<seqId, records, lastDeleted, missed>>

\* Mutants: the limit is off by one, either way.
OverflowsLate(recs) == maxRecords > 0 /\ Cardinality(recs) > maxRecords + 1
OverflowsEarly(recs) == maxRecords > 0 /\ Cardinality(recs) >= maxRecords

Overflows(recs) == maxRecords > 0 /\ Cardinality(recs) > maxRecords

\* The id whose turn it is to be evicted.
Evicted == lastDeleted + 1

\* Mutant: lastDeleted is advanced after the delete instead of before.
AddRecordDeletesFirst(id) ==
    /\ id \in pending
    /\ pending' = pending \ {id}
    /\ LET added == records \cup {id} IN
        \/ /\ ~Overflows(added)
           /\ records' = added
           /\ UNCHANGED <<lastDeleted, missed>>
        \/ /\ Overflows(added)
           /\ records' = added \ {lastDeleted}
           /\ lastDeleted' = Evicted
           /\ UNCHANGED missed
    /\ UNCHANGED seqId

AddRecord(id) ==
    /\ id \in pending
    /\ pending' = pending \ {id}
    /\ LET added == records \cup {id} IN
        \/ /\ ~Overflows(added)
           /\ records' = added
           /\ UNCHANGED <<lastDeleted, missed>>
        \/ /\ Overflows(added)
           /\ records' = added \ {Evicted}
           /\ lastDeleted' = Evicted
           /\ missed' = IF Evicted \in added THEN missed ELSE missed \cup {Evicted}
    /\ UNCHANGED seqId

\* The sniffer's clear button; lastDeleted stays where it is.
RemoveAll ==
    /\ records' = {}
    /\ UNCHANGED <<seqId, pending, lastDeleted, missed>>

Next ==
    \/ NewRecord
    \/ \E id \in pending : Abandon(id) \/ AddRecord(id)
    \/ RemoveAll

Spec == Init /\ [][Next]_vars

-----------------------------------------------------------------------------
\* The store outgrows its limit by at most one record for every id whose turn
\* came while its record was not there: still awaited, abandoned or cleared.
BoundWithMisses ==
    maxRecords > 0 => Cardinality(records) <= maxRecords + Cardinality(missed)

\* A record older than the last one evicted is still stored only because it
\* came after its turn; no later AddRecord ever evicts it.
EscapeesMissed == records \cap 1..lastDeleted \subseteq missed

\* A record leaves the store only by RemoveAll or because the store is full,
\* and then one at a time and the oldest one, those that escaped apart.
EvictsOldestWhenFull ==
    [][records' # {} =>
          \/ records \subseteq records'
          \/ /\ maxRecords > 0 /\ Cardinality(records) >= maxRecords
             /\ \E id \in records : /\ records \ {id} \subseteq records'
                                    /\ \A other \in records : other < id => other \in missed]_vars

\* docs/client.md, -records: "Max records to store".
MaxRecordsKept == maxRecords > 0 => Cardinality(records) <= maxRecords
=============================================================================
