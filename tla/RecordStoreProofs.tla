------------------------- MODULE RecordStoreProofs -------------------------
(* Theorems about RecordStore, for every limit and every number of ids.    *)
EXTENDS RecordStore, FiniteSetTheorems, TLAPS

LEMMA TypeStep == TypeOK /\ [Next]_vars => TypeOK'
<1> SUFFICES ASSUME TypeOK, [Next]_vars PROVE TypeOK'
  OBVIOUS
<1> USE BoundsAssumption DEF TypeOK
<1>1. CASE NewRecord
  BY <1>1 DEF NewRecord
<1>2. ASSUME NEW id \in pending, Abandon(id) PROVE TypeOK'
  BY <1>2 DEF Abandon
<1>3. ASSUME NEW id \in pending, AddRecord(id) PROVE TypeOK'
  <2>1. /\ seqId' = seqId /\ pending' = pending \ {id}
        /\ records' \subseteq records \cup {id}
    BY <1>3 DEF AddRecord
  <2>2. lastDeleted' \in Nat /\ missed' \subseteq 1..lastDeleted'
    <3>1. CASE lastDeleted' = lastDeleted /\ missed' = missed
      BY <3>1
    <3>2. CASE lastDeleted' = Evicted /\ missed' \subseteq missed \cup {Evicted}
      BY <3>2 DEF Evicted
    <3> QED
      BY <3>1, <3>2, <1>3 DEF AddRecord
  <2> QED
    BY <2>1, <2>2
<1>4. CASE RemoveAll
  BY <1>4 DEF RemoveAll
<1>5. CASE UNCHANGED vars
  BY <1>5 DEF vars
<1> QED
  BY <1>1, <1>2, <1>3, <1>4, <1>5 DEF Next

\* The store's variables always have their types, and a record awaited is not
\* stored.
THEOREM TypeCorrect == Spec => []TypeOK
<1>1. Init => TypeOK
  BY BoundsAssumption DEF Init, TypeOK
<1> QED
  BY <1>1, TypeStep, PTL DEF Spec

\* The ids of a store, and those whose turn was missed, are finitely many.
LEMMA FiniteStore ==
    ASSUME TypeOK PROVE IsFiniteSet(records) /\ IsFiniteSet(missed)
<1>1. IsFiniteSet(1..seqId) /\ IsFiniteSet(1..lastDeleted)
  BY BoundsAssumption, FS_Interval DEF TypeOK
<1> QED
  BY <1>1, FS_Subset DEF TypeOK

\* Adding an element adds at most one to a cardinality, and one if it is new.
LEMMA AddOne ==
    ASSUME NEW S, IsFiniteSet(S), NEW x
    PROVE  /\ IsFiniteSet(S \cup {x})
           /\ Cardinality(S) \in Nat
           /\ Cardinality(S \cup {x}) \in Nat
           /\ Cardinality(S \cup {x}) <= Cardinality(S) + 1
           /\ x \notin S => Cardinality(S \cup {x}) = Cardinality(S) + 1
<1>1. /\ IsFiniteSet(S \cup {x})
      /\ Cardinality(S \cup {x}) = IF x \in S THEN Cardinality(S) ELSE Cardinality(S) + 1
  BY FS_AddElement
<1>2. Cardinality(S) \in Nat /\ Cardinality(S \cup {x}) \in Nat
  BY <1>1, FS_CardinalityType
<1> QED
  BY <1>1, <1>2

BoundInv == TypeOK /\ BoundWithMisses

LEMMA BoundStep == BoundInv /\ [Next]_vars => BoundInv'
<1> SUFFICES ASSUME BoundInv, [Next]_vars PROVE BoundWithMisses'
  BY TypeStep DEF BoundInv
<1> USE BoundsAssumption DEF BoundInv
<1>f. /\ IsFiniteSet(records) /\ IsFiniteSet(missed)
      /\ Cardinality(records) \in Nat /\ Cardinality(missed) \in Nat
  BY FiniteStore, FS_CardinalityType
<1>1. CASE NewRecord
  BY <1>1 DEF NewRecord, BoundWithMisses
<1>2. ASSUME NEW id \in pending, Abandon(id) PROVE BoundWithMisses'
  BY <1>2 DEF Abandon, BoundWithMisses
<1>3. ASSUME NEW id \in pending, AddRecord(id) PROVE BoundWithMisses'
  <2> DEFINE added == records \cup {id}
  <2>f. /\ IsFiniteSet(added) /\ Cardinality(added) \in Nat
        /\ Cardinality(added) <= Cardinality(records) + 1
    BY <1>f, AddOne
  <2>1. CASE ~Overflows(added)
    BY <2>1, <2>f, <1>f, <1>3 DEF AddRecord, Overflows, BoundWithMisses
  <2>2. CASE Overflows(added) /\ Evicted \in added
    <3>1. Cardinality(added \ {Evicted}) = Cardinality(added) - 1
      BY <2>2, <2>f, FS_RemoveElement
    <3>2. records' = added \ {Evicted} /\ missed' = missed
      BY <2>2, <1>3 DEF AddRecord
    <3> QED
      BY <3>1, <3>2, <2>f, <1>f DEF BoundWithMisses
  <2>3. CASE Overflows(added) /\ Evicted \notin added
    <3>1. records' = added /\ missed' = missed \cup {Evicted}
      BY <2>3, <1>3 DEF AddRecord
    <3>2. Evicted \notin missed
      BY DEF TypeOK, Evicted
    <3>3. Cardinality(missed') = Cardinality(missed) + 1
      BY <3>1, <3>2, <1>f, AddOne
    <3> QED
      BY <3>1, <3>3, <2>f, <1>f DEF BoundWithMisses
  <2> QED
    BY <2>1, <2>2, <2>3
<1>4. CASE RemoveAll
  <2>1. Cardinality(records') = 0
    BY <1>4, FS_EmptySet DEF RemoveAll
  <2> QED
    BY <2>1, <1>4, <1>f DEF RemoveAll, BoundWithMisses
<1>5. CASE UNCHANGED vars
  BY <1>5 DEF vars, BoundWithMisses
<1> QED
  BY <1>1, <1>2, <1>3, <1>4, <1>5 DEF Next

\* Whatever the limit, the store outgrows it by no more than the number of
\* evictions that missed their record.
THEOREM BoundHolds == Spec => []BoundWithMisses
<1>1. Init => BoundInv
  <2> SUFFICES ASSUME Init PROVE BoundInv
    OBVIOUS
  <2>1. Cardinality(records) = 0 /\ Cardinality(missed) = 0
    BY FS_EmptySet DEF Init
  <2> QED
    BY <2>1, BoundsAssumption DEF Init, BoundInv, TypeOK, BoundWithMisses
<1>2. BoundInv => BoundWithMisses
  BY DEF BoundInv
<1> QED
  BY <1>1, <1>2, BoundStep, PTL DEF Spec

\* Removing an element that is there takes one off the cardinality.
LEMMA RemoveOne ==
    ASSUME NEW S, IsFiniteSet(S), NEW x \in S
    PROVE  Cardinality(S) \in Nat /\ Cardinality(S \ {x}) = Cardinality(S) - 1
  BY FS_RemoveElement, FS_CardinalityType

\* Evictions never get ahead of the ids handed out: each one comes with an id
\* that left pending, so no new id is already at or below lastDeleted.  And an
\* id at or below it that can still be stored has missed its turn.
EscapeesInv ==
    /\ TypeOK
    /\ lastDeleted + Cardinality(pending) <= seqId
    /\ (records \cup pending) \cap 1..lastDeleted \subseteq missed

LEMMA FinitePending ==
    ASSUME TypeOK PROVE IsFiniteSet(pending) /\ Cardinality(pending) \in Nat
<1>1. IsFiniteSet(1..seqId)
  BY BoundsAssumption, FS_Interval DEF TypeOK
<1> QED
  BY <1>1, FS_Subset, FS_CardinalityType DEF TypeOK

LEMMA EscapeesAdd ==
    ASSUME EscapeesInv, NEW id \in pending, AddRecord(id)
    PROVE  /\ lastDeleted' + Cardinality(pending') <= seqId'
           /\ (records' \cup pending') \cap 1..lastDeleted' \subseteq missed'
<1> USE BoundsAssumption DEF EscapeesInv
<1>t. /\ lastDeleted \in Nat /\ seqId \in Nat
      /\ pending \cap records = {}
  BY DEF TypeOK
<1>p. /\ pending' = pending \ {id} /\ seqId' = seqId
      /\ Cardinality(pending) \in Nat
      /\ Cardinality(pending') = Cardinality(pending) - 1
  BY FinitePending, RemoveOne DEF AddRecord
<1> DEFINE added == records \cup {id}
<1>1. CASE ~Overflows(added)
  <2>1. records' = added /\ lastDeleted' = lastDeleted /\ missed' = missed
    BY <1>1 DEF AddRecord
  <2> QED
    BY <2>1, <1>p, <1>t
<1>2. CASE Overflows(added)
  <2>1. /\ records' = added \ {Evicted}
        /\ lastDeleted' = Evicted
        /\ missed' = IF Evicted \in added THEN missed ELSE missed \cup {Evicted}
    BY <1>2 DEF AddRecord
  <2>2. lastDeleted' + Cardinality(pending') <= seqId'
    BY <2>1, <1>p, <1>t DEF Evicted
  <2>3. ASSUME NEW j \in (records' \cup pending') \cap 1..lastDeleted' PROVE j \in missed'
    <3>1. j \in records \cup pending
      BY <2>1, <1>p
    <3>2. CASE j = Evicted
      <4>1. j \in pending /\ j # id
        BY <3>2, <2>1, <1>p
      <4>2. Evicted \notin added
        BY <4>1, <3>2, <1>t
      <4> QED
        BY <4>2, <3>2, <2>1
    <3>3. CASE j # Evicted
      <4>1. j \in 1..lastDeleted
        BY <3>3, <2>1, <1>t DEF Evicted
      <4>2. j \in missed
        BY <4>1, <3>1
      <4> QED
        BY <4>2, <2>1
    <3> QED
      BY <3>2, <3>3
  <2> QED
    BY <2>2, <2>3
<1> QED
  BY <1>1, <1>2

LEMMA EscapeesStep == EscapeesInv /\ [Next]_vars => EscapeesInv'
<1> SUFFICES ASSUME EscapeesInv, [Next]_vars
             PROVE  /\ lastDeleted' + Cardinality(pending') <= seqId'
                    /\ (records' \cup pending') \cap 1..lastDeleted' \subseteq missed'
  BY TypeStep DEF EscapeesInv
<1> USE BoundsAssumption
<1>t. /\ lastDeleted \in Nat /\ seqId \in Nat
      /\ IsFiniteSet(pending) /\ Cardinality(pending) \in Nat
  BY FinitePending DEF EscapeesInv, TypeOK
<1>1. CASE NewRecord
  <2>1. Cardinality(pending') <= Cardinality(pending) + 1 /\ Cardinality(pending') \in Nat
    BY <1>1, <1>t, AddOne DEF NewRecord
  <2>2. seqId' = seqId + 1 /\ lastDeleted' = lastDeleted /\ records' = records /\ missed' = missed
    BY <1>1 DEF NewRecord
  <2>3. seqId + 1 \notin 1..lastDeleted
    BY <1>t DEF EscapeesInv
  <2> QED
    BY <2>1, <2>2, <2>3, <1>1, <1>t DEF EscapeesInv, NewRecord
<1>2. ASSUME NEW id \in pending, Abandon(id)
      PROVE  /\ lastDeleted' + Cardinality(pending') <= seqId'
             /\ (records' \cup pending') \cap 1..lastDeleted' \subseteq missed'
  <2>1. Cardinality(pending') = Cardinality(pending) - 1
    BY <1>2, <1>t, RemoveOne DEF Abandon
  <2> QED
    BY <2>1, <1>2, <1>t DEF Abandon, EscapeesInv
<1>3. CASE \E id \in pending : AddRecord(id)
  BY <1>3, EscapeesAdd
<1>4. CASE RemoveAll
  BY <1>4 DEF RemoveAll, EscapeesInv
<1>5. CASE UNCHANGED vars
  BY <1>5 DEF vars, EscapeesInv
<1> QED
  BY <1>1, <1>2, <1>3, <1>4, <1>5 DEF Next

\* Whatever the order of the responses, a record older than the last eviction
\* that is still stored came after its turn: the evictions skipped it.
THEOREM EscapeesHold == Spec => []EscapeesMissed
<1>1. Init => EscapeesInv
  <2> SUFFICES ASSUME Init PROVE EscapeesInv
    OBVIOUS
  <2>1. Cardinality(pending) = 0
    BY FS_EmptySet DEF Init
  <2> QED
    BY <2>1, BoundsAssumption DEF Init, EscapeesInv, TypeOK
<1>2. EscapeesInv => EscapeesMissed
  BY DEF EscapeesInv, EscapeesMissed
<1> QED
  BY <1>1, <1>2, EscapeesStep, PTL DEF Spec

\* An eviction takes the oldest record, as those that escaped have missed.
LEMMA EvictsStep ==
    ASSUME TypeOK, EscapeesMissed, [Next]_vars, records' # {}
    PROVE  \/ records \subseteq records'
           \/ /\ maxRecords > 0 /\ Cardinality(records) >= maxRecords
              /\ \E id \in records : /\ records \ {id} \subseteq records'
                                     /\ \A other \in records : other < id => other \in missed
<1> USE BoundsAssumption
<1>1. CASE NewRecord
  BY <1>1 DEF NewRecord
<1>2. ASSUME NEW id \in pending, Abandon(id) PROVE records \subseteq records'
  BY <1>2 DEF Abandon
<1>3. ASSUME NEW id \in pending, AddRecord(id), ~(records \subseteq records')
      PROVE  /\ maxRecords > 0 /\ Cardinality(records) >= maxRecords
             /\ \E old \in records : /\ records \ {old} \subseteq records'
                                     /\ \A other \in records : other < old => other \in missed
  <2> DEFINE added == records \cup {id}
  <2>1. Overflows(added) /\ records' = added \ {Evicted}
    BY <1>3 DEF AddRecord
  <2>2. Evicted \in records
    BY <2>1, <1>3
  <2>3. Cardinality(added) \in Nat /\ Cardinality(records) \in Nat
        /\ Cardinality(added) <= Cardinality(records) + 1
    BY FiniteStore, AddOne
  <2>4. maxRecords > 0 /\ Cardinality(records) >= maxRecords
    BY <2>1, <2>3 DEF Overflows
  <2>5. \A other \in records : other < Evicted => other \in missed
    <3> SUFFICES ASSUME NEW other \in records, other < lastDeleted + 1 PROVE other \in missed
      BY DEF Evicted
    <3>1. other \in 1..lastDeleted
      BY DEF TypeOK
    <3> QED
      BY <3>1 DEF EscapeesMissed
  <2> QED
    BY <2>1, <2>2, <2>4, <2>5
<1>5. CASE UNCHANGED vars
  BY <1>5 DEF vars
<1> QED
  BY <1>1, <1>2, <1>3, <1>5 DEF Next, RemoveAll

\* A record leaves the store only by RemoveAll, or alone when the store is
\* full and as the oldest that has not escaped, at every limit.
THEOREM EvictsHold == Spec => EvictsOldestWhenFull
<1>1. TypeOK /\ EscapeesMissed /\ [Next]_vars =>
        [records' # {} =>
          \/ records \subseteq records'
          \/ /\ maxRecords > 0 /\ Cardinality(records) >= maxRecords
             /\ \E id \in records : /\ records \ {id} \subseteq records'
                                    /\ \A other \in records : other < id => other \in missed]_vars
  BY EvictsStep
<1> QED
  BY <1>1, TypeCorrect, EscapeesHold, PTL DEF Spec, EvictsOldestWhenFull

-----------------------------------------------------------------------------
(* Responses in the order of their requests.                               *)

AddOldest ==
    \E id \in pending : (\A other \in pending : id <= other) /\ AddRecord(id)

\* Responses come back in order, each of them does, and nothing is cleared.
OrderedSpec == Init /\ [][NewRecord \/ AddOldest]_vars

\* The store is a window over the newest records, never wider than the limit.
StoreIsNewest ==
    /\ records = {id \in 1..seqId : id > lastDeleted /\ id \notin pending}
    /\ MaxRecordsKept

\* The records awaited are the last ones handed out, all beyond the last one
\* evicted.
OrderedInv ==
    /\ TypeOK
    /\ StoreIsNewest
    /\ \A id \in pending : id > lastDeleted
    /\ \A id \in pending, later \in 1..seqId : later > id => later \in pending
    /\ lastDeleted <= seqId

LEMMA OrderedAdd ==
    ASSUME OrderedInv, NEW id \in pending, \A other \in pending : id <= other, AddRecord(id)
    PROVE  OrderedInv'
<1> USE BoundsAssumption
<1>t. /\ lastDeleted \in Nat /\ seqId \in Nat
      /\ pending \subseteq 1..seqId /\ records \subseteq 1..seqId
  BY DEF OrderedInv, TypeOK
<1>y. TypeOK'
  BY TypeStep DEF OrderedInv, Next
<1>p. pending' = pending \ {id} /\ seqId' = seqId
  BY DEF AddRecord
<1>s. \A later \in 1..seqId : later > id => later \in pending
  BY DEF OrderedInv
<1>q. \A i \in pending', later \in 1..seqId' : later > i => later \in pending'
  BY <1>p, <1>t DEF OrderedInv
<1>f. IsFiniteSet(records) /\ Cardinality(records) \in Nat
  BY FiniteStore, FS_CardinalityType DEF OrderedInv
<1> DEFINE added == records \cup {id}
<1>a. added = {i \in 1..seqId : i > lastDeleted /\ i \notin pending'}
  BY <1>p, <1>t DEF OrderedInv, StoreIsNewest
<1>c. /\ IsFiniteSet(added) /\ Cardinality(added) \in Nat
      /\ Cardinality(added) <= Cardinality(records) + 1
  BY <1>f, AddOne
<1>1. CASE ~Overflows(added)
  <2>1. records' = added /\ lastDeleted' = lastDeleted
    BY <1>1 DEF AddRecord
  <2>2. StoreIsNewest'
    BY <2>1, <1>1, <1>a, <1>c, <1>p DEF StoreIsNewest, MaxRecordsKept, Overflows
  <2> QED
    BY <2>1, <2>2, <1>y, <1>p, <1>q DEF OrderedInv
<1>2. CASE Overflows(added)
  <2>1. records' = added \ {Evicted} /\ lastDeleted' = Evicted
    BY <1>2 DEF AddRecord
  <2>2. Evicted \in 1..seqId /\ Evicted <= id
    BY <1>t DEF OrderedInv, Evicted
  <2>3. Evicted \notin pending'
    BY <2>2, <1>p, <1>t
  <2>4. Evicted \in added
    BY <2>2, <2>3, <1>a, <1>t DEF Evicted
  <2>5. Cardinality(records') = Cardinality(added) - 1
    BY <2>1, <2>4, <1>c, RemoveOne
  <2>6. maxRecords > 0 /\ Cardinality(records) <= maxRecords
    BY <1>2 DEF Overflows, OrderedInv, StoreIsNewest, MaxRecordsKept
  <2>7. records' = {i \in 1..seqId' : i > lastDeleted' /\ i \notin pending'}
    BY <2>1, <1>a, <1>p, <1>t DEF Evicted
  <2>8. StoreIsNewest'
    BY <2>5, <2>6, <2>7, <1>c, <1>f DEF StoreIsNewest, MaxRecordsKept
  <2>9. \A i \in pending' : i > lastDeleted'
    BY <2>1, <2>2, <2>3, <1>p, <1>t DEF OrderedInv, Evicted
  <2> QED
    BY <2>1, <2>2, <2>8, <2>9, <1>y, <1>p, <1>q DEF OrderedInv
<1> QED
  BY <1>1, <1>2

LEMMA OrderedNew == OrderedInv /\ NewRecord => OrderedInv'
<1> SUFFICES ASSUME OrderedInv, NewRecord PROVE OrderedInv'
  OBVIOUS
<1> USE BoundsAssumption
<1>1. TypeOK'
  BY TypeStep DEF OrderedInv, Next
<1>2. /\ seqId' = seqId + 1 /\ pending' = pending \cup {seqId + 1}
      /\ records' = records /\ lastDeleted' = lastDeleted
      /\ seqId \in Nat /\ lastDeleted \in Nat
      /\ pending \subseteq 1..seqId
  BY DEF NewRecord, OrderedInv, TypeOK
<1>3. StoreIsNewest'
  BY <1>2 DEF OrderedInv, StoreIsNewest, MaxRecordsKept
<1>4. \A id \in pending' : id > lastDeleted'
  BY <1>2 DEF OrderedInv
<1>5. \A id \in pending', later \in 1..seqId' : later > id => later \in pending'
  BY <1>2 DEF OrderedInv
<1> QED
  BY <1>1, <1>2, <1>3, <1>4, <1>5 DEF OrderedInv

\* When responses come in order the limit is kept, at every limit: only
\* evictions that miss break it.
THEOREM LimitKeptInOrder == OrderedSpec => []MaxRecordsKept
<1>1. Init => OrderedInv
  <2> SUFFICES ASSUME Init PROVE OrderedInv
    OBVIOUS
  <2>1. Cardinality(records) = 0
    BY FS_EmptySet DEF Init
  <2> QED
    BY <2>1, BoundsAssumption DEF Init, OrderedInv, StoreIsNewest, MaxRecordsKept, TypeOK
<1>2. OrderedInv /\ [NewRecord \/ AddOldest]_vars => OrderedInv'
  <2>1. OrderedInv /\ AddOldest => OrderedInv'
    BY OrderedAdd DEF AddOldest
  <2>2. OrderedInv /\ UNCHANGED vars => OrderedInv'
    BY DEF OrderedInv, TypeOK, StoreIsNewest, MaxRecordsKept, vars
  <2> QED
    BY <2>1, <2>2, OrderedNew
<1>3. OrderedInv => MaxRecordsKept
  BY DEF OrderedInv, StoreIsNewest
<1> QED
  BY <1>1, <1>2, <1>3, PTL DEF OrderedSpec
=============================================================================
