---------------------------- MODULE SnifferProofs ----------------------------
(***************************************************************************)
(* Theorems about SnifferPage: whatever the goroutines of the client and   *)
(* the page do, the broker between them works as BrokerProofs shows.       *)
(***************************************************************************)
EXTENDS SnifferPage, ListingProofs, SequenceTheorems, TLAPS

Shown == INSTANCE BrokerProofs WITH Listeners <- Conns

-----------------------------------------------------------------------------
LEMMA SameInit ==
    ASSUME Events!Init
    PROVE  Shown!Init
BY Zenon DEF Events!Init, Shown!Init

LEMMA SamePublish ==
    ASSUME NEW m \in Messages, Events!Publish(m)
    PROVE  Shown!Next
<1>1. Shown!Publish(m)
  BY Zenon DEF Events!Publish, Shown!Publish
<1> QED BY <1>1, Zenon DEF Shown!Next

LEMMA SameServe ==
    ASSUME Events!Serve
    PROVE  Shown!Next
<1>1. CASE Events!TakeSub
  BY <1>1, Zenon DEF Events!TakeSub, Shown!TakeSub, Shown!Next, Shown!Serve
<1>2. CASE Events!TakeUnsub
  <2>1. Shown!TakeUnsub
    BY <1>2, Zenon DEF Events!TakeUnsub, Shown!TakeUnsub
  <2> QED BY <2>1, Zenon DEF Shown!Next, Shown!Serve
<1>3. CASE Events!TakeMessage
  <2>1. Shown!TakeMessage
    BY <1>3, Zenon DEF Events!TakeMessage, Shown!TakeMessage, Events!Full, Shown!Full
  <2> QED BY <2>1, Zenon DEF Shown!Next, Shown!Serve
<1> QED BY <1>1, <1>2, <1>3, Zenon DEF Events!Serve

LEMMA SameListener ==
    ASSUME NEW l \in Conns, Events!Subscribe(l) \/ Events!Unsubscribe(l) \/ Events!Receive(l)
    PROVE  Shown!Next
<1>1. Shown!Subscribe(l) \/ Shown!Unsubscribe(l) \/ Shown!Receive(l)
  BY Zenon DEF Events!Subscribe, Events!Unsubscribe, Events!Receive,
               Shown!Subscribe, Shown!Unsubscribe, Shown!Receive
<1> QED BY <1>1, Zenon DEF Shown!Next

\* Every step of the client and the page is one of the broker, or leaves it.
LEMMA BrokerOrNot ==
    ASSUME [Next]_vars
    PROVE  [Shown!Next]_(Shown!vars)
<1>0. ASSUME UNCHANGED brokerVars PROVE UNCHANGED Shown!vars
  BY <1>0, Zenon DEF brokerVars, Shown!vars
<1>1. CASE Recorder
  <2>1. CASE Request
    BY <1>0, <2>1, Zenon DEF Request
  <2>2. ASSUME NEW id \in Ids, AddRecord(id) \/ ServerElapsed(id)
        PROVE  UNCHANGED brokerVars
    BY <2>2, Zenon DEF AddRecord, ServerElapsed
  <2>3. ASSUME NEW id \in Ids, PublishRecord(id) \/ PublishUpdate(id)
        PROVE  Shown!Next
    <3>1. PICK kind \in {"record", "update"} : Events!Publish([id |-> id, kind |-> kind])
      BY <2>3 DEF PublishRecord, PublishUpdate
    <3>2. [id |-> id, kind |-> kind] \in Messages
      BY DEF Messages
    <3> QED BY <3>1, <3>2, SamePublish
  <2> QED BY <1>0, <1>1, <2>1, <2>2, <2>3, Zenon DEF Recorder
<1>2. CASE BrokerStep
  BY <1>2, SameServe, Zenon DEF BrokerStep, Broke
<1>3. ASSUME NEW c \in Conns, Connects(c) \/ ForwardEvent(c) \/ PageLeaves(c)
      PROVE  [Shown!Next]_(Shown!vars)
  <2>1. CASE Connects(c) /\ SendStart(c)
    BY <1>0, <2>1, Zenon DEF SendStart
  <2>2. CASE (Connects(c) /\ Subscribe(c)) \/ ForwardEvent(c) \/ PageLeaves(c)
    <3>1. Events!Subscribe(c) \/ Events!Unsubscribe(c) \/ Events!Receive(c)
      BY <2>2, Zenon DEF Subscribe, ForwardEvent, Forward, PageLeaves, Leave
    <3> QED BY <3>1, SameListener, Zenon
  <2> QED BY <1>3, <2>1, <2>2, Zenon DEF Connects
<1>4. CASE OnStart \/ OnNewRecord \/ OnUpdateRecord
  <2>1. \E event \in {"start", "new-record", "update-record"} : Handled(event)
    BY <1>4 DEF OnStart, OnNewRecord, OnUpdateRecord
  <2> QED BY <1>0, <2>1, Zenon DEF Handled
<1>5. CASE SortAndTrim \/ EmitFilterRecords \/ \E q \in Queries : TypeQuery(q)
  BY <1>0, <1>5, Zenon DEF SortAndTrim, EmitFilterRecords, TypeQuery, streamVars
<1>6. CASE ClearRecords \/ OnCleared \/ ClearFails \/ Reconnect
  BY <1>0, <1>6, Zenon DEF ClearRecords, OnCleared, ClearFails, Reconnect, streamVars
<1>7. CASE ServeClear
  BY <1>0, <1>7, Zenon DEF ServeClear, RemoveAll
<1>8. CASE UNCHANGED vars
  BY <1>0, <1>8, Zenon DEF vars, streamVars
<1> QED BY <1>1, <1>2, <1>3, <1>4, <1>5, <1>6, <1>7, <1>8, Zenon DEF Next

-----------------------------------------------------------------------------
(* The pages' listeners may miss messages, but those they get come in the   *)
(* order they were published in and each once.                              *)
THEOREM InOrderHolds == Spec => InOrder
<1>1. Init => Shown!OrderInv
  <2>1. Init => Shown!Init
    BY SameInit, Zenon DEF Init, StreamInit
  <2> QED BY <2>1, Shown!OrderInit
<1>2. Shown!OrderInv /\ [Next]_vars => Shown!OrderInv'
  BY BrokerOrNot, Shown!OrderStep
<1>3. Init => Events!Feed!Init
  BY DEF Init, StreamInit, Events!Init, Events!Feed!Init
<1>4. Shown!OrderInv /\ [Next]_vars => [Events!Feed!Next]_(Events!Feed!vars)
  <2>1. ASSUME Shown!OrderInv, [Next]_vars
        PROVE  [Shown!Feed!Next]_(Shown!Feed!vars)
    BY <2>1, BrokerOrNot, Shown!FeedStep
  <2> QED BY <2>1, Zenon
          DEF Shown!Feed!Next, Shown!Feed!vars, Shown!Feed!Publish, Shown!Feed!Deliver,
              Events!Feed!Next, Events!Feed!vars, Events!Feed!Publish, Events!Feed!Deliver
<1> QED BY <1>1, <1>2, <1>3, <1>4, PTL DEF Spec, InOrder, Events!InOrder, Events!Feed!Spec

(* The broker brings the client down only for a page that left before its   *)
(* subscription was taken.                                                  *)
THEOREM PanicsHold == Spec => []PanicsOnlyOnEarlyLeave
<1>1. Init => Shown!EarlyInv
  <2>1. Init => Shown!Init
    BY SameInit, Zenon DEF Init, StreamInit
  <2> QED BY <2>1, Shown!EarlyInit
<1>2. Shown!EarlyInv /\ [Next]_vars => Shown!EarlyInv'
  BY BrokerOrNot, Shown!EarlyStep
<1>3. Shown!EarlyInv => PanicsOnlyOnEarlyLeave
  BY DEF Shown!EarlyInv, PanicsOnlyOnEarlyLeave, Events!PanicsOnlyOnEarlyLeave
<1> QED BY <1>1, <1>2, <1>3, PTL DEF Spec

-----------------------------------------------------------------------------
(* The page's list as a sequence.                                          *)

LEMMA Places ==
    ASSUME NEW S, NEW list \in Seq(S)
    PROVE  /\ Len(list) \in Nat /\ DOMAIN list = 1..Len(list)
           /\ IsFiniteSet(DOMAIN list) /\ Cardinality(DOMAIN list) = Len(list)
<1>1. Len(list) \in Nat /\ DOMAIN list = 1..Len(list)
  OBVIOUS
<1>2. IsFiniteSet(1..Len(list)) /\ Cardinality(1..Len(list)) = Len(list)
  BY <1>1, FS_Interval
<1> QED BY <1>1, <1>2

LEMMA MatchingType ==
    ASSUME NEW list \in Seq(Entry), NEW q
    PROVE  Matching(list, q) \in Seq(Ids)
<1> DEFINE S == {i \in DOMAIN list : q = "" \/ list[i].timed}
           found == Ascending(S)
           n == Cardinality(S)
<1>1. S \in SUBSET (DOMAIN list) /\ S \in SUBSET Nat
  <2>1. DOMAIN list \subseteq Nat
    BY Places
  <2> QED BY <2>1
<1>2. IsFiniteSet(S)
  BY <1>1, Places, FS_Subset
<1>3. n \in Nat /\ found \in [1..n -> S]
  BY <1>1, <1>2, AscendingSorts
<1>4. \A i \in DOMAIN list : list[i].id \in Ids
  <2>1. \A i \in DOMAIN list : list[i] \in Entry
    BY Places
  <2> QED BY <2>1 DEF Entry
<1>5. Matching(list, q) = [k \in DOMAIN found |-> list[found[k]].id]
  BY Zenon DEF Matching
<1> HIDE DEF S, found, n
<1>6. \A k \in 1..n : list[found[k]].id \in Ids
  BY <1>1, <1>3, <1>4
<1>7. DOMAIN found = 1..n
  BY <1>3
<1>8. Matching(list, q) \in [1..n -> Ids]
  BY <1>5, <1>6, <1>7
<1> QED BY <1>3, <1>8

\* With nothing searched for only the ids count.
LEMMA MatchingAll ==
    ASSUME NEW list \in Seq(Entry), NEW other \in Seq(Entry), Len(other) = Len(list),
           \A i \in 1..Len(list) : other[i].id = list[i].id
    PROVE  Matching(other, "") = Matching(list, "")
<1> DEFINE found == Ascending(1..Len(list))
<1>1. DOMAIN list = 1..Len(list) /\ DOMAIN other = 1..Len(list)
  BY Places
<1>2. /\ {i \in DOMAIN list : "" = "" \/ list[i].timed} = 1..Len(list)
      /\ {i \in DOMAIN other : "" = "" \/ other[i].timed} = 1..Len(list)
  BY <1>1, Zenon
<1>3. /\ Matching(list, "") = [k \in DOMAIN found |-> list[found[k]].id]
      /\ Matching(other, "") = [k \in DOMAIN found |-> other[found[k]].id]
  BY <1>2, Zenon DEF Matching
<1>4. \A k \in DOMAIN found : found[k] \in 1..Len(list)
  <2>1. IsFiniteSet(1..Len(list)) /\ 1..Len(list) \in SUBSET Nat
    BY Places
  <2>2. found \in [1..Cardinality(1..Len(list)) -> 1..Len(list)]
    BY <2>1, AscendingSorts
  <2> QED BY <2>2
<1> HIDE DEF found
<1> QED BY <1>3, <1>4

\* How Sorted orders the places of a list: by falling id, and place.
Order(list) ==
    LET places == DOMAIN list
    IN  Listing(places, {p \in places \X places :
            \/ list[p[1]].id > list[p[2]].id
            \/ list[p[1]].id = list[p[2]].id /\ p[1] < p[2]})

LEMMA SortedOrders ==
    ASSUME NEW list \in Seq(Entry)
    PROVE  /\ Order(list) \in [1..Len(list) -> 1..Len(list)]
           /\ \A i \in 1..Len(list) : \E k \in 1..Len(list) : Order(list)[k] = i
           /\ \A j, k \in 1..Len(list) : j < k =>
                  \/ list[Order(list)[j]].id > list[Order(list)[k]].id
                  \/ /\ list[Order(list)[j]].id = list[Order(list)[k]].id
                     /\ Order(list)[j] < Order(list)[k]
           /\ Sorted(list) \in Seq(Entry) /\ Len(Sorted(list)) = Len(list)
           /\ \A k \in 1..Len(list) : Sorted(list)[k] = list[Order(list)[k]]
<1> DEFINE n == Len(list)
           P == 1..n
           R == {p \in P \X P : \/ list[p[1]].id > list[p[2]].id
                                \/ list[p[1]].id = list[p[2]].id /\ p[1] < p[2]}
           o == Order(list)
<1>1. n \in Nat /\ DOMAIN list = P /\ IsFiniteSet(P) /\ Cardinality(P) = n
  BY Places
<1>2. \A x, y : <<x, y>> \in R <=> /\ x \in P /\ y \in P
                                   /\ \/ list[x].id > list[y].id
                                      \/ list[x].id = list[y].id /\ x < y
  OBVIOUS
<1>3. \A x \in P : x \in Nat /\ list[x] \in Entry /\ list[x].id \in Nat
  <2>1. \A x \in P : x \in Nat /\ list[x] \in Entry
    BY <1>1
  <2> QED BY <2>1 DEF Entry, Ids
<1>4. Orders(R, P)
  BY <1>2, <1>3 DEF Orders
<1>5. IsListing(o, P, R)
  <2>1. o = Listing(P, R)
    BY <1>1, Zenon DEF Order
  <2> QED BY <1>1, <1>4, <2>1, ListingSorts, Zenon
<1>6. Sorted(list) = [k \in P |-> list[o[k]]]
  BY <1>1, Zenon DEF Sorted, Order
<1> HIDE DEF R, o
<1>7. o \in [1..n -> P] /\ (\A i \in P : \E k \in 1..n : o[k] = i)
      /\ \A j, k \in 1..n : j < k => <<o[j], o[k]>> \in R
  BY <1>1, <1>5, Zenon DEF IsListing
<1>8. \A k \in P : list[o[k]] \in Entry
  BY <1>3, <1>7
<1>9. Sorted(list) \in [1..n -> Entry] /\ \A k \in P : Sorted(list)[k] = list[o[k]]
  BY <1>6, <1>8
<1>10. Sorted(list) \in Seq(Entry) /\ Len(Sorted(list)) = n
  BY <1>1, <1>9
<1> QED BY <1>2, <1>7, <1>9, <1>10, Zenon DEF o

\* A set of entries that has each id once.
OneEach(recs) == \A r, s \in recs : r.id = s.id => r = s

LEMMA ByIdLists ==
    ASSUME NEW recs \in SUBSET Entry, OneEach(recs)
    PROVE  /\ ById(recs) \in Seq(Entry)
           /\ \A r \in recs : \E k \in 1..Len(ById(recs)) : ById(recs)[k] = r
           /\ \A k \in 1..Len(ById(recs)) : ById(recs)[k] \in recs
           /\ \A j, k \in 1..Len(ById(recs)) : j < k => ById(recs)[j].id > ById(recs)[k].id
<1> DEFINE R == {p \in recs \X recs : p[1].id > p[2].id}
           n == Cardinality(recs)
           s == ById(recs)
           idOf == [r \in recs |-> r.id]
<1>1. \A r \in recs : r.id \in Nat /\ r.id \in Ids
  BY DEF Entry, Ids
<1>2. IsFiniteSet(recs)
  <2>1. idOf \in Injection(recs, Ids)
    <3>1. idOf \in [recs -> Ids]
      BY <1>1
    <3>2. \A r, t \in recs : idOf[r] = idOf[t] => r = t
      BY DEF OneEach
    <3> QED BY <3>1, <3>2, Zenon DEF Injection, IsInjective
  <2>2. IsFiniteSet(Ids)
    BY SizesAssumption, FS_Interval DEF Ids
  <2> QED BY <2>1, <2>2, FS_Injection
<1>3. \A x, y : <<x, y>> \in R <=> x \in recs /\ y \in recs /\ x.id > y.id
  OBVIOUS
<1>4. Orders(R, recs)
  BY <1>1, <1>3 DEF Orders, OneEach
<1>5. n \in Nat /\ IsListing(s, recs, R)
  BY <1>2, <1>4, ListingSorts, Zenon DEF ById
<1> HIDE DEF R, s, n
<1>6. s \in [1..n -> recs] /\ (\A r \in recs : \E k \in 1..n : s[k] = r)
      /\ \A j, k \in 1..n : j < k => <<s[j], s[k]>> \in R
  BY <1>5, Zenon DEF IsListing, n
<1>7. s \in Seq(Entry) /\ Len(s) = n
  BY <1>5, <1>6
<1> QED BY <1>3, <1>6, <1>7, Zenon DEF s

\* The first place of a list that has an id.
LEMMA FirstExists ==
    ASSUME NEW list \in Seq(Entry), NEW id, \E i \in DOMAIN list : list[i].id = id
    PROVE  \E i \in DOMAIN list : list[i].id = id /\ \A j \in 1..i - 1 : list[j].id # id
<1> DEFINE S == {i \in DOMAIN list : list[i].id = id}
<1>1. S \in SUBSET Nat /\ S \in SUBSET (DOMAIN list) /\ DOMAIN list = 1..Len(list) /\ Len(list) \in Nat
  BY Places
<1>2. IsFiniteSet(S)
  BY <1>1, Places, FS_Subset
<1> DEFINE n == Cardinality(S)
           s == Ascending(S)
<1>3. /\ n \in Nat /\ s \in [1..n -> S] /\ (\A x \in S : \E k \in 1..n : s[k] = x)
      /\ \A i, j \in 1..n : i < j => s[i] < s[j]
  BY <1>1, <1>2, AscendingSorts
<1>4. n > 0
  <2>1. PICK i \in S : TRUE
    OBVIOUS
  <2>2. PICK k \in 1..n : s[k] = i
    BY <1>3, <2>1
  <2> QED BY <1>3, <2>2
<1> HIDE DEF n, s
<1>5. s[1] \in S
  BY <1>3, <1>4
<1>6. \A x \in S : s[1] <= x
  <2> SUFFICES ASSUME NEW x \in S PROVE s[1] <= x
    OBVIOUS
  <2>1. PICK k \in 1..n : s[k] = x
    BY <1>3
  <2>2. CASE k = 1
    BY <1>1, <2>1, <2>2
  <2>3. CASE 1 < k
    BY <1>1, <1>3, <1>4, <1>5, <2>1, <2>3
  <2> QED BY <1>3, <2>1, <2>2, <2>3
<1>7. \A j \in 1..s[1] - 1 : j \in DOMAIN list /\ j < s[1]
  BY <1>1, <1>5
<1> HIDE DEF S
<1>8. \A j \in 1..s[1] - 1 : j \notin S
  <2>1. s[1] \in Nat
    BY <1>1, <1>5
  <2> QED BY <1>6, <2>1
<1> QED BY <1>5, <1>7, <1>8, Zenon DEF S

-----------------------------------------------------------------------------
(* Types.                                                                  *)

Event == [event : {"start", "new-record", "update-record"}, recs : SUBSET Entry]

\* A snapshot comes first, and other events bring one record.
EventShape(i, e) ==
    \/ e.event = "start" /\ i = 1 /\ OneEach(e.recs)
    \/ e.event = "new-record" /\ \E id \in Ids : e.recs = {[id |-> id, timed |-> FALSE]}
    \/ e.event = "update-record" /\ \E id \in Ids : e.recs = {[id |-> id, timed |-> TRUE]}

WireShape(w) == w \in Seq(Event) /\ \A i \in 1..Len(w) : EventShape(i, w[i])

\* Connections are used one after the other, and nothing comes before the
\* snapshot.
ConnsInv ==
    /\ es \in Conns
    /\ conn \in [Conns -> {"new", "subscribed", "streaming", "left"}]
    /\ DOMAIN wire = Conns
    /\ \A c \in Conns : /\ WireShape(wire[c])
                        /\ conn[c] \in {"new", "subscribed"} => wire[c] = <<>>
                        /\ conn[c] = "new" => c \notin made
                        /\ c \in ended => conn[c] = "left"
                        /\ c > es => conn[c] = "new"
    /\ conn[es] # "left"

HandlerTypes ==
    /\ adding \cup timing \cup answered \subseteq Ids
    /\ timed \subseteq answered

ListTypes ==
    /\ recordList \in Seq(Entry)
    /\ query \in Queries
    /\ filtered \in Seq(Ids) /\ sidebarRecords \in Seq(Ids)

PageTypes ==
    /\ undecodable \in Undecodable
    /\ sorting \in BOOLEAN /\ emitting \in BOOLEAN
    /\ clearing \in {"no", "asked", "served"} /\ turns \in 0..MaxTurns

HistoryTypes == unseen \cup untold \cup overlap \subseteq Ids

Base == /\ Store!TypeOK /\ Shown!KeptInv /\ ConnsInv
        /\ HandlerTypes /\ ListTypes /\ PageTypes /\ HistoryTypes

LEMMA WireAppend ==
    ASSUME NEW w, WireShape(w), NEW e \in Event, EventShape(Len(w) + 1, e)
    PROVE  /\ WireShape(Append(w, e)) /\ Len(w) \in Nat
           /\ Len(Append(w, e)) = Len(w) + 1 /\ Append(w, e)[Len(w) + 1] = e
           /\ \A i \in 1..Len(w) : Append(w, e)[i] = w[i]
<1>1. w \in Seq(Event) /\ Len(w) \in Nat
  BY DEF WireShape
<1>2. /\ Append(w, e) \in Seq(Event) /\ Len(Append(w, e)) = Len(w) + 1
      /\ Append(w, e)[Len(w) + 1] = e
      /\ \A i \in 1..Len(w) : Append(w, e)[i] = w[i]
  BY <1>1
<1>3. \A i \in 1..Len(w) + 1 : i \in 1..Len(w) \/ i = Len(w) + 1
  BY <1>1
<1> QED BY <1>1, <1>2, <1>3, Zenon DEF WireShape

LEMMA WireTail ==
    ASSUME NEW w, WireShape(w), w # <<>>
    PROVE  /\ WireShape(Tail(w)) /\ Head(w) = w[1] /\ Head(w) \in Event /\ EventShape(1, Head(w))
           /\ Len(w) \in Nat \ {0} /\ Len(Tail(w)) = Len(w) - 1
           /\ \A i \in 1..Len(Tail(w)) : i + 1 \in 1..Len(w) /\ Tail(w)[i] = w[i + 1] /\ w[i + 1].event # "start"
<1>1. w \in Seq(Event) /\ Len(w) \in Nat \ {0}
  BY DEF WireShape
<1>2. /\ Tail(w) \in Seq(Event) /\ Head(w) = w[1] /\ 1 \in 1..Len(w) /\ Len(Tail(w)) = Len(w) - 1
      /\ \A i \in 1..Len(Tail(w)) : i + 1 \in 1..Len(w) /\ i + 1 # 1 /\ Tail(w)[i] = w[i + 1]
  BY <1>1
<1>3. \A i \in 1..Len(w) : w[i] \in Event /\ EventShape(i, w[i])
  BY <1>1 DEF WireShape
<1>4. ASSUME NEW i \in 1..Len(Tail(w))
      PROVE  w[i + 1].event # "start" /\ EventShape(i, Tail(w)[i])
  <2>1. EventShape(i + 1, w[i + 1]) /\ i + 1 # 1 /\ Tail(w)[i] = w[i + 1]
    BY <1>2, <1>3
  <2> QED BY <2>1 DEF EventShape
<1> QED BY <1>1, <1>2, <1>3, <1>4, Zenon DEF WireShape

-----------------------------------------------------------------------------
LEMMA StoreOrNot ==
    ASSUME [Next]_vars
    PROVE  \/ Store!NewRecord \/ (\E id \in Ids : Store!AddRecord(id)) \/ Store!RemoveAll
           \/ UNCHANGED storeVars
<1>1. CASE Recorder
  BY <1>1, Zenon DEF Recorder, Request, AddRecord, PublishRecord, ServerElapsed, PublishUpdate
<1>2. CASE BrokerStep
  BY <1>2, Zenon DEF BrokerStep, Broke
<1>3. CASE \E c \in Conns : Connects(c) \/ ForwardEvent(c) \/ PageLeaves(c)
  BY <1>3, Zenon DEF Connects, Subscribe, SendStart, ForwardEvent, Forward, PageLeaves, Leave
<1>4. CASE OnStart \/ OnNewRecord \/ OnUpdateRecord
  BY <1>4, Zenon DEF OnStart, OnNewRecord, OnUpdateRecord, Handled
<1>5. CASE SortAndTrim \/ EmitFilterRecords \/ \E q \in Queries : TypeQuery(q)
  BY <1>5, Zenon DEF SortAndTrim, EmitFilterRecords, TypeQuery, streamVars
<1>6. CASE ClearRecords \/ ServeClear \/ OnCleared \/ ClearFails \/ Reconnect
  BY <1>6, Zenon DEF ClearRecords, ServeClear, RemoveAll, OnCleared, ClearFails, Reconnect, streamVars
<1>7. CASE UNCHANGED vars
  BY <1>7, Zenon DEF vars, streamVars
<1> QED BY <1>1, <1>2, <1>3, <1>4, <1>5, <1>6, <1>7, Zenon DEF Next

LEMMA StoreStep ==
    ASSUME Store!TypeOK, [Next]_vars
    PROVE  Store!TypeOK'
<1>0. maxRecords \in Nat /\ MaxId \in Nat
  BY SizesAssumption
<1>1. CASE Store!NewRecord
  BY <1>0, <1>1 DEF Store!NewRecord, Store!TypeOK
<1>2. CASE \E id \in Ids : Store!AddRecord(id)
  <2>1. PICK id \in Ids : Store!AddRecord(id)
    BY <1>2
  <2>2. CASE ~Store!Overflows(records \cup {id})
    BY <1>0, <2>1, <2>2 DEF Store!AddRecord, Store!TypeOK, Store!Evicted
  <2>3. CASE Store!Overflows(records \cup {id})
    <3>1. /\ id \in pending /\ pending' = pending \ {id} /\ seqId' = seqId
          /\ records' \subseteq records \cup {id} /\ lastDeleted' = lastDeleted + 1
          /\ missed' \subseteq missed \cup {lastDeleted + 1}
      BY <2>1, <2>3 DEF Store!AddRecord, Store!Evicted
    <3>2. lastDeleted \in Nat /\ missed \subseteq 1..lastDeleted
      BY DEF Store!TypeOK
    <3>3. missed' \subseteq 1..lastDeleted'
      BY <3>1, <3>2
    <3> QED BY <1>0, <3>1, <3>2, <3>3 DEF Store!TypeOK
  <2> QED BY <2>2, <2>3
<1>3. CASE Store!RemoveAll
  BY <1>0, <1>3 DEF Store!RemoveAll, Store!TypeOK
<1>4. CASE UNCHANGED storeVars
  BY <1>4 DEF storeVars, Store!TypeOK
<1> QED BY <1>1, <1>2, <1>3, <1>4, StoreOrNot

\* A handler's step.
LEMMA HandlerTypesStep ==
    ASSUME Store!TypeOK, HandlerTypes, [Next]_vars
    PROVE  HandlerTypes'
<1>0. 1..seqId \subseteq Ids /\ records \subseteq Ids
  BY SizesAssumption DEF Store!TypeOK, Ids
<1>1. CASE UNCHANGED <<adding, timing, timed, answered>>
  BY <1>1 DEF HandlerTypes
<1>2. ASSUME NEW id \in Ids, AddRecord(id) \/ PublishRecord(id)
      PROVE  HandlerTypes'
  BY <1>2 DEF AddRecord, PublishRecord, HandlerTypes
<1>3. ASSUME NEW id \in Ids, ServerElapsed(id)
      PROVE  HandlerTypes'
  BY <1>3 DEF ServerElapsed, HandlerTypes
<1>4. ASSUME NEW id \in Ids, PublishUpdate(id)
      PROVE  HandlerTypes'
  BY <1>4 DEF PublishUpdate, HandlerTypes
<1>5. CASE Request \/ BrokerStep
  BY <1>1, <1>5, Zenon DEF Request, BrokerStep, Broke, handlerVars
<1>6. CASE \E c \in Conns : Connects(c) \/ ForwardEvent(c) \/ PageLeaves(c)
  BY <1>1, <1>6, Zenon DEF Connects, Subscribe, SendStart, ForwardEvent, Forward, PageLeaves, Leave
<1>7. CASE OnStart \/ OnNewRecord \/ OnUpdateRecord
  BY <1>1, <1>7, Zenon DEF OnStart, OnNewRecord, OnUpdateRecord, Handled
<1>8. CASE SortAndTrim \/ EmitFilterRecords \/ \E q \in Queries : TypeQuery(q)
  BY <1>1, <1>8, Zenon DEF SortAndTrim, EmitFilterRecords, TypeQuery, streamVars, handlerVars
<1>9. CASE ClearRecords \/ ServeClear \/ OnCleared \/ ClearFails \/ Reconnect
  BY <1>1, <1>9, Zenon DEF ClearRecords, ServeClear, RemoveAll, OnCleared, ClearFails, Reconnect,
                           streamVars, handlerVars
<1>10. CASE UNCHANGED vars
  BY <1>1, <1>10, Zenon DEF vars, streamVars, handlerVars
<1> QED BY <1>2, <1>3, <1>4, <1>5, <1>6, <1>7, <1>8, <1>9, <1>10, Zenon DEF Next, Recorder

\* What the page does with a message when it handles one.
LEMMA HandledEvent ==
    ASSUME ConnsInv, NEW event, Handled(event)
    PROVE  /\ WireShape(wire[es]) /\ wire[es] # <<>> /\ Head(wire[es]).event = event
           /\ wire' = [wire EXCEPT ![es] = Tail(wire[es])] /\ wire'[es] = Tail(wire[es])
           /\ \A c \in Conns \ {es} : wire'[c] = wire[c]
           /\ UNCHANGED <<storeVars, brokerVars, adding, timing, timed, answered, conn>>
           /\ UNCHANGED <<undecodable, es, clearing, turns, overlap>>
<1>1. es \in Conns /\ DOMAIN wire = Conns /\ WireShape(wire[es])
  BY Zenon DEF ConnsInv
<1>2. wire' = [wire EXCEPT ![es] = Tail(wire[es])]
  BY Zenon DEF Handled
<1>3. wire'[es] = Tail(wire[es]) /\ \A c \in Conns \ {es} : wire'[c] = wire[c]
  BY <1>1, <1>2
<1> QED BY <1>1, <1>2, <1>3, Zenon DEF Handled

LEMMA StartOf ==
    ASSUME NEW w, WireShape(w), w # <<>>, Head(w).event = "start"
    PROVE  Head(w).recs \in SUBSET Entry /\ OneEach(Head(w).recs)
<1>1. Head(w) \in Event /\ EventShape(1, Head(w))
  BY WireTail
<1> QED BY <1>1 DEF Event, EventShape

LEMMA NewOf ==
    ASSUME NEW w, WireShape(w), w # <<>>, Head(w).event = "new-record"
    PROVE  \E id \in Ids : /\ Head(w).recs = {[id |-> id, timed |-> FALSE]}
                           /\ (CHOOSE x \in Head(w).recs : TRUE) = [id |-> id, timed |-> FALSE]
<1>1. EventShape(1, Head(w))
  BY WireTail
<1>2. PICK id \in Ids : Head(w).recs = {[id |-> id, timed |-> FALSE]}
  BY <1>1 DEF EventShape
<1> QED BY <1>2

LEMMA UpdateOf ==
    ASSUME NEW w, WireShape(w), w # <<>>, Head(w).event = "update-record"
    PROVE  \E id \in Ids : /\ Head(w).recs = {[id |-> id, timed |-> TRUE]}
                           /\ (CHOOSE x \in Head(w).recs : TRUE).id = id
<1>1. EventShape(1, Head(w))
  BY WireTail
<1>2. PICK id \in Ids : Head(w).recs = {[id |-> id, timed |-> TRUE]}
  BY <1>1 DEF EventShape
<1> DEFINE x == CHOOSE r \in Head(w).recs : TRUE
<1>3. x \in Head(w).recs
  BY <1>2, Zenon
<1>4. x = [id |-> id, timed |-> TRUE]
  BY <1>2, <1>3
<1> HIDE DEF x
<1>5. x.id = id
  BY <1>4
<1> QED BY <1>2, <1>5, Zenon DEF x

-----------------------------------------------------------------------------
(* The connections.                                                        *)

\* The snapshot is an event.
LEMMA SnapshotShape ==
    ASSUME Store!TypeOK
    PROVE  LET e == [event |-> "start", recs |-> ThinCloneWithoutResponseBody]
           IN  e \in Event /\ EventShape(1, e)
<1> DEFINE recs == ThinCloneWithoutResponseBody
<1>1. \A id \in records : id \in Ids
  BY SizesAssumption DEF Store!TypeOK, Ids
<1>2. recs \subseteq Entry
  <2>1. ASSUME NEW id \in records PROVE [id |-> id, timed |-> id \in timed] \in Entry
    <3>1. CASE id \in timed
      <4>1. [id |-> id, timed |-> id \in timed] = [id |-> id, timed |-> TRUE]
        BY <3>1, Zenon
      <4> QED BY <1>1, <4>1 DEF Entry
    <3>2. CASE id \notin timed
      <4>1. (id \in timed) = FALSE
        BY <3>2
      <4>2. [id |-> id, timed |-> id \in timed] = [id |-> id, timed |-> FALSE]
        BY <4>1, Zenon
      <4> QED BY <1>1, <4>2 DEF Entry
    <3> QED BY <3>1, <3>2
  <2> QED BY <2>1 DEF ThinCloneWithoutResponseBody
<1>3. OneEach(recs)
  <2> SUFFICES ASSUME NEW r \in recs, NEW s \in recs, r.id = s.id PROVE r = s
    BY DEF OneEach
  <2>1. PICK i \in records : r = [id |-> i, timed |-> i \in timed]
    BY DEF ThinCloneWithoutResponseBody
  <2>2. PICK j \in records : s = [id |-> j, timed |-> j \in timed]
    BY DEF ThinCloneWithoutResponseBody
  <2>3. i = j
    BY <2>1, <2>2
  <2> QED BY <2>1, <2>2, <2>3, Zenon
<1> HIDE DEF recs
<1>4. [event |-> "start", recs |-> recs] \in Event
  BY <1>2 DEF Event
<1>5. EventShape(1, [event |-> "start", recs |-> recs])
  BY <1>3 DEF EventShape
<1> QED BY <1>4, <1>5, Zenon DEF recs

\* What Forward writes is an event.
LEMMA ForwardShape ==
    ASSUME NEW c \in Conns, Shown!KeptInv, Forward(c), NEW i \in Nat
    PROVE  LET msg == Head(listener[c]).msg
               e == [event |-> IF IsUpdate(msg) THEN "update-record" ELSE "new-record",
                     recs |-> {[id |-> msg.id, timed |-> IsUpdate(msg)]}]
           IN  msg \in Messages /\ e \in Event /\ EventShape(i, e)
<1> DEFINE msg == Head(listener[c]).msg
           e == [event |-> IF IsUpdate(msg) THEN "update-record" ELSE "new-record",
                 recs |-> {[id |-> msg.id, timed |-> IsUpdate(msg)]}]
<1>1. listener[c] # <<>> /\ listener[c] \in Seq(Shown!Numbered)
  <2>1. listener \in [Conns -> Seq(Shown!Numbered)]
    BY Zenon DEF Shown!KeptInv, Shown!OrderInv
  <2>2. listener[c] # <<>>
    BY Zenon DEF Forward, Events!Receive
  <2> QED BY <2>1, <2>2
<1>2. msg \in Messages
  <2>1. Head(listener[c]) \in Shown!Numbered
    BY <1>1
  <2> QED BY <2>1 DEF Shown!Numbered
<1>3. msg.id \in Ids
  BY <1>2 DEF Messages
<1> HIDE DEF msg
<1>4. CASE IsUpdate(msg)
  <2>1. e = [event |-> "update-record", recs |-> {[id |-> msg.id, timed |-> TRUE]}]
    BY <1>4, Zenon
  <2> HIDE DEF e
  <2>2. e \in Event
    BY <1>3, <2>1 DEF Event, Entry
  <2>3. EventShape(i, e)
    BY <1>3, <2>1 DEF EventShape
  <2> QED BY <1>2, <2>2, <2>3, Zenon DEF e, msg
<1>5. CASE ~IsUpdate(msg)
  <2>1. e = [event |-> "new-record", recs |-> {[id |-> msg.id, timed |-> FALSE]}]
    <3>1. IsUpdate(msg) = FALSE
      BY <1>5 DEF IsUpdate
    <3> QED BY <3>1, Zenon
  <2> HIDE DEF e
  <2>2. e \in Event
    BY <1>3, <2>1 DEF Event, Entry
  <2>3. EventShape(i, e)
    BY <1>3, <2>1 DEF EventShape
  <2> QED BY <1>2, <2>2, <2>3, Zenon DEF e, msg
<1> QED BY <1>4, <1>5

LEMMA ConnsStep ==
    ASSUME Store!TypeOK, Shown!KeptInv, ConnsInv, [Next]_vars
    PROVE  ConnsInv'
<1>0. /\ es \in Conns
      /\ conn \in [Conns -> {"new", "subscribed", "streaming", "left"}]
      /\ DOMAIN wire = Conns
      /\ \A c \in Conns : /\ WireShape(wire[c])
                          /\ conn[c] \in {"new", "subscribed"} => wire[c] = <<>>
                          /\ conn[c] = "new" => c \notin made
                          /\ c \in ended => conn[c] = "left"
                          /\ c > es => conn[c] = "new"
      /\ conn[es] # "left"
  BY Zenon DEF ConnsInv
<1>c. \A c, d \in Conns : c \in Nat /\ (d = c \/ d > c \/ c > d)
  <2>1. Conns \subseteq Nat
    <3>1. IsFiniteSet(Conns) /\ Conns = 1..Cardinality(Conns)
      BY PageAssumption
    <3>2. PICK n \in Nat : n = Cardinality(Conns)
      BY <3>1, FS_CardinalityType
    <3>3. Conns = 1..n
      BY <3>1, <3>2, Zenon
    <3> QED BY <3>3
  <2> QED BY <2>1
<1>n. WireShape(<<>>)
  BY DEF WireShape
<1>1. CASE UNCHANGED <<es, conn, wire, made, ended>>
  BY <1>1, Zenon DEF ConnsInv
<1>2. CASE BrokerStep \/ Recorder \/ ServeClear
  <2>1. UNCHANGED <<es, conn, wire>>
    BY <1>2, Zenon DEF BrokerStep, Broke, handlerVars, Recorder, Request, AddRecord, PublishRecord, ServerElapsed,
                       PublishUpdate, pageVars, ServeClear, RemoveAll
  <2>2. UNCHANGED <<made, ended>>
    BY <1>2, Zenon DEF BrokerStep, Broke, Events!Serve, Events!TakeSub, Events!TakeUnsub, Events!TakeMessage,
                       Recorder, Request, AddRecord, PublishRecord, ServerElapsed, PublishUpdate, Events!Publish,
                       brokerVars, ServeClear, RemoveAll
  <2> QED BY <1>1, <2>1, <2>2
<1>3. ASSUME NEW c \in Conns, Connects(c), Subscribe(c)
      PROVE  ConnsInv'
  <2>1. c = es /\ UNCHANGED <<es, wire, ended>> /\ conn[c] = "new" /\ made' = made \cup {c}
        /\ conn' = [conn EXCEPT ![c] = "subscribed"]
    BY <1>3, Zenon DEF Connects, Subscribe, Events!Subscribe
  <2> QED BY <1>0, <2>1 DEF ConnsInv
<1>4. ASSUME NEW c \in Conns, Connects(c), SendStart(c)
      PROVE  ConnsInv'
  <2> DEFINE e == [event |-> "start", recs |-> ThinCloneWithoutResponseBody]
  <2>1. /\ c = es /\ conn[c] = "subscribed" /\ conn' = [conn EXCEPT ![c] = "streaming"]
        /\ wire' = [wire EXCEPT ![c] = Append(wire[c], e)] /\ UNCHANGED es
    BY <1>4, Zenon DEF Connects, SendStart
  <2>2. UNCHANGED <<made, ended>>
    BY <1>4, Zenon DEF SendStart, brokerVars
  <2>3. e \in Event /\ EventShape(1, e)
    BY SnapshotShape
  <2> HIDE DEF e
  <2>4. wire[c] = <<>> /\ Len(<<>>) + 1 = 1
    BY <1>0, <2>1
  <2>5. WireShape(Append(wire[c], e))
    BY <1>n, <2>3, <2>4, WireAppend, Zenon
  <2> QED BY <1>0, <2>1, <2>2, <2>5 DEF ConnsInv
<1>5. ASSUME NEW c \in Conns, ForwardEvent(c)
      PROVE  ConnsInv'
  <2> DEFINE msg == Head(listener[c]).msg
             e == [event |-> IF IsUpdate(msg) THEN "update-record" ELSE "new-record",
                   recs |-> {[id |-> msg.id, timed |-> IsUpdate(msg)]}]
  <2>1. UNCHANGED <<es, conn>> /\ conn[c] \in {"streaming", "left"} /\ Forward(c)
    BY <1>5, Zenon DEF ForwardEvent, Forward
  <2>2. UNCHANGED <<made, ended>>
    BY <2>1, Zenon DEF Forward, Events!Receive
  <2>3. wire' = wire \/ wire' = [wire EXCEPT ![c] = Append(wire[c], e)]
    BY <2>1, Zenon DEF Forward
  <2>4. Len(wire[c]) \in Nat
    BY <1>0 DEF WireShape
  <2>5. e \in Event /\ EventShape(Len(wire[c]) + 1, e)
    BY <2>1, <2>4, ForwardShape
  <2> HIDE DEF e
  <2>6. WireShape(Append(wire[c], e))
    BY <1>0, <2>5, WireAppend
  <2> QED BY <1>0, <2>1, <2>2, <2>3, <2>6 DEF ConnsInv
<1>6. ASSUME NEW c \in Conns, PageLeaves(c)
      PROVE  ConnsInv'
  <2>1. /\ c < es /\ conn[c] = "streaming" /\ conn' = [conn EXCEPT ![c] = "left"]
        /\ wire' = [wire EXCEPT ![c] = <<>>] /\ UNCHANGED <<es, made>>
        /\ ended' = ended \cup {c}
    BY <1>6, Zenon DEF PageLeaves, Leave, Events!Unsubscribe, pageVars
  <2>2. c # es
    BY <1>0, <1>c, <2>1
  <2> QED BY <1>0, <1>c, <1>n, <2>1, <2>2 DEF ConnsInv
<1>7. CASE OnStart \/ OnNewRecord \/ OnUpdateRecord
  <2>1. PICK event \in {"start", "new-record", "update-record"} : Handled(event)
    BY <1>7 DEF OnStart, OnNewRecord, OnUpdateRecord
  <2>2. /\ WireShape(wire[es]) /\ wire[es] # <<>>
        /\ wire' = [wire EXCEPT ![es] = Tail(wire[es])] /\ UNCHANGED <<es, conn>>
    BY <2>1, HandledEvent
  <2>3. UNCHANGED <<made, ended>>
    BY <2>1, HandledEvent DEF brokerVars
  <2>4. WireShape(Tail(wire[es]))
    BY <2>2, WireTail
  <2> QED BY <1>0, <2>2, <2>3, <2>4 DEF ConnsInv
<1>8. CASE SortAndTrim \/ EmitFilterRecords \/ \E q \in Queries : TypeQuery(q)
  BY <1>1, <1>8, Zenon DEF SortAndTrim, EmitFilterRecords, TypeQuery, streamVars, handlerVars, brokerVars
<1>9. CASE ClearRecords \/ OnCleared \/ ClearFails
  BY <1>1, <1>9, Zenon DEF ClearRecords, OnCleared, ClearFails, streamVars, handlerVars, brokerVars
<1>10. CASE Reconnect
  <2>1. es + 1 \in Conns /\ es' = es + 1 /\ UNCHANGED <<conn, wire, made, ended>>
    BY <1>10, Zenon DEF Reconnect, streamVars, handlerVars, brokerVars
  <2>2. es \in Nat
    BY <1>0, <1>c
  <2>3. es + 1 > es /\ \A c \in Conns : c > es + 1 => c > es
    BY <1>c, <2>2
  <2>4. conn[es'] # "left"
    <3>1. conn[es + 1] = "new"
      BY <1>0, <2>1, <2>3
    <3> QED BY <2>1, <3>1
  <2> QED BY <1>0, <2>1, <2>3, <2>4 DEF ConnsInv
<1>11. CASE UNCHANGED vars
  BY <1>1, <1>11, Zenon DEF vars, pageVars, streamVars, handlerVars, brokerVars
<1> QED BY <1>2, <1>3, <1>4, <1>5, <1>6, <1>7, <1>8, <1>9, <1>10, <1>11, Zenon DEF Next, Connects

-----------------------------------------------------------------------------
(* The list.                                                               *)

LEMMA FirstOfLists ==
    ASSUME recordList \in Seq(Entry), NEW id \in Listed
    PROVE  /\ FirstOf(id) \in 1..Len(recordList) /\ recordList[FirstOf(id)].id = id
           /\ \A j \in 1..FirstOf(id) - 1 : recordList[j].id # id
<1>1. DOMAIN recordList = 1..Len(recordList)
  BY Places
<1>2. \E i \in DOMAIN recordList : recordList[i].id = id
  BY DEF Listed
<1>3. \E i \in DOMAIN recordList : recordList[i].id = id /\ \A j \in 1..i - 1 : recordList[j].id # id
  BY <1>2, FirstExists
<1> QED BY <1>1, <1>3, Zenon DEF FirstOf

LEMMA TimeSet ==
    ASSUME NEW r \in Entry
    PROVE  [r EXCEPT !.timed = TRUE] = [id |-> r.id, timed |-> TRUE]
<1> DEFINE x == [r EXCEPT !.timed = TRUE]
<1>1. x \in Entry
  BY DEF Entry
<1>2. x.id = r.id /\ x.timed = TRUE
  BY DEF Entry
<1> HIDE DEF x
<1>3. x = [id |-> x.id, timed |-> x.timed]
  BY <1>1 DEF Entry
<1> QED BY <1>2, <1>3, Zenon DEF x

\* The entry that gets the time, and the others.
LEMMA UpdateLists ==
    ASSUME recordList \in Seq(Entry), NEW id \in Listed,
           recordList' = [recordList EXCEPT ![FirstOf(id)].timed = TRUE]
    PROVE  /\ recordList' \in Seq(Entry) /\ Len(recordList') = Len(recordList)
           /\ recordList'[FirstOf(id)] = [id |-> id, timed |-> TRUE]
           /\ \A i \in 1..Len(recordList) : i # FirstOf(id) => recordList'[i] = recordList[i]
           /\ \A i \in 1..Len(recordList) : recordList'[i].id = recordList[i].id
<1>1. PICK f \in 1..Len(recordList) : f = FirstOf(id)
  BY FirstOfLists
<1>2. recordList[f].id = id /\ recordList[f] \in Entry /\ f \in DOMAIN recordList
  BY <1>1, FirstOfLists
<1>3. recordList' = [recordList EXCEPT ![f] = [recordList[f] EXCEPT !.timed = TRUE]]
  BY <1>1, Zenon
<1>4. PICK e \in Entry : e = [id |-> id, timed |-> TRUE]
  BY <1>2 DEF Entry
<1>5. [recordList[f] EXCEPT !.timed = TRUE] = e
  BY <1>2, <1>4, TimeSet
<1>6. recordList' = [recordList EXCEPT ![f] = e]
  BY <1>3, <1>5, Zenon
<1>7. /\ recordList' \in Seq(Entry) /\ Len(recordList') = Len(recordList)
      /\ \A i \in 1..Len(recordList) : recordList'[i] = IF i = f THEN e ELSE recordList[i]
  <2> DEFINE l == [recordList EXCEPT ![f] = e]
  <2>1. l \in Seq(Entry) /\ Len(l) = Len(recordList)
        /\ \A i \in 1..Len(recordList) : l[i] = IF i = f THEN e ELSE recordList[i]
    BY ExceptSeq
  <2>2. recordList' = l
    BY <1>6
  <2> HIDE DEF l
  <2> QED BY <2>1, <2>2, Zenon
<1>8. e.id = id
  BY <1>4
<1>9. \A i \in 1..Len(recordList) : recordList'[i].id = recordList[i].id
  BY <1>2, <1>7, <1>8, Zenon
<1> QED BY <1>1, <1>4, <1>7, <1>9, Zenon

LEMMA FrontLists ==
    ASSUME recordList \in Seq(Entry), NEW r \in Entry, recordList' = <<r>> \o recordList
    PROVE  /\ recordList' \in Seq(Entry) /\ Len(recordList') = Len(recordList) + 1
           /\ recordList'[1] = r
           /\ \A i \in 1..Len(recordList) : recordList'[i + 1] = recordList[i]
           /\ \A i \in 2..Len(recordList') : i - 1 \in 1..Len(recordList) /\ recordList'[i] = recordList[i - 1]
OBVIOUS

LEMMA TrimmedLists ==
    ASSUME NEW list \in Seq(Entry)
    PROVE  /\ Trimmed(list) \in Seq(Entry)
           /\ Len(list) \in Nat /\ Len(Trimmed(list)) \in Nat /\ Len(Trimmed(list)) <= Len(list)
           /\ \A i \in 1..Len(Trimmed(list)) : Trimmed(list)[i] = list[i]
           /\ \/ Trimmed(list) = list
              \/ maxRecords > 0 /\ Len(Trimmed(list)) = maxRecords /\ Len(list) > maxRecords
<1>1. maxRecords \in Nat
  BY SizesAssumption
<1>2. CASE maxRecords > 0 /\ Len(list) > maxRecords
  <2>1. Trimmed(list) = SubSeq(list, 1, maxRecords)
    BY <1>2, Zenon DEF Trimmed
  <2> QED BY <1>1, <1>2, <2>1
<1>3. CASE ~(maxRecords > 0 /\ Len(list) > maxRecords)
  <2>1. Trimmed(list) = list
    BY <1>3, Zenon DEF Trimmed
  <2> QED BY <2>1
<1> QED BY <1>2, <1>3

LEMMA StartLists ==
    ASSUME NEW recs \in SUBSET Entry, OneEach(recs), StreamStart(recs)
    PROVE  /\ recordList' = ById(recs) /\ recordList' \in Seq(Entry)
           /\ filtered' = Matching(recordList', query) /\ emitting'
           /\ UNCHANGED <<query, sorting, sidebarRecords>>
<1>1. recordList' = ById(recs) /\ filtered' = Matching(recordList', query) /\ emitting'
      /\ UNCHANGED <<query, sorting, sidebarRecords>>
  BY Zenon DEF StreamStart, filterRecords, Debounce
<1> QED BY <1>1, ByIdLists

\* What a step does with the list.
Starts(recs) ==
    /\ recs \in SUBSET Entry /\ OneEach(recs)
    /\ recordList' = ById(recs) /\ filtered' = Matching(recordList', query) /\ emitting'
    /\ UNCHANGED <<query, sorting, sidebarRecords>>
Fronts(id) ==
    /\ recordList' = <<[id |-> id, timed |-> FALSE]>> \o recordList /\ sorting'
    /\ UNCHANGED <<query, filtered, emitting, sidebarRecords>>
Updates(id) ==
    /\ id \in Listed /\ recordList' = [recordList EXCEPT ![FirstOf(id)].timed = TRUE]
    /\ \/ RefilterOnUpdate /\ filtered' = Matching(recordList', query) /\ emitting'
       \/ ~RefilterOnUpdate /\ UNCHANGED <<filtered, emitting>>
    /\ UNCHANGED <<query, sorting, sidebarRecords>>
Trims ==
    /\ sorting /\ sorting' = FALSE /\ recordList' = Trimmed(Sorted(recordList))
    /\ filtered' = Matching(recordList', query) /\ emitting'
    /\ UNCHANGED <<query, sidebarRecords>>
Searches ==
    /\ query' \in Queries /\ filtered' = Matching(recordList', query') /\ emitting'
    /\ UNCHANGED <<recordList, sorting, sidebarRecords>>
Copies ==
    /\ emitting /\ emitting' = FALSE /\ sidebarRecords' = filtered
    /\ UNCHANGED <<recordList, query, filtered, sorting>>

LEMMA StartCases ==
    ASSUME ConnsInv, OnStart
    PROVE  \/ UNCHANGED listVars
           \/ Starts(Head(wire[es]).recs)
<1>1. Handled("start")
  BY Zenon DEF OnStart
<1>2. Head(wire[es]).recs \in SUBSET Entry /\ OneEach(Head(wire[es]).recs)
  BY <1>1, HandledEvent, StartOf
<1>3. StreamStart(Head(wire[es]).recs) \/ UNCHANGED listVars
  BY Zenon DEF OnStart
<1> QED BY <1>2, <1>3, StartLists, Zenon DEF Starts

LEMMA NewCases ==
    ASSUME ConnsInv, OnNewRecord
    PROVE  \E id \in Ids : /\ Head(wire[es]).recs = {[id |-> id, timed |-> FALSE]}
                           /\ UNCHANGED untold
                           /\ \/ /\ id \in undecodable /\ unseen' = unseen \cup {id}
                                 /\ UNCHANGED listVars
                              \/ Fronts(id) /\ UNCHANGED unseen
<1>1. Handled("new-record")
  BY Zenon DEF OnNewRecord
<1>2. PICK id \in Ids : /\ Head(wire[es]).recs = {[id |-> id, timed |-> FALSE]}
                        /\ (CHOOSE x \in Head(wire[es]).recs : TRUE) = [id |-> id, timed |-> FALSE]
  BY <1>1, HandledEvent, NewOf
<1> DEFINE r == CHOOSE x \in Head(wire[es]).recs : TRUE
<1>3. r = [id |-> id, timed |-> FALSE]
  BY <1>2
<1>4. \/ r.id \in undecodable /\ unseen' = unseen \cup {r.id} /\ UNCHANGED listVars
      \/ /\ recordList' = <<r>> \o recordList /\ sorting'
         /\ UNCHANGED <<query, filtered, emitting, sidebarRecords, unseen>>
  BY Zenon DEF OnNewRecord, Debounce
<1>5. UNCHANGED untold
  BY Zenon DEF OnNewRecord
<1> HIDE DEF r
<1>6. r.id = id
  BY <1>3
<1> QED BY <1>2, <1>3, <1>4, <1>5, <1>6, Zenon DEF Fronts

LEMMA UpdateCases ==
    ASSUME ConnsInv, OnUpdateRecord
    PROVE  \E id \in Ids : /\ Head(wire[es]).recs = {[id |-> id, timed |-> TRUE]}
                           /\ UNCHANGED unseen
                           /\ \/ /\ id \notin Listed /\ untold' = untold \cup {id}
                                 /\ UNCHANGED listVars
                              \/ Updates(id) /\ UNCHANGED untold
<1>1. Handled("update-record")
  BY Zenon DEF OnUpdateRecord
<1>2. PICK id \in Ids : /\ Head(wire[es]).recs = {[id |-> id, timed |-> TRUE]}
                        /\ (CHOOSE x \in Head(wire[es]).recs : TRUE).id = id
  BY <1>1, HandledEvent, UpdateOf
<1> DEFINE i == (CHOOSE x \in Head(wire[es]).recs : TRUE).id
<1>3. i = id
  BY <1>2
<1>4. \/ i \notin Listed /\ untold' = untold \cup {i} /\ UNCHANGED listVars
      \/ /\ i \in Listed /\ recordList' = [recordList EXCEPT ![FirstOf(i)].timed = TRUE]
         /\ \/ RefilterOnUpdate /\ filtered' = Matching(recordList', query) /\ emitting'
            \/ ~RefilterOnUpdate /\ UNCHANGED <<filtered, emitting>>
         /\ UNCHANGED <<query, sorting, sidebarRecords, untold>>
  BY Zenon DEF OnUpdateRecord, filterRecords, Debounce
<1>5. UNCHANGED unseen
  BY Zenon DEF OnUpdateRecord
<1> HIDE DEF i
<1> QED BY <1>2, <1>3, <1>4, <1>5, Zenon DEF Updates

LEMMA ClearCases ==
    ASSUME OnCleared
    PROVE  Starts({})
<1>1. {} \in SUBSET Entry /\ OneEach({})
  BY DEF OneEach
<1>2. StreamStart({})
  BY Zenon DEF OnCleared
<1> QED BY <1>1, <1>2, StartLists, Zenon DEF Starts

LEMMA ListCases ==
    ASSUME ConnsInv, [Next]_vars
    PROVE  \/ UNCHANGED listVars
           \/ \E recs \in SUBSET Entry : Starts(recs)
           \/ \E id \in Ids : Fronts(id) \/ Updates(id)
           \/ Trims \/ Searches \/ Copies
<1>1. CASE Recorder \/ BrokerStep
  BY <1>1, Zenon DEF Recorder, BrokerStep, pageVars
<1>2. CASE \E c \in Conns : Connects(c) \/ ForwardEvent(c) \/ PageLeaves(c)
  BY <1>2, Zenon DEF Connects, ForwardEvent, PageLeaves, pageVars
<1>3. CASE OnStart
  BY <1>3, StartCases, Zenon DEF Starts
<1>4. CASE OnNewRecord
  BY <1>4, NewCases, Zenon
<1>5. CASE OnUpdateRecord
  BY <1>5, UpdateCases, Zenon
<1>6. CASE SortAndTrim
  BY <1>6, Zenon DEF SortAndTrim, Elapses, filterRecords, Debounce, Trims
<1>7. CASE EmitFilterRecords
  BY <1>7, Zenon DEF EmitFilterRecords, Elapses, Copies
<1>8. CASE \E q \in Queries : TypeQuery(q)
  <2>1. PICK q \in Queries : TypeQuery(q)
    BY <1>8
  <2> QED BY <2>1, Zenon DEF TypeQuery, filterRecords, Debounce, Searches
<1>9. CASE OnCleared
  BY <1>9, ClearCases, Zenon DEF Starts
<1>10. CASE ClearRecords \/ ServeClear \/ ClearFails \/ Reconnect
  BY <1>10, Zenon DEF ClearRecords, ServeClear, ClearFails, Reconnect
<1>11. CASE UNCHANGED vars
  BY <1>11, Zenon DEF vars, pageVars
<1> QED BY <1>1, <1>2, <1>3, <1>4, <1>5, <1>6, <1>7, <1>8, <1>9, <1>10, <1>11, Zenon DEF Next

LEMMA ListTypesStep ==
    ASSUME ConnsInv, ListTypes, [Next]_vars
    PROVE  ListTypes'
<1> USE DEF ListTypes
<1>1. CASE UNCHANGED listVars
  BY <1>1, Zenon DEF listVars
<1>2. ASSUME NEW recs \in SUBSET Entry, Starts(recs) PROVE ListTypes'
  <2>1. recordList' \in Seq(Entry)
    BY <1>2, ByIdLists DEF Starts
  <2>2. filtered' = Matching(recordList', query) /\ UNCHANGED <<query, sidebarRecords>>
    BY <1>2, Zenon DEF Starts
  <2> QED BY <2>1, <2>2, MatchingType
<1>3. ASSUME NEW id \in Ids, Fronts(id) PROVE ListTypes'
  <2>1. [id |-> id, timed |-> FALSE] \in Entry
    BY DEF Entry
  <2>2. recordList' \in Seq(Entry)
    BY <1>3, <2>1, FrontLists DEF Fronts
  <2> QED BY <1>3, <2>2 DEF Fronts
<1>4. ASSUME NEW id \in Ids, Updates(id) PROVE ListTypes'
  <2>1. recordList' \in Seq(Entry)
    BY <1>4, UpdateLists DEF Updates
  <2>2. /\ filtered' = Matching(recordList', query) \/ filtered' = filtered
        /\ UNCHANGED <<query, sidebarRecords>>
    BY <1>4, Zenon DEF Updates
  <2> QED BY <2>1, <2>2, MatchingType
<1>5. CASE Trims
  <2>1. recordList' \in Seq(Entry)
    BY <1>5, TrimmedLists, SortedOrders DEF Trims
  <2>2. filtered' = Matching(recordList', query) /\ UNCHANGED <<query, sidebarRecords>>
    BY <1>5, Zenon DEF Trims
  <2> QED BY <2>1, <2>2, MatchingType
<1>6. CASE Searches
  <2>1. /\ query' \in Queries /\ filtered' = Matching(recordList', query')
        /\ UNCHANGED <<recordList, sidebarRecords>>
    BY <1>6, Zenon DEF Searches
  <2> QED BY <2>1, MatchingType
<1>7. CASE Copies
  BY <1>7 DEF Copies
<1> QED BY <1>1, <1>2, <1>3, <1>4, <1>5, <1>6, <1>7, ListCases

LEMMA PageTypesStep ==
    ASSUME ConnsInv, PageTypes, [Next]_vars
    PROVE  PageTypes'
<1>1. sorting' \in BOOLEAN /\ emitting' \in BOOLEAN
  <2>1. sorting \in BOOLEAN /\ emitting \in BOOLEAN
    BY Zenon DEF PageTypes
  <2> QED BY <2>1, ListCases, Zenon DEF listVars, Starts, Fronts, Updates, Trims, Searches, Copies
<1>2. undecodable' = undecodable
  BY Zenon DEF Next, Recorder, BrokerStep, Connects, ForwardEvent, PageLeaves, OnStart, OnNewRecord,
     OnUpdateRecord, Handled, SortAndTrim, EmitFilterRecords, TypeQuery, ClearRecords, ServeClear,
     OnCleared, ClearFails, Reconnect, pageVars, vars
<1>3. clearing' \in {clearing, "no", "asked", "served"}
  BY Zenon DEF Next, Recorder, BrokerStep, Connects, ForwardEvent, PageLeaves, OnStart, OnNewRecord,
     OnUpdateRecord, Handled, SortAndTrim, EmitFilterRecords, TypeQuery, ClearRecords, ServeClear,
     OnCleared, ClearFails, Reconnect, pageVars, vars
<1>4. turns' = turns \/ (turns < MaxTurns /\ turns' = turns + 1)
  BY Zenon DEF Next, Recorder, BrokerStep, Connects, ForwardEvent, PageLeaves, OnStart, OnNewRecord,
     OnUpdateRecord, Handled, SortAndTrim, EmitFilterRecords, TypeQuery, ClearRecords, ServeClear,
     OnCleared, ClearFails, Reconnect, pageVars, vars
<1>5. undecodable \in Undecodable /\ clearing \in {"no", "asked", "served"} /\ turns \in 0..MaxTurns
  BY Zenon DEF PageTypes
<1>6. clearing' \in {"no", "asked", "served"}
  BY <1>3, <1>5
<1>7. turns' \in 0..MaxTurns
  <2>1. MaxTurns \in Nat /\ turns \in 0..MaxTurns
    BY <1>5, PageAssumption
  <2> QED BY <1>4, <2>1
<1> QED BY <1>1, <1>2, <1>5, <1>6, <1>7, Zenon DEF PageTypes

LEMMA MissedTypes ==
    ASSUME Shown!KeptInv, Events!Serve
    PROVE  \A m \in MissedNow : m \in Messages /\ m.id \in Ids
<1> SUFFICES ASSUME NEW m \in MissedNow PROVE m \in Messages /\ m.id \in Ids
  OBVIOUS
<1>1. m = Head(publishCh).msg /\ publishCh' # publishCh
  BY DEF MissedNow
<1>2. publishCh # <<>>
  BY <1>1, Zenon DEF Events!Serve, Events!TakeSub, Events!TakeUnsub, Events!TakeMessage
<1>3. publishCh \in Seq(Shown!Numbered)
  BY DEF Shown!KeptInv, Shown!OrderInv
<1>4. Head(publishCh) \in Shown!Numbered
  BY <1>2, <1>3
<1> QED BY <1>1, <1>4 DEF Shown!Numbered, Messages

LEMMA TimesTypes ==
    ASSUME ConnsInv, HandlerTypes, NEW c \in Conns
    PROVE  TimesOnTheWay(c) \subseteq Ids
<1>1. WireShape(wire[c])
  BY DEF ConnsInv
<1>2. ASSUME NEW i \in DOMAIN wire[c], NEW x \in wire[c][i].recs
      PROVE  x.id \in Ids
  <2>1. wire[c][i] \in Event
    BY <1>1 DEF WireShape
  <2> QED BY <2>1 DEF Event, Entry
<1>3. timed \subseteq Ids
  BY DEF HandlerTypes
<1> QED BY <1>2, <1>3 DEF TimesOnTheWay

LEMMA HistoryTypesStep ==
    ASSUME Store!TypeOK, Shown!KeptInv, ConnsInv, HandlerTypes, HistoryTypes, [Next]_vars
    PROVE  HistoryTypes'
<1>0. /\ unseen \subseteq Ids /\ untold \subseteq Ids /\ overlap \subseteq Ids
      /\ answered \subseteq Ids /\ records \subseteq Ids
  BY SizesAssumption DEF HistoryTypes, HandlerTypes, Store!TypeOK, Ids
<1>1. CASE UNCHANGED <<unseen, untold, overlap>>
  BY <1>1 DEF HistoryTypes
<1>2. CASE Recorder
  BY <1>1, <1>2, Zenon DEF Recorder, pageVars
<1>3. CASE BrokerStep
  <2>1. /\ unseen' = unseen \cup {m.id : m \in {x \in MissedNow : x.kind = "record"}}
        /\ untold' = untold \cup {m.id : m \in {x \in MissedNow : x.kind = "update"}}
        /\ overlap' = overlap /\ Events!Serve
    BY <1>3, Zenon DEF BrokerStep, Broke
  <2>2. \A m \in MissedNow : m.id \in Ids
    BY <2>1, MissedTypes
  <2> QED BY <1>0, <2>1, <2>2 DEF HistoryTypes
<1>4. ASSUME NEW c \in Conns, Connects(c) PROVE HistoryTypes'
  <2>1. /\ unseen' \subseteq unseen /\ untold' \subseteq untold
        /\ overlap' \subseteq overlap \cup records
    BY <1>4 DEF Connects
  <2> QED BY <1>0, <2>1 DEF HistoryTypes
<1>5. ASSUME NEW c \in Conns, ForwardEvent(c) PROVE HistoryTypes'
  <2>1. Head(listener[c]).msg.id \in Ids
    <3>1. Forward(c)
      BY <1>5, Zenon DEF ForwardEvent
    <3>2. Head(listener[c]).msg \in Messages
      <4>1. 1 \in Nat
        OBVIOUS
      <4> QED BY <3>1, <4>1, ForwardShape
    <3> QED BY <3>2 DEF Messages
  <2>2. unseen' \subseteq unseen \cup {Head(listener[c]).msg.id} /\ UNCHANGED <<untold, overlap>>
    BY <1>5 DEF ForwardEvent
  <2> QED BY <1>0, <2>1, <2>2 DEF HistoryTypes
<1>6. CASE OnStart
  <2> DEFINE recs == Head(wire[es]).recs
  <2>1. Handled("start")
    BY <1>6, Zenon DEF OnStart
  <2>2. \A r \in recs : r.id \in Ids
    <3>1. recs \in SUBSET Entry
      BY <2>1, HandledEvent, StartOf
    <3> QED BY <3>1 DEF Entry
  <2>3. overlap' = overlap
    BY <2>1, Zenon DEF Handled
  <2>4. /\ unseen' \subseteq unseen \cup {r.id : r \in recs}
        /\ untold' \subseteq untold \cup {r.id : r \in recs}
    BY <1>6 DEF OnStart
  <2> HIDE DEF recs
  <2> QED BY <1>0, <2>2, <2>3, <2>4 DEF HistoryTypes
<1>7. CASE OnNewRecord
  <2>1. overlap' = overlap
    BY <1>7, Zenon DEF OnNewRecord, Handled
  <2>2. PICK id \in Ids : UNCHANGED untold /\ (unseen' = unseen \cup {id} \/ UNCHANGED unseen)
    BY <1>7, NewCases, Zenon
  <2> QED BY <1>0, <2>1, <2>2 DEF HistoryTypes
<1>8. CASE OnUpdateRecord
  <2>1. overlap' = overlap
    BY <1>8, Zenon DEF OnUpdateRecord, Handled
  <2>2. PICK id \in Ids : UNCHANGED unseen /\ (untold' = untold \cup {id} \/ UNCHANGED untold)
    BY <1>8, UpdateCases, Zenon
  <2> QED BY <1>0, <2>1, <2>2 DEF HistoryTypes
<1>9. CASE SortAndTrim \/ EmitFilterRecords \/ \E q \in Queries : TypeQuery(q)
  BY <1>1, <1>9, Zenon DEF SortAndTrim, EmitFilterRecords, TypeQuery
<1>10. CASE OnCleared
  <2>1. /\ unseen' \subseteq unseen \cup records /\ untold' = untold \cup answered
        /\ overlap' = overlap
    BY <1>10 DEF OnCleared
  <2> QED BY <1>0, <2>1 DEF HistoryTypes
<1>11. CASE Reconnect
  <2>1. untold' = untold \cup TimesOnTheWay(es) /\ UNCHANGED <<unseen, overlap>>
    BY <1>11, Zenon DEF Reconnect
  <2>2. TimesOnTheWay(es) \subseteq Ids
    BY TimesTypes DEF ConnsInv
  <2> QED BY <1>0, <2>1, <2>2 DEF HistoryTypes
<1>12. CASE (\E c \in Conns : PageLeaves(c)) \/ ClearRecords \/ ServeClear \/ ClearFails \/ UNCHANGED vars
  BY <1>1, <1>12, Zenon DEF PageLeaves, ClearRecords, ServeClear, ClearFails, vars, pageVars
<1> QED BY <1>2, <1>3, <1>4, <1>5, <1>6, <1>7, <1>8, <1>9, <1>10, <1>11, <1>12, Zenon DEF Next

LEMMA BaseInit == Init => Base
<1> SUFFICES ASSUME Init PROVE Base
  OBVIOUS
<1>1. maxRecords \in Nat /\ MaxId \in Nat /\ PublishSize \in Nat /\ ListenerSize \in Nat
  BY SizesAssumption
<1>2. Store!TypeOK
  <2>1. seqId = 0 /\ pending = {} /\ records = {} /\ lastDeleted = 0 /\ missed = {}
    BY Zenon DEF Init, StreamInit, Store!Init
  <2> QED BY <1>1, <2>1 DEF Store!TypeOK
<1>3. Shown!KeptInv
  <2>1. Shown!Init
    BY SameInit, Zenon DEF Init, StreamInit
  <2> QED BY <1>1, <2>1, Shown!KeptInit
<1>4. ConnsInv
  <2>1. /\ es = 1 /\ conn = [c \in Conns |-> "new"] /\ wire = [c \in Conns |-> <<>>] /\ made = {} /\ ended = {}
    BY Zenon DEF Init, StreamInit, Events!Init
  <2>2. WireShape(<<>>)
    BY DEF WireShape
  <2>3. 1 \in Conns
    <3>1. IsFiniteSet(Conns) /\ Conns = 1..Cardinality(Conns) /\ Conns # {}
      BY PageAssumption
    <3>2. PICK n \in Nat : n = Cardinality(Conns)
      BY <3>1, FS_CardinalityType
    <3>3. Conns = 1..n /\ Conns # {}
      BY <3>1, <3>2, Zenon
    <3> QED BY <3>3
  <2> QED BY <2>1, <2>2, <2>3 DEF ConnsInv
<1>5. HandlerTypes /\ ListTypes /\ HistoryTypes
  <2>1. <<>> \in Seq(Entry) /\ <<>> \in Seq(Ids)
    OBVIOUS
  <2> QED BY <2>1, PageAssumption DEF Init, StreamInit, HandlerTypes, ListTypes, HistoryTypes
<1>6. PageTypes
  <2>1. 0 \in 0..MaxTurns
    <3>1. MaxTurns \in Nat
      BY PageAssumption
    <3> QED BY <3>1
  <2> QED BY <2>1, Zenon DEF Init, PageTypes
<1> QED BY <1>2, <1>3, <1>4, <1>5, <1>6, Zenon DEF Base

LEMMA BaseStep ==
    ASSUME Base, [Next]_vars
    PROVE  Base'
<1>1. /\ Store!TypeOK /\ Shown!KeptInv /\ ConnsInv
      /\ HandlerTypes /\ ListTypes /\ PageTypes /\ HistoryTypes
  BY Zenon DEF Base
<1>2. Shown!KeptInv'
  <2>1. PublishSize \in Nat /\ ListenerSize \in Nat
    BY SizesAssumption
  <2> QED BY <1>1, <2>1, BrokerOrNot, Shown!KeptStep
<1> QED BY <1>1, <1>2, StoreStep, ConnsStep, HandlerTypesStep, ListTypesStep, PageTypesStep,
           HistoryTypesStep, Zenon DEF Base

LEMMA BaseTypes == Base => TypeOK
<1> SUFFICES ASSUME Base PROVE TypeOK
  OBVIOUS
<1>1. /\ Store!TypeOK /\ Shown!KeptInv /\ ConnsInv
      /\ HandlerTypes /\ ListTypes /\ PageTypes /\ HistoryTypes
  BY Zenon DEF Base
<1>2. Events!TypeOK
  <2>1. Shown!TypeOK
    BY <1>1, Shown!KeptTypes
  <2> QED BY <2>1, Zenon DEF Shown!TypeOK, Events!TypeOK, Shown!Numbered, Events!Numbered
<1>3. \A c \in Conns : \A i \in DOMAIN wire[c] :
           /\ wire[c][i].event \in {"start", "new-record", "update-record"}
           /\ wire[c][i].recs \subseteq Entry
  <2> SUFFICES ASSUME NEW c \in Conns, NEW i \in DOMAIN wire[c]
               PROVE  /\ wire[c][i].event \in {"start", "new-record", "update-record"}
                      /\ wire[c][i].recs \subseteq Entry
    OBVIOUS
  <2>1. wire[c] \in Seq(Event)
    BY <1>1, Zenon DEF ConnsInv, WireShape
  <2>2. wire[c][i] \in Event
    BY <2>1
  <2> QED BY <2>2 DEF Event
<1>4. adding \cup timing \cup timed \cup answered \subseteq Ids
  BY <1>1 DEF HandlerTypes
<1> QED BY <1>1, <1>2, <1>3, <1>4, Zenon DEF TypeOK, ConnsInv, ListTypes, PageTypes, HistoryTypes

(* Every variable keeps its type, the store's and the broker's included.    *)
THEOREM TypeCorrect == Spec => []TypeOK
<1>1. Base /\ [Next]_vars => Base'
  BY BaseStep
<1> QED BY <1>1, BaseInit, BaseTypes, PTL DEF Spec

-----------------------------------------------------------------------------
(* The dashboard's copy.                                                   *)

Views ==
    /\ \/ sorting
       \/ filtered = Matching(recordList, query)
       \/ query = "serverelapsed"
    /\ emitting \/ sidebarRecords = filtered

LEMMA ViewsStep ==
    ASSUME Base, Views, [Next]_vars
    PROVE  Views'
<1>1. ConnsInv /\ recordList \in Seq(Entry) /\ query \in Queries
  BY Zenon DEF Base, ListTypes
<1>2. CASE UNCHANGED listVars
  BY <1>2, Zenon DEF Views, listVars
<1>3. ASSUME NEW recs \in SUBSET Entry, Starts(recs) PROVE Views'
  BY <1>3, Zenon DEF Starts, Views
<1>4. ASSUME NEW id \in Ids, Fronts(id) PROVE Views'
  BY <1>4, Zenon DEF Fronts, Views
<1>5. ASSUME NEW id \in Ids, Updates(id) PROVE Views'
  <2>1. CASE RefilterOnUpdate /\ filtered' = Matching(recordList', query) /\ emitting'
    BY <1>5, <2>1, Zenon DEF Updates, Views
  <2>2. CASE ~RefilterOnUpdate /\ UNCHANGED <<filtered, emitting>>
    <3>1. query = "" \/ query = "serverelapsed"
      BY <1>1, <2>2, PageAssumption DEF RefilterOnUpdate
    <3>2. CASE query = ""
      <4>1. /\ recordList' \in Seq(Entry) /\ Len(recordList') = Len(recordList)
            /\ \A i \in 1..Len(recordList) : recordList'[i].id = recordList[i].id
        BY <1>1, <1>5, UpdateLists DEF Updates
      <4>2. PICK list \in Seq(Entry) : list = recordList'
        BY <4>1
      <4>3. Matching(list, "") = Matching(recordList, "")
        BY <1>1, <4>1, <4>2, MatchingAll
      <4>4. "" # "serverelapsed"
        OBVIOUS
      <4> QED BY <1>5, <2>2, <3>2, <4>2, <4>3, <4>4, Zenon DEF Updates, Views
    <3>3. CASE query = "serverelapsed"
      BY <1>5, <2>2, <3>3, Zenon DEF Updates, Views
    <3> QED BY <3>1, <3>2, <3>3
  <2> QED BY <1>5, <2>1, <2>2, Zenon DEF Updates
<1>6. CASE Trims \/ Searches \/ Copies
  BY <1>6, Zenon DEF Trims, Searches, Copies, Views
<1> QED BY <1>1, <1>2, <1>3, <1>4, <1>5, <1>6, ListCases

(* When no timer runs the dashboard has exactly the records the search lets *)
(* through now, unless it asks for the server's time in other letters than  *)
(* those Sidebar looks for.                                                 *)
THEOREM ViewsHold == Spec => []ViewsAgree
<1>1. Init => Views
  <2> SUFFICES ASSUME Init PROVE Views
    OBVIOUS
  <2>1. Matching(<<>>, "") = <<>>
    <3>1. <<>> \in Seq(Entry) /\ DOMAIN <<>> = {}
      OBVIOUS
    <3>2. {i \in DOMAIN <<>> : "" = "" \/ <<>>[i].timed} = {}
      BY <3>1
    <3>3. Cardinality({}) = 0 /\ IsFiniteSet({}) /\ {} \in SUBSET Nat
      BY FS_EmptySet
    <3>4. Ascending({}) \in [1..0 -> {}]
      BY <3>3, AscendingSorts
    <3>5. DOMAIN Ascending({}) = {}
      BY <3>4
    <3>6. Matching(<<>>, "") = [k \in {} |-> <<>>[Ascending({})[k]].id]
      BY <3>2, <3>5, Zenon DEF Matching
    <3> DEFINE m == Matching(<<>>, "")
    <3>7. m \in Seq(Ids) /\ DOMAIN m = {}
      BY <3>1, <3>6, MatchingType
    <3> HIDE DEF m
    <3>8. Len(m) = 0
      BY <3>7
    <3>9. m = <<>>
      BY <3>7, <3>8, EmptySeq
    <3> QED BY <3>9, Zenon DEF m
  <2> QED BY <2>1, Zenon DEF Init, Views
<1>2. Base /\ Views /\ [Next]_vars => Base' /\ Views'
  BY BaseStep, ViewsStep
<1>3. Views => ViewsAgree
  BY Zenon DEF Views, ViewsAgree
<1> QED BY <1>1, <1>2, <1>3, BaseInit, PTL DEF Spec

-----------------------------------------------------------------------------
(* What a step means to the page: the messages on their way to it, its     *)
(* list and the histories.                                                 *)

Waiting == listener[es]
Wire == wire[es]
Streaming == conn[es] = "streaming"
Past == 1..seqId \ pending

listView == <<recordList, sorting>>
histories == <<unseen, untold, overlap>>

Quiet == UNCHANGED <<adding, timing, timed, publishCh, Waiting, Wire, Streaming>>

RecordMsg(id) == [id |-> id, kind |-> "record"]
UpdateMsg(id) == [id |-> id, kind |-> "update"]
NewEvent(id) == [event |-> "new-record", recs |-> {[id |-> id, timed |-> FALSE]}]
UpdateEvent(id) == [event |-> "update-record", recs |-> {[id |-> id, timed |-> TRUE]}]

Passes == records' \subseteq records /\ Quiet /\ UNCHANGED <<listView, histories>>

Stores(id) ==
    /\ id \in Past' \ Past /\ records' \subseteq records \cup {id}
    /\ adding' = adding \cup {id}
    /\ UNCHANGED <<timing, timed, publishCh, Waiting, Wire, Streaming, listView, histories>>

Announces(id) ==
    /\ id \in adding /\ adding' = adding \ {id}
    /\ \E n \in Nat \ {0} : publishCh' = Append(publishCh, [n |-> n, msg |-> RecordMsg(id)])
    /\ UNCHANGED <<records, timing, timed, Waiting, Wire, Streaming, listView, histories>>

GetsTime(id) ==
    /\ id \in records \ answered /\ timed' = timed \cup {id} /\ timing' = timing \cup {id}
    /\ UNCHANGED <<records, adding, publishCh, Waiting, Wire, Streaming, listView, histories>>

AnnouncesTime(id) ==
    /\ id \in timing /\ timing' = timing \ {id}
    /\ \E n \in Nat \ {0} : publishCh' = Append(publishCh, [n |-> n, msg |-> UpdateMsg(id)])
    /\ UNCHANGED <<records, adding, timed, Waiting, Wire, Streaming, listView, histories>>

Distributes ==
    /\ publishCh # <<>> /\ publishCh' = Tail(publishCh)
    /\ \/ Waiting' = Append(Waiting, Head(publishCh)) /\ unseen \subseteq unseen' /\ untold \subseteq untold'
       \/ /\ Waiting' = Waiting
          /\ LET m == Head(publishCh).msg IN
              \/ m.kind = "record" /\ unseen' = unseen \cup {m.id} /\ untold \subseteq untold'
              \/ m.kind = "update" /\ unseen \subseteq unseen' /\ untold' = untold \cup {m.id}
    /\ UNCHANGED <<records, adding, timing, timed, Wire, Streaming, listView, overlap>>

ForwardsNew(id) ==
    /\ Streaming /\ Waiting # <<>> /\ Head(Waiting).msg = RecordMsg(id) /\ id \notin timed
    /\ Waiting' = Tail(Waiting) /\ Wire' = Append(Wire, NewEvent(id))
    /\ UNCHANGED <<records, adding, timing, timed, publishCh, Streaming, listView, histories>>

ForwardsUpdate(id) ==
    /\ Streaming /\ Waiting # <<>>
    /\ \/ Head(Waiting).msg = RecordMsg(id) /\ id \in timed /\ unseen' = unseen \cup {id}
       \/ Head(Waiting).msg = UpdateMsg(id) /\ UNCHANGED unseen
    /\ Waiting' = Tail(Waiting) /\ Wire' = Append(Wire, UpdateEvent(id))
    /\ UNCHANGED <<records, adding, timing, timed, publishCh, Streaming, listView, untold, overlap>>

Snapshots ==
    /\ ~Streaming /\ Streaming' /\ Wire = <<>>
    /\ Wire' = <<[event |-> "start", recs |-> ThinCloneWithoutResponseBody]>>
    /\ unseen' = unseen \ records /\ untold' = untold \ records
    /\ overlap' = overlap \cup (records \cap OnTheWay(es))
    /\ UNCHANGED <<records, adding, timing, timed, publishCh, Waiting, listView>>

TakesStart ==
    /\ Wire # <<>> /\ Head(Wire).event = "start" /\ Wire' = Tail(Wire)
    /\ LET recs == Head(Wire).recs IN
        \/ recordList' = ById(recs) /\ UNCHANGED <<unseen, untold>>
        \/ /\ unseen' = unseen \cup {r.id : r \in recs}
           /\ untold' = untold \cup {r.id : r \in {x \in recs : x.timed}}
           /\ UNCHANGED recordList
    /\ UNCHANGED <<records, adding, timing, timed, publishCh, Waiting, Streaming, sorting, overlap>>

TakesNew(id) ==
    /\ Wire # <<>> /\ Head(Wire) = NewEvent(id) /\ Wire' = Tail(Wire)
    /\ \/ unseen' = unseen \cup {id} /\ UNCHANGED listView
       \/ /\ recordList' = <<[id |-> id, timed |-> FALSE]>> \o recordList /\ sorting'
          /\ UNCHANGED unseen
    /\ UNCHANGED <<records, adding, timing, timed, publishCh, Waiting, Streaming, untold, overlap>>

TakesUpdate(id) ==
    /\ Wire # <<>> /\ Head(Wire) = UpdateEvent(id) /\ Wire' = Tail(Wire)
    /\ \/ id \notin Listed /\ untold' = untold \cup {id} /\ UNCHANGED recordList
       \/ /\ id \in Listed /\ recordList' = [recordList EXCEPT ![FirstOf(id)].timed = TRUE]
          /\ UNCHANGED untold
    /\ UNCHANGED <<records, adding, timing, timed, publishCh, Waiting, Streaming, sorting, unseen, overlap>>

TrimsList ==
    /\ recordList' = Trimmed(Sorted(recordList)) /\ sorting' = FALSE
    /\ UNCHANGED records /\ Quiet /\ UNCHANGED histories

ClearsList ==
    /\ recordList' = ById({})
    /\ unseen' = unseen \cup (records \ OnTheWay(es)) /\ untold' = untold \cup answered
    /\ UNCHANGED records /\ Quiet /\ UNCHANGED <<sorting, overlap>>

Reconnects ==
    /\ Waiting' = <<>> /\ Wire' = <<>> /\ ~Streaming'
    /\ untold' = untold \cup TimesOnTheWay(es)
    /\ UNCHANGED <<records, adding, timing, timed, publishCh, listView, unseen, overlap>>

LEMMA Same ==
    ASSUME UNCHANGED <<adding, timing, timed, publishCh, listener, wire, conn, es>>
    PROVE  Quiet
BY Zenon DEF Quiet, Waiting, Wire, Streaming

LEMMA PastGrows ==
    ASSUME Store!TypeOK, [Next]_vars
    PROVE  Past \subseteq Past'
<1>1. CASE Store!NewRecord
  BY <1>1 DEF Store!NewRecord, Store!TypeOK, Past
<1>2. CASE \E id \in Ids : Store!AddRecord(id)
  <2>1. seqId' = seqId /\ pending' \subseteq pending
    BY <1>2 DEF Store!AddRecord
  <2> QED BY <2>1 DEF Past
<1>3. CASE Store!RemoveAll \/ UNCHANGED storeVars
  <2>1. seqId' = seqId /\ pending' = pending
    BY <1>3, Zenon DEF Store!RemoveAll, storeVars
  <2> QED BY <2>1, Zenon DEF Past
<1> QED BY <1>1, <1>2, <1>3, StoreOrNot

LEMMA RecorderCases ==
    ASSUME Base, Recorder
    PROVE  \/ Passes
           \/ \E id \in Ids : Stores(id) \/ Announces(id) \/ GetsTime(id) \/ AnnouncesTime(id)
<1>0. Store!TypeOK /\ UNCHANGED <<listView, histories>> /\ UNCHANGED es
      /\ sent \in Nat
  <2>1. Store!TypeOK /\ UNCHANGED <<listView, histories>> /\ UNCHANGED es
    BY Zenon DEF Base, Recorder, pageVars, listVars, listView, histories
  <2>2. sent \in Nat
    BY DEF Base, Shown!KeptInv, Shown!OrderInv
  <2> QED BY <2>1, <2>2
<1>1. CASE Request
  <2>1. Quiet
    BY <1>0, <1>1, Same, Zenon DEF Request, handlerVars, brokerVars
  <2>2. records' = records
    BY <1>1, Zenon DEF Request, Store!NewRecord
  <2> QED BY <1>0, <2>1, <2>2, Zenon DEF Passes
<1>2. ASSUME NEW id \in Ids, AddRecord(id) PROVE Stores(id)
  <2>1. /\ adding' = adding \cup {id} /\ Store!AddRecord(id)
        /\ UNCHANGED <<timing, timed, publishCh, Waiting, Wire, Streaming>>
    BY <1>0, <1>2, Zenon DEF AddRecord, brokerVars, Waiting, Wire, Streaming
  <2>2. id \in pending /\ pending' = pending \ {id} /\ seqId' = seqId /\ records' \subseteq records \cup {id}
    BY <2>1 DEF Store!AddRecord, Store!Evicted
  <2>3. id \in Past' \ Past
    BY <1>0, <2>2 DEF Past, Store!TypeOK
  <2> QED BY <1>0, <2>1, <2>2, <2>3, Zenon DEF Stores
<1>3. ASSUME NEW id \in Ids, PublishRecord(id) PROVE Announces(id)
  <2>1. /\ id \in adding /\ adding' = adding \ {id}
        /\ publishCh' = Append(publishCh, [n |-> sent + 1, msg |-> RecordMsg(id)])
        /\ UNCHANGED <<records, timing, timed, Waiting, Wire, Streaming>>
    BY <1>0, <1>3, Zenon DEF PublishRecord, Events!Publish, storeVars, Waiting, Wire, Streaming, RecordMsg
  <2>2. sent + 1 \in Nat \ {0}
    BY <1>0
  <2> QED BY <1>0, <2>1, <2>2, Zenon DEF Announces
<1>4. ASSUME NEW id \in Ids, ServerElapsed(id) PROVE GetsTime(id) \/ Passes
  <2>1. id \notin answered /\ UNCHANGED <<storeVars, adding, publishCh, listener, wire, conn>>
    BY <1>4, Zenon DEF ServerElapsed, brokerVars
  <2>2. UNCHANGED <<records, Waiting, Wire, Streaming>>
    BY <1>0, <2>1, Zenon DEF storeVars, Waiting, Wire, Streaming
  <2>3. CASE id \in records
    <3>1. timed' = timed \cup {id} /\ timing' = timing \cup {id}
      BY <1>4, <2>3, Zenon DEF ServerElapsed
    <3> QED BY <1>0, <2>1, <2>2, <2>3, <3>1 DEF GetsTime
  <2>4. CASE id \notin records
    <3>1. UNCHANGED <<timed, timing>>
      BY <1>4, <2>4, Zenon DEF ServerElapsed
    <3> QED BY <1>0, <2>1, <2>2, <3>1, Zenon DEF Passes, Quiet
  <2> QED BY <2>3, <2>4
<1>5. ASSUME NEW id \in Ids, PublishUpdate(id) PROVE AnnouncesTime(id)
  <2>1. /\ id \in timing /\ timing' = timing \ {id}
        /\ publishCh' = Append(publishCh, [n |-> sent + 1, msg |-> UpdateMsg(id)])
        /\ UNCHANGED <<records, adding, timed, Waiting, Wire, Streaming>>
    BY <1>0, <1>5, Zenon DEF PublishUpdate, Events!Publish, storeVars, Waiting, Wire, Streaming, UpdateMsg
  <2>2. sent + 1 \in Nat \ {0}
    BY <1>0
  <2> QED BY <1>0, <2>1, <2>2, Zenon DEF AnnouncesTime
<1> QED BY <1>1, <1>2, <1>3, <1>4, <1>5, Zenon DEF Recorder

\* The broker takes a message: the page's listener gets it or misses it.
LEMMA BrokerCases ==
    ASSUME Base, BrokerStep
    PROVE  Passes \/ Distributes
<1>0. /\ Shown!KeptInv /\ ConnsInv /\ es \in Conns
      /\ UNCHANGED <<records, adding, timing, timed, wire, conn, es, listView, overlap>>
      /\ unseen' = unseen \cup {m.id : m \in {x \in MissedNow : x.kind = "record"}}
      /\ untold' = untold \cup {m.id : m \in {x \in MissedNow : x.kind = "update"}}
      /\ Events!Serve
  BY Zenon DEF Base, ConnsInv, BrokerStep, Broke, storeVars, handlerVars, listVars, listView
<1>1. UNCHANGED <<Wire, Streaming>>
  BY <1>0, Zenon DEF Wire, Streaming
<1>2. CASE Events!TakeSub \/ Events!TakeUnsub
  <2>1. UNCHANGED <<publishCh, listener>>
    BY <1>2, Zenon DEF Events!TakeSub, Events!TakeUnsub
  <2>2. MissedNow = {}
    BY <2>1, Zenon DEF MissedNow
  <2>3. unseen' = unseen /\ untold' = untold
    BY <1>0, <2>2
  <2>4. Quiet
    BY <1>0, <2>1, Same, Zenon
  <2> QED BY <1>0, <2>3, <2>4 DEF Passes, histories
<1>3. CASE Events!TakeMessage
  <2>1. /\ publishCh # <<>> /\ publishCh' = Tail(publishCh)
        /\ listener' = [l \in Conns |-> IF l \in subs \ (Events!Full \cup closed)
                                        THEN Append(listener[l], Head(publishCh))
                                        ELSE listener[l]]
    BY <1>3, Zenon DEF Events!TakeMessage
  <2>2. publishCh \in Seq(Shown!Numbered)
    BY <1>0 DEF Shown!KeptInv, Shown!OrderInv
  <2>3. es \notin closed
    <3>1. closed \subseteq ended
      BY <1>0, Zenon DEF Shown!KeptInv, Shown!Room
    <3>2. es \in ended => conn[es] = "left"
      BY <1>0, Zenon DEF ConnsInv
    <3>3. conn[es] # "left"
      BY <1>0, Zenon DEF ConnsInv
    <3> QED BY <3>1, <3>2, <3>3
  <2>4. listener'[es] = IF es \in subs \ (Events!Full \cup closed)
                        THEN Append(listener[es], Head(publishCh)) ELSE listener[es]
    BY <1>0, <2>1
  <2>5. CASE es \in subs \ Events!Full
    <3>1. Waiting' = Append(Waiting, Head(publishCh))
      BY <1>0, <2>3, <2>4, <2>5 DEF Waiting
    <3> QED BY <1>0, <1>1, <2>1, <3>1 DEF Distributes
  <2>6. CASE es \notin subs \/ es \in Events!Full
    <3>1. Waiting' = Waiting
      <4>1. listener'[es] = listener[es]
        BY <2>4, <2>6
      <4> QED BY <1>0, <4>1, Zenon DEF Waiting
    <3>2. MissedNow = {Head(publishCh).msg}
      <4>1. publishCh' # publishCh
        BY <2>1, <2>2
      <4> QED BY <2>6, <4>1, Zenon DEF MissedNow
    <3>3. Head(publishCh).msg.kind \in {"record", "update"}
      <4>1. Head(publishCh) \in Shown!Numbered
        BY <2>1, <2>2
      <4> QED BY <4>1 DEF Shown!Numbered, Messages
    <3> DEFINE m == Head(publishCh).msg
    <3> HIDE DEF m
    <3>4. /\ m.kind = "record" \/ m.kind = "update"
          /\ unseen' = unseen \cup {x.id : x \in {y \in {m} : y.kind = "record"}}
          /\ untold' = untold \cup {x.id : x \in {y \in {m} : y.kind = "update"}}
      BY <1>0, <3>2, <3>3 DEF m
    <3>5. /\ m.kind = "record" => unseen' = unseen \cup {m.id}
          /\ m.kind = "update" => untold' = untold \cup {m.id}
          /\ unseen \subseteq unseen' /\ untold \subseteq untold'
      BY <3>4
    <3>6. \/ m.kind = "record" /\ unseen' = unseen \cup {m.id} /\ untold \subseteq untold'
          \/ m.kind = "update" /\ unseen \subseteq unseen' /\ untold' = untold \cup {m.id}
      BY <3>4, <3>5
    <3> QED BY <1>0, <1>1, <2>1, <3>1, <3>6, Zenon DEF Distributes, m
  <2> QED BY <2>5, <2>6
<1> QED BY <1>0, <1>2, <1>3, Zenon DEF Events!Serve

LEMMA ConnectCases ==
    ASSUME Base, NEW c \in Conns, Connects(c)
    PROVE  Passes \/ Snapshots
<1>0. /\ ConnsInv /\ c = es /\ DOMAIN wire = Conns /\ DOMAIN conn = Conns
      /\ UNCHANGED <<records, adding, timing, timed, es, listView>>
  <2>1. /\ ConnsInv /\ c = es /\ UNCHANGED <<records, adding, timing, timed, es, listView>>
    BY Zenon DEF Base, Connects, Subscribe, SendStart, storeVars, listVars, listView
  <2> QED BY <2>1 DEF ConnsInv
<1>1. CASE Subscribe(c) /\ UNCHANGED <<unseen, untold, overlap>>
  <2>1. /\ UNCHANGED <<publishCh, listener, wire>> /\ conn[c] = "new"
        /\ conn' = [conn EXCEPT ![c] = "subscribed"]
    BY <1>1, Zenon DEF Subscribe, Events!Subscribe
  <2>2. conn[es] # "streaming" /\ conn'[es] # "streaming"
    BY <1>0, <2>1
  <2>3. Streaming' = Streaming
    BY <1>0, <2>2 DEF Streaming
  <2>4. Quiet
    BY <1>0, <2>1, <2>3, Zenon DEF Quiet, Waiting, Wire
  <2> QED BY <1>0, <1>1, <2>4 DEF Passes, histories
<1>2. CASE /\ SendStart(c) /\ unseen' = unseen \ records /\ untold' = untold \ records
           /\ overlap' = overlap \cup (records \cap OnTheWay(c))
  <2> DEFINE e == [event |-> "start", recs |-> ThinCloneWithoutResponseBody]
  <2>1. /\ conn[c] = "subscribed" /\ conn' = [conn EXCEPT ![c] = "streaming"]
        /\ wire' = [wire EXCEPT ![c] = Append(wire[c], e)]
        /\ UNCHANGED <<publishCh, listener>>
    BY <1>2, Zenon DEF SendStart, brokerVars
  <2> HIDE DEF e
  <2>2. wire[es] = <<>>
    BY <1>0, <2>1 DEF ConnsInv
  <2>3. wire'[es] = Append(<<>>, e)
    BY <1>0, <2>1, <2>2
  <2>4. Append(<<>>, e) = <<e>>
    OBVIOUS
  <2>5. Wire = <<>> /\ Wire' = <<e>> /\ UNCHANGED Waiting
    BY <1>0, <2>1, <2>2, <2>3, <2>4, Zenon DEF Wire, Waiting
  <2>6. conn[es] # "streaming" /\ conn'[es] = "streaming"
    BY <1>0, <2>1
  <2>7. ~Streaming /\ Streaming'
    BY <1>0, <2>6, Zenon DEF Streaming
  <2> QED BY <1>0, <1>2, <2>1, <2>5, <2>7, Zenon DEF Snapshots, e
<1> QED BY <1>1, <1>2, Zenon DEF Connects

LEMMA ForwardCases ==
    ASSUME Base, NEW c \in Conns, ForwardEvent(c)
    PROVE  Passes \/ \E id \in Ids : ForwardsNew(id) \/ ForwardsUpdate(id)
<1> DEFINE msg == Head(listener[c]).msg
           e == [event |-> IF IsUpdate(msg) THEN "update-record" ELSE "new-record",
                 recs |-> {[id |-> msg.id, timed |-> IsUpdate(msg)]}]
<1>0. /\ ConnsInv /\ Shown!KeptInv /\ Forward(c)
      /\ UNCHANGED <<records, adding, timing, timed, publishCh, es, listView, untold, overlap, conn>>
      /\ listener[c] # <<>> /\ listener' = [listener EXCEPT ![c] = Tail(listener[c])]
      /\ wire' = IF conn[c] = "left" THEN wire ELSE [wire EXCEPT ![c] = Append(wire[c], e)]
      /\ unseen' = IF c = es /\ msg.kind = "record" /\ IsUpdate(msg) THEN unseen \cup {msg.id} ELSE unseen
      /\ conn[c] \in {"streaming", "left"}
  BY Zenon DEF Base, ForwardEvent, Forward, Events!Receive, storeVars, listVars, listView
<1>1. /\ DOMAIN listener = Conns /\ DOMAIN wire = Conns /\ es \in Conns /\ conn[es] # "left"
  BY <1>0 DEF ConnsInv, Shown!KeptInv, Shown!OrderInv
<1>2. Streaming' = Streaming
  BY <1>0, Zenon DEF Streaming
<1>3. CASE c # es
  <2>1. listener'[es] = listener[es] /\ wire'[es] = wire[es] /\ unseen' = unseen
    BY <1>0, <1>1, <1>3
  <2>2. Quiet
    BY <1>0, <1>2, <2>1, Zenon DEF Quiet, Waiting, Wire
  <2> QED BY <1>0, <2>1, <2>2 DEF Passes, histories
<1>4. CASE c = es
  <2>1. msg \in Messages
    <3>1. 1 \in Nat
      OBVIOUS
    <3> QED BY <1>0, <3>1, ForwardShape
  <2>2. listener'[es] = Tail(listener[es]) /\ wire'[es] = Append(wire[es], e) /\ conn[es] = "streaming"
    BY <1>0, <1>1, <1>4
  <2>3. Waiting # <<>> /\ Waiting' = Tail(Waiting) /\ Wire' = Append(Wire, e) /\ Streaming
        /\ Head(Waiting).msg = msg
    BY <1>0, <1>4, <2>2, Zenon DEF Waiting, Wire, Streaming
  <2>4. unseen' = IF msg.kind = "record" /\ IsUpdate(msg) THEN unseen \cup {msg.id} ELSE unseen
    BY <1>0, <1>4, Zenon
  <2> HIDE DEF msg
  <2>5. PICK id \in Ids : \/ msg = RecordMsg(id) /\ msg.kind = "record" /\ msg.id = id
                          \/ msg = UpdateMsg(id) /\ msg.kind = "update" /\ msg.id = id
    BY <2>1 DEF Messages, RecordMsg, UpdateMsg
  <2>6. CASE IsUpdate(msg)
    <3>1. e = UpdateEvent(id)
      BY <2>5, <2>6, Zenon DEF UpdateEvent
    <3> HIDE DEF e
    <3>2. CASE msg = RecordMsg(id) /\ msg.kind = "record"
      <4>1. id \in timed
        BY <2>5, <2>6, <3>2 DEF IsUpdate
      <4>2. unseen' = unseen \cup {id}
        BY <2>4, <2>5, <2>6, <3>2
      <4> QED BY <1>0, <1>2, <2>3, <3>1, <3>2, <4>1, <4>2, Zenon DEF ForwardsUpdate
    <3>3. CASE msg = UpdateMsg(id) /\ msg.kind = "update"
      <4>1. unseen' = unseen
        BY <2>4, <3>3
      <4> QED BY <1>0, <1>2, <2>3, <3>1, <3>3, <4>1, Zenon DEF ForwardsUpdate
    <3> QED BY <2>5, <3>2, <3>3
  <2>7. CASE ~IsUpdate(msg)
    <3>1. e = NewEvent(id)
      <4>1. IsUpdate(msg) = FALSE
        BY <2>7 DEF IsUpdate
      <4> QED BY <2>5, <4>1, Zenon DEF NewEvent
    <3> HIDE DEF e
    <3>2. msg = RecordMsg(id) /\ id \notin timed
      BY <2>5, <2>7 DEF IsUpdate
    <3>3. unseen' = unseen
      BY <2>4, <2>7, Zenon
    <3> QED BY <1>0, <1>2, <2>3, <3>1, <3>2, <3>3, Zenon DEF ForwardsNew, histories
  <2> QED BY <2>6, <2>7
<1> QED BY <1>3, <1>4

LEMMA HandledCases ==
    ASSUME Base, NEW event, Handled(event)
    PROVE  /\ Wire # <<>> /\ Head(Wire).event = event /\ Wire' = Tail(Wire)
           /\ UNCHANGED <<records, adding, timing, timed, publishCh, Waiting, Streaming, overlap>>
<1>1. ConnsInv
  BY Zenon DEF Base
<1> QED BY <1>1, HandledEvent, Zenon DEF Wire, Waiting, Streaming, storeVars, brokerVars

LEMMA EventIs ==
    ASSUME NEW e \in Event
    PROVE  e = [event |-> e.event, recs |-> e.recs]
BY DEF Event

LEMMA EventCases ==
    ASSUME Base, OnStart \/ OnNewRecord \/ OnUpdateRecord
    PROVE  TakesStart \/ \E id \in Ids : TakesNew(id) \/ TakesUpdate(id)
<1>0. ConnsInv
  BY Zenon DEF Base
<1>1. CASE OnStart
  <2>1. /\ Wire # <<>> /\ Head(Wire).event = "start" /\ Wire' = Tail(Wire)
        /\ UNCHANGED <<records, adding, timing, timed, publishCh, Waiting, Streaming, overlap>>
    BY <1>1, HandledCases, Zenon DEF OnStart
  <2> DEFINE recs == Head(wire[es]).recs
  <2>2. \/ recordList' = ById(recs) /\ UNCHANGED <<sorting, unseen, untold>>
        \/ /\ unseen' = unseen \cup {r.id : r \in recs}
           /\ untold' = untold \cup {r.id : r \in {x \in recs : x.timed}}
           /\ UNCHANGED <<recordList, sorting>>
    BY <1>1, Zenon DEF OnStart, StreamStart, listVars
  <2> QED BY <2>1, <2>2, Zenon DEF TakesStart, Wire
<1>2. CASE OnNewRecord
  <2>1. /\ Wire # <<>> /\ Head(Wire).event = "new-record" /\ Wire' = Tail(Wire)
        /\ UNCHANGED <<records, adding, timing, timed, publishCh, Waiting, Streaming, overlap>>
    BY <1>2, HandledCases, Zenon DEF OnNewRecord
  <2>2. PICK id \in Ids : /\ Head(wire[es]).recs = {[id |-> id, timed |-> FALSE]}
                          /\ UNCHANGED untold
                          /\ \/ /\ id \in undecodable /\ unseen' = unseen \cup {id}
                                /\ UNCHANGED listVars
                             \/ Fronts(id) /\ UNCHANGED unseen
    BY <1>0, <1>2, NewCases
  <2>3. Head(Wire) = NewEvent(id)
    <3>1. Head(Wire) \in Event
      BY <1>0, <2>1, WireTail DEF ConnsInv, Wire
    <3>2. Head(Wire).recs = {[id |-> id, timed |-> FALSE]}
      BY <2>2, Zenon DEF Wire
    <3> QED BY <2>1, <3>1, <3>2, EventIs DEF NewEvent
  <2> QED BY <2>1, <2>2, <2>3, Zenon DEF TakesNew, Fronts, listVars, listView
<1>3. CASE OnUpdateRecord
  <2>1. /\ Wire # <<>> /\ Head(Wire).event = "update-record" /\ Wire' = Tail(Wire)
        /\ UNCHANGED <<records, adding, timing, timed, publishCh, Waiting, Streaming, overlap>>
    BY <1>3, HandledCases, Zenon DEF OnUpdateRecord
  <2>2. PICK id \in Ids : /\ Head(wire[es]).recs = {[id |-> id, timed |-> TRUE]}
                          /\ UNCHANGED unseen
                          /\ \/ /\ id \notin Listed /\ untold' = untold \cup {id}
                                /\ UNCHANGED listVars
                             \/ Updates(id) /\ UNCHANGED untold
    BY <1>0, <1>3, UpdateCases
  <2>3. Head(Wire) = UpdateEvent(id)
    <3>1. Head(Wire) \in Event
      BY <1>0, <2>1, WireTail DEF ConnsInv, Wire
    <3>2. Head(Wire).recs = {[id |-> id, timed |-> TRUE]}
      BY <2>2, Zenon DEF Wire
    <3> QED BY <2>1, <3>1, <3>2, EventIs DEF UpdateEvent
  <2> QED BY <2>1, <2>2, <2>3, Zenon DEF TakesUpdate, Updates, listVars
<1> QED BY <1>1, <1>2, <1>3

LEMMA StepCases ==
    ASSUME Base, [Next]_vars
    PROVE  \/ Passes
           \/ \E id \in Ids : Stores(id) \/ Announces(id) \/ GetsTime(id) \/ AnnouncesTime(id)
           \/ Distributes \/ Snapshots
           \/ \E id \in Ids : ForwardsNew(id) \/ ForwardsUpdate(id)
           \/ TakesStart \/ \E id \in Ids : TakesNew(id) \/ TakesUpdate(id)
           \/ TrimsList \/ ClearsList \/ Reconnects
<1>0. /\ ConnsInv /\ Shown!KeptInv
  BY Zenon DEF Base
<1>1. CASE Recorder
  BY <1>1, RecorderCases, Zenon
<1>2. CASE BrokerStep
  BY <1>2, BrokerCases, Zenon
<1>3. CASE \E c \in Conns : Connects(c)
  BY <1>3, ConnectCases, Zenon
<1>4. CASE \E c \in Conns : ForwardEvent(c)
  BY <1>4, ForwardCases, Zenon
<1>5. ASSUME NEW c \in Conns, PageLeaves(c) PROVE Passes
  <2>1. /\ c < es /\ conn' = [conn EXCEPT ![c] = "left"] /\ wire' = [wire EXCEPT ![c] = <<>>]
        /\ UNCHANGED <<records, adding, timing, timed, publishCh, listener, es, listView, histories>>
    BY <1>5, Zenon DEF PageLeaves, Leave, Events!Unsubscribe, storeVars, pageVars, listVars, listView, histories
  <2>2. c # es
    <3>1. IsFiniteSet(Conns) /\ Conns = 1..Cardinality(Conns)
      BY PageAssumption
    <3>2. PICK n \in Nat : n = Cardinality(Conns)
      BY <3>1, FS_CardinalityType
    <3>3. Conns = 1..n
      BY <3>1, <3>2, Zenon
    <3> QED BY <2>1, <3>3
  <2>3. conn'[es] = conn[es] /\ wire'[es] = wire[es]
    BY <1>0, <2>1, <2>2 DEF ConnsInv
  <2>4. Quiet
    BY <2>1, <2>3, Zenon DEF Quiet, Waiting, Wire, Streaming
  <2> QED BY <2>1, <2>4 DEF Passes
<1>6. CASE OnStart \/ OnNewRecord \/ OnUpdateRecord
  BY <1>6, EventCases, Zenon
<1>7. CASE EmitFilterRecords \/ (\E q \in Queries : TypeQuery(q)) \/ ClearRecords \/ ClearFails \/ ServeClear
  <2>1. UNCHANGED <<adding, timing, timed, publishCh, listener, wire, conn, es, listView, histories>>
    BY <1>7, Zenon DEF EmitFilterRecords, TypeQuery, ClearRecords, ClearFails, ServeClear, RemoveAll,
       streamVars, brokerVars, handlerVars, listVars, listView, histories
  <2>2. records' = records \/ records' = {}
    BY <1>7, Zenon DEF EmitFilterRecords, TypeQuery, ClearRecords, ClearFails, ServeClear, RemoveAll,
       Store!RemoveAll, streamVars, storeVars
  <2> QED BY <2>1, <2>2, Same DEF Passes
<1>8. CASE SortAndTrim
  <2>1. /\ UNCHANGED <<records, adding, timing, timed, publishCh, listener, wire, conn, es, histories>>
        /\ recordList' = Trimmed(Sorted(recordList)) /\ sorting' = FALSE
    BY <1>8, Zenon DEF SortAndTrim, Elapses, streamVars, storeVars, brokerVars, handlerVars, histories
  <2> QED BY <2>1, Same, Zenon DEF TrimsList
<1>9. CASE OnCleared
  <2>1. /\ UNCHANGED <<records, adding, timing, timed, publishCh, listener, wire, conn, es, sorting, overlap>>
        /\ recordList' = ById({})
        /\ unseen' = unseen \cup (records \ OnTheWay(es)) /\ untold' = untold \cup answered
    BY <1>9, Zenon DEF OnCleared, StreamStart, streamVars, storeVars, brokerVars, handlerVars
  <2> QED BY <2>1, Same, Zenon DEF ClearsList
<1>10. CASE Reconnect
  <2>1. /\ UNCHANGED <<records, adding, timing, timed, publishCh, listener, wire, conn, made,
                       listView, unseen, overlap>>
        /\ es' = es + 1 /\ es + 1 \in Conns /\ untold' = untold \cup TimesOnTheWay(es)
    BY <1>10, Zenon DEF Reconnect, streamVars, storeVars, brokerVars, handlerVars, listVars, listView
  <2>2. conn[es + 1] = "new"
    <3>1. es \in Nat
      <4>1. IsFiniteSet(Conns) /\ Conns = 1..Cardinality(Conns)
        BY PageAssumption
      <4>2. PICK n \in Nat : n = Cardinality(Conns)
        BY <4>1, FS_CardinalityType
      <4>3. Conns = 1..n /\ es \in Conns
        BY <1>0, <4>1, <4>2, Zenon DEF ConnsInv
      <4> QED BY <4>3
    <3>2. es + 1 > es
      BY <3>1
    <3> QED BY <1>0, <2>1, <3>2, Zenon DEF ConnsInv
  <2>3. wire[es + 1] = <<>> /\ es + 1 \notin made
    BY <1>0, <2>1, <2>2 DEF ConnsInv
  <2>4. listener[es + 1] = <<>>
    BY <1>0, <2>1, <2>3, Zenon DEF Shown!KeptInv, Shown!Room
  <2>5. Waiting' = <<>> /\ Wire' = <<>>
    BY <2>1, <2>3, <2>4, Zenon DEF Waiting, Wire
  <2>6. ~Streaming'
    <3>1. conn'[es'] = "new"
      BY <2>1, <2>2, Zenon
    <3> QED BY <3>1 DEF Streaming
  <2> QED BY <2>1, <2>5, <2>6, Zenon DEF Reconnects
<1>11. CASE UNCHANGED vars
  <2>1. UNCHANGED <<records, adding, timing, timed, publishCh, listener, wire, conn, es, listView, histories>>
    BY <1>11, Zenon DEF vars, streamVars, storeVars, brokerVars, handlerVars, pageVars, listVars,
       listView, histories
  <2> QED BY <2>1, Same DEF Passes
<1> QED BY <1>1, <1>2, <1>3, <1>4, <1>5, <1>6, <1>7, <1>8, <1>9, <1>10, <1>11, Zenon DEF Next

-----------------------------------------------------------------------------
\* The places of a sequence that hold a member of P.
Has(s, P) == \E i \in 1..Len(s) : s[i] \in P
Once(s, P) == \A i, j \in 1..Len(s) : s[i] \in P /\ s[j] \in P => i = j

RecordMsgs(id) == {e \in Shown!Numbered : e.msg = RecordMsg(id)}
UpdateMsgs(id) == {e \in Shown!Numbered : e.msg = UpdateMsg(id)}
Snapshot == {e \in Event : e.event = "start"}
SnapshotsOf(id) == {e \in Snapshot : \E r \in e.recs : r.id = id}
\* The events that bring a record with its time.
TimesOf(id) == {e \in Event : [id |-> id, timed |-> TRUE] \in e.recs}
CopiesOf(id) == {r \in Entry : r.id = id}
TimedCopy(id) == {[id |-> id, timed |-> TRUE]}

\* Where a record is that is still to be announced to the page.
Published(id) == Has(publishCh, RecordMsgs(id))
Received(id) == Has(Waiting, RecordMsgs(id))
Sent(id) == Has(Wire, {NewEvent(id)})
Announcing(id) == id \in adding \/ Published(id) \/ Received(id) \/ Sent(id)
InSnapshot(id) == Has(Wire, SnapshotsOf(id))
IsListed(id) == Has(recordList, CopiesOf(id))

OnceOf(id) ==
    /\ Once(publishCh, RecordMsgs(id)) /\ Once(Waiting, RecordMsgs(id)) /\ Once(Wire, {NewEvent(id)})
    /\ id \in adding => ~Published(id) /\ ~Received(id) /\ ~Sent(id)
    /\ Published(id) => ~Received(id) /\ ~Sent(id)
    /\ Received(id) => ~Sent(id)
    /\ Announcing(id) \/ InSnapshot(id) \/ IsListed(id) => id \in Past
    /\ id \notin overlap =>
           /\ InSnapshot(id) \/ IsListed(id) => ~Announcing(id)
           /\ Once(recordList, CopiesOf(id))

OnceInv == \A id \in Ids : OnceOf(id)

\* The list holds maxRecords newer ones.
Newer(list, id) ==
    \E f \in [1..maxRecords -> 1..Len(list)] :
        /\ \A i, j \in 1..maxRecords : f[i] = f[j] => i = j
        /\ \A i \in 1..maxRecords : list[f[i]].id > id

\* A full list of newer records, and only those once it is sorted.
TrimmedAway(id) ==
    /\ maxRecords > 0
    /\ Newer(recordList, id)
    /\ sorting \/ \A i \in 1..Len(recordList) : recordList[i].id > id

Opening == Has(Wire, Snapshot)

\* A stored record is on its way, or known to be missed, listed or too old.
ShownOf(id) ==
    Streaming /\ id \in records =>
        \/ id \in unseen \/ Announcing(id) \/ InSnapshot(id)
        \/ ~Opening /\ (IsListed(id) \/ TrimmedAway(id))

ShownInv == \A id \in Ids : ShownOf(id)

\* Its own update, if it still comes.
TimeComing(id) ==
    \/ id \in timing
    \/ Has(publishCh, UpdateMsgs(id)) \/ Has(Waiting, UpdateMsgs(id)) \/ Has(Wire, {UpdateEvent(id)})
Shows(id) == Has(recordList, TimedCopy(id))
TimedInSnapshot(id) == Has(Wire, SnapshotsOf(id) \cap TimesOf(id))

\* The page has the time, or gets it with the record.
Settled(id) ==
    /\ ~Sent(id)
    /\ InSnapshot(id) => TimedInSnapshot(id)
    /\ IsListed(id) => Shows(id) \/ TimedInSnapshot(id)

\* No member of Q comes after one of P.
NotAfter(s, P, Q) == \A i, j \in 1..Len(s) : i < j /\ s[i] \in P => s[j] \notin Q
\* The first member of P is in Q.
FirstIn(s, P, Q) ==
    \A i \in 1..Len(s) : s[i] \in P /\ (\A j \in 1..i - 1 : s[j] \notin P) => s[i] \in Q

TimedOf(id) ==
    /\ id \in timed \ untold => TimeComing(id) \/ Settled(id)
    /\ TimeComing(id) \/ Shows(id) \/ Has(Wire, TimesOf(id)) => id \in timed
    /\ Shows(id) => ~Sent(id)
    /\ NotAfter(Wire, TimesOf(id), {NewEvent(id)})
    /\ Shows(id) => FirstIn(recordList, CopiesOf(id), TimedCopy(id))

TimedInv == \A id \in Ids : TimedOf(id)

-----------------------------------------------------------------------------
(* Members of a sequence.                                                  *)

LEMMA EmptyHas == \A P : ~Has(<<>>, P) /\ Once(<<>>, P)
BY DEF Has, Once

LEMMA OneHas == \A e, P : (Has(<<e>>, P) <=> e \in P) /\ Once(<<e>>, P)
<1> SUFFICES ASSUME NEW e, NEW P PROVE (Has(<<e>>, P) <=> e \in P) /\ Once(<<e>>, P)
  OBVIOUS
<1>1. Len(<<e>>) = 1 /\ <<e>>[1] = e /\ 1 \in 1..1 /\ \A i \in 1..1 : i = 1
  OBVIOUS
<1> QED BY <1>1, Zenon DEF Has, Once

LEMMA AppendHas ==
    ASSUME NEW S, NEW s \in Seq(S), NEW e \in S, NEW P
    PROVE  /\ Has(Append(s, e), P) <=> Has(s, P) \/ e \in P
           /\ Once(s, P) /\ ~(Has(s, P) /\ e \in P) => Once(Append(s, e), P)
<1> DEFINE t == Append(s, e)
           n == Len(s)
<1>1. /\ n \in Nat /\ Len(t) = n + 1 /\ t[n + 1] = e /\ \A i \in 1..n : t[i] = s[i]
      /\ \A i \in 1..n + 1 : i \in 1..n \/ i = n + 1
  OBVIOUS
<1>2. n + 1 \in 1..n + 1 /\ \A i \in 1..n : i \in 1..n + 1
  BY <1>1
<1> HIDE DEF t, n
<1>3. Has(t, P) <=> (\E i \in 1..n : s[i] \in P) \/ e \in P
  BY <1>1, <1>2 DEF Has
<1>4. ASSUME \A i, j \in 1..n : s[i] \in P /\ s[j] \in P => i = j, ~((\E i \in 1..n : s[i] \in P) /\ e \in P)
      PROVE  Once(t, P)
  BY <1>1, <1>4 DEF Once
<1> QED BY <1>3, <1>4 DEF Has, Once, t, n

LEMMA TailHas ==
    ASSUME NEW S, NEW s \in Seq(S), s # <<>>, NEW P
    PROVE  /\ Has(Tail(s), P) => Has(s, P)
           /\ Has(s, P) => Has(Tail(s), P) \/ Head(s) \in P
           /\ Head(s) \in P => Has(s, P)
           /\ Once(s, P) => Once(Tail(s), P) /\ ~(Head(s) \in P /\ Has(Tail(s), P))
<1> DEFINE t == Tail(s)
           n == Len(s)
<1>1. /\ n \in Nat \ {0} /\ Len(t) = n - 1 /\ Head(s) = s[1]
      /\ \A i \in 1..n - 1 : t[i] = s[i + 1]
  OBVIOUS
<1>2. /\ 1 \in 1..n
      /\ \A i \in 1..n - 1 : i + 1 \in 1..n /\ i + 1 # 1
      /\ \A i \in 1..n : i = 1 \/ (i - 1 \in 1..n - 1 /\ (i - 1) + 1 = i)
      /\ \A i, j \in 1..n - 1 : i + 1 = j + 1 => i = j
  BY <1>1
<1> HIDE DEF t, n
<1>3. Has(t, P) => Has(s, P)
  BY <1>1, <1>2 DEF Has, n
<1>4. Has(s, P) => Has(t, P) \/ Head(s) \in P
  <2> SUFFICES ASSUME NEW i \in 1..n, s[i] \in P, i # 1 PROVE Has(t, P)
    BY <1>1 DEF Has, n
  <2>1. i - 1 \in 1..n - 1 /\ t[i - 1] = s[i]
    BY <1>1, <1>2
  <2> QED BY <1>1, <2>1 DEF Has
<1>5. Head(s) \in P => Has(s, P)
  BY <1>1, <1>2 DEF Has, n
<1>6. ASSUME Once(s, P) PROVE Once(t, P) /\ ~(Head(s) \in P /\ Has(t, P))
  <2>1. \A i, j \in 1..n : s[i] \in P /\ s[j] \in P => i = j
    BY <1>6 DEF Once, n
  <2>2. Once(t, P)
    BY <1>1, <1>2, <2>1 DEF Once
  <2>3. ~(Head(s) \in P /\ Has(t, P))
    BY <1>1, <1>2, <2>1 DEF Has
  <2> QED BY <2>2, <2>3
<1> QED BY <1>3, <1>4, <1>5, <1>6 DEF t

-----------------------------------------------------------------------------
(* The list's copies of a record.                                          *)

LEMMA ById_Has ==
    ASSUME NEW recs \in SUBSET Entry, OneEach(recs), NEW id
    PROVE  /\ Has(ById(recs), CopiesOf(id)) <=> \E r \in recs : r.id = id
           /\ Once(ById(recs), CopiesOf(id))
<1> DEFINE s == ById(recs)
<1>1. /\ s \in Seq(Entry) /\ Len(s) \in Nat
      /\ \A r \in recs : \E k \in 1..Len(s) : s[k] = r
      /\ \A k \in 1..Len(s) : s[k] \in recs
      /\ \A j, k \in 1..Len(s) : j < k => s[j].id > s[k].id
  <2>1. s \in Seq(Entry)
    BY ByIdLists
  <2>2. Len(s) \in Nat
    BY <2>1
  <2> QED BY <2>1, <2>2, ByIdLists
<1> HIDE DEF s
<1>2. Has(s, CopiesOf(id)) <=> \E r \in recs : r.id = id
  BY <1>1 DEF Has, CopiesOf
<1>3. Once(s, CopiesOf(id))
  <2> SUFFICES ASSUME NEW j \in 1..Len(s), NEW k \in 1..Len(s), s[j].id = id, s[k].id = id
               PROVE  j = k
    BY DEF Once, CopiesOf
  <2>1. s[j].id \in Nat
    <3>1. s[j] \in Entry
      BY <1>1
    <3> QED BY <3>1 DEF Entry, Ids
  <2>2. ~(j < k) /\ ~(k < j)
    BY <1>1, <2>1
  <2> QED BY <1>1, <2>2
<1> QED BY <1>2, <1>3 DEF s

LEMMA FrontHas ==
    ASSUME recordList \in Seq(Entry), NEW r \in Entry, recordList' = <<r>> \o recordList, NEW P
    PROVE  /\ Has(recordList', P) <=> Has(recordList, P) \/ r \in P
           /\ Once(recordList, P) /\ ~(Has(recordList, P) /\ r \in P) => Once(recordList', P)
<1> DEFINE n == Len(recordList)
<1>1. /\ n \in Nat /\ Len(recordList') = n + 1 /\ recordList'[1] = r
      /\ \A i \in 1..n : recordList'[i + 1] = recordList[i]
      /\ \A i \in 2..n + 1 : i - 1 \in 1..n /\ recordList'[i] = recordList[i - 1]
  <2>1. n \in Nat
    OBVIOUS
  <2> QED BY <2>1, FrontLists
<1>2. /\ 1 \in 1..n + 1 /\ \A i \in 1..n : i + 1 \in 1..n + 1
      /\ \A i \in 1..n + 1 : i = 1 \/ i \in 2..n + 1
      /\ \A i, j \in 2..n + 1 : i - 1 = j - 1 => i = j
  BY <1>1
<1> HIDE DEF n
<1>3. Has(recordList', P) <=> (\E i \in 1..n : recordList[i] \in P) \/ r \in P
  BY <1>1, <1>2 DEF Has
<1>4. ASSUME \A i, j \in 1..n : recordList[i] \in P /\ recordList[j] \in P => i = j,
             ~((\E i \in 1..n : recordList[i] \in P) /\ r \in P)
      PROVE  Once(recordList', P)
  <2> SUFFICES ASSUME NEW i \in 1..n + 1, NEW j \in 1..n + 1, recordList'[i] \in P, recordList'[j] \in P
               PROVE  i = j
    BY <1>1 DEF Once
  <2> QED BY <1>1, <1>2, <1>4
<1> QED BY <1>3, <1>4 DEF Has, Once, n

LEMMA UpdateHas ==
    ASSUME recordList \in Seq(Entry), NEW i \in Listed, NEW id,
           recordList' = [recordList EXCEPT ![FirstOf(i)].timed = TRUE]
    PROVE  /\ Has(recordList', CopiesOf(id)) <=> Has(recordList, CopiesOf(id))
           /\ Once(recordList, CopiesOf(id)) => Once(recordList', CopiesOf(id))
<1>1. /\ recordList' \in Seq(Entry) /\ Len(recordList') = Len(recordList)
      /\ \A k \in 1..Len(recordList) : recordList'[k].id = recordList[k].id
  BY UpdateLists
<1>2. \A k \in 1..Len(recordList) : recordList'[k] \in CopiesOf(id) <=> recordList[k] \in CopiesOf(id)
  <2>1. \A k \in 1..Len(recordList) : recordList'[k] \in Entry /\ recordList[k] \in Entry
    BY <1>1
  <2> QED BY <1>1, <2>1, Zenon DEF CopiesOf
<1> QED BY <1>1, <1>2, Zenon DEF Has, Once

LEMMA TrimHas ==
    ASSUME NEW list \in Seq(Entry), NEW P
    PROVE  /\ Has(Trimmed(Sorted(list)), P) => Has(list, P)
           /\ Once(list, P) => Once(Trimmed(Sorted(list)), P)
<1> DEFINE t == Trimmed(Sorted(list))
           o == Order(list)
           n == Len(list)
           m == Len(t)
<1>1. /\ o \in [1..n -> 1..n] /\ Sorted(list) \in Seq(Entry) /\ Len(Sorted(list)) = n
      /\ \A k \in 1..n : Sorted(list)[k] = list[o[k]]
  BY SortedOrders
<1>2. /\ n \in Nat /\ m \in Nat /\ m <= n /\ \A k \in 1..m : t[k] = Sorted(list)[k]
  BY <1>1, TrimmedLists
<1>3. \A k \in 1..m : k \in 1..n /\ o[k] \in 1..n /\ t[k] = list[o[k]]
  BY <1>1, <1>2
<1>4. \A j, k \in 1..n : o[j] = o[k] => j = k
  <2>1. \A j, k \in 1..n : j < k => \/ list[o[j]].id > list[o[k]].id
                                    \/ o[j] < o[k]
    BY SortedOrders
  <2>2. \A j \in 1..n : list[o[j]].id \in Nat
    <3>1. \A j \in 1..n : list[o[j]] \in Entry
      BY <1>1
    <3> QED BY <3>1 DEF Entry, Ids
  <2>3. ASSUME NEW j \in 1..n, NEW k \in 1..n, o[j] = o[k] PROVE ~(j < k)
    <3>1. o[j] \in Nat /\ ~(o[j] < o[k])
      BY <1>1, <2>3
    <3> QED BY <2>1, <2>2, <2>3, <3>1
  <2> QED BY <1>2, <2>3
<1> HIDE DEF t, o, n, m
<1>5. Has(t, P) => Has(list, P)
  BY <1>3, Zenon DEF Has, n, m
<1>6. ASSUME Once(list, P) PROVE Once(t, P)
  <2>1. \A i, j \in 1..n : list[i] \in P /\ list[j] \in P => i = j
    BY <1>6, Zenon DEF Once, n
  <2>2. \A i, j \in 1..m : t[i] \in P /\ t[j] \in P => i = j
    <3> SUFFICES ASSUME NEW i \in 1..m, NEW j \in 1..m, t[i] \in P, t[j] \in P PROVE i = j
      OBVIOUS
    <3>1. list[o[i]] \in P /\ list[o[j]] \in P /\ o[i] \in 1..n /\ o[j] \in 1..n
      BY <1>3
    <3>2. o[i] = o[j] /\ i \in 1..n /\ j \in 1..n
      BY <1>3, <2>1, <3>1
    <3> QED BY <1>4, <3>2
  <2> QED BY <2>2, Zenon DEF Once, m
<1> QED BY <1>5, <1>6 DEF t

-----------------------------------------------------------------------------
(* The messages and events.                                                *)

LEMMA BaseShapes ==
    ASSUME Base
    PROVE  /\ publishCh \in Seq(Shown!Numbered) /\ Waiting \in Seq(Shown!Numbered)
           /\ WireShape(Wire) /\ Wire \in Seq(Event) /\ recordList \in Seq(Entry)
           /\ timed \subseteq answered /\ records \subseteq Past /\ records \subseteq Ids
<1>1. /\ Store!TypeOK /\ Shown!KeptInv /\ ConnsInv /\ HandlerTypes /\ ListTypes
  BY Zenon DEF Base
<1>2. publishCh \in Seq(Shown!Numbered) /\ Waiting \in Seq(Shown!Numbered)
  BY <1>1 DEF Shown!KeptInv, Shown!OrderInv, Waiting, ConnsInv
<1>3. WireShape(Wire) /\ Wire \in Seq(Event)
  BY <1>1 DEF ConnsInv, WireShape, Wire
<1>4. records \subseteq Past /\ records \subseteq Ids
  BY <1>1, SizesAssumption DEF Store!TypeOK, Past, Ids
<1> QED BY <1>1, <1>2, <1>3, <1>4 DEF ListTypes, HandlerTypes

LEMMA Msgs ==
    /\ \A i, id : /\ RecordMsg(i) = RecordMsg(id) => i = id
                  /\ UpdateMsg(i) = UpdateMsg(id) => i = id
                  /\ RecordMsg(i) # UpdateMsg(id)
                  /\ NewEvent(i) = NewEvent(id) => i = id
                  /\ UpdateEvent(i) = UpdateEvent(id) => i = id
                  /\ NewEvent(i) # UpdateEvent(id)
<1>1. \A i, id : /\ RecordMsg(i) = RecordMsg(id) => i = id
                 /\ UpdateMsg(i) = UpdateMsg(id) => i = id
                 /\ RecordMsg(i) # UpdateMsg(id)
  BY DEF RecordMsg, UpdateMsg
<1>2. ASSUME NEW i, NEW id, NEW t, {[id |-> i, timed |-> t]} = {[id |-> id, timed |-> t]}
      PROVE  i = id
  <2>1. [id |-> i, timed |-> t] = [id |-> id, timed |-> t]
    BY <1>2
  <2> QED BY <2>1
<1>3. \A i, id : NewEvent(i) = NewEvent(id) => i = id
  <2> SUFFICES ASSUME NEW i, NEW id, NewEvent(i) = NewEvent(id) PROVE i = id
    OBVIOUS
  <2>1. NewEvent(i).recs = {[id |-> i, timed |-> FALSE]} /\ NewEvent(id).recs = {[id |-> id, timed |-> FALSE]}
    BY DEF NewEvent
  <2> QED BY <1>2, <2>1
<1>4. \A i, id : UpdateEvent(i) = UpdateEvent(id) => i = id
  <2> SUFFICES ASSUME NEW i, NEW id, UpdateEvent(i) = UpdateEvent(id) PROVE i = id
    OBVIOUS
  <2>1. UpdateEvent(i).recs = {[id |-> i, timed |-> TRUE]} /\ UpdateEvent(id).recs = {[id |-> id, timed |-> TRUE]}
    BY DEF UpdateEvent
  <2> QED BY <1>2, <2>1
<1>5. \A i, id : NewEvent(i) # UpdateEvent(id)
  BY DEF NewEvent, UpdateEvent
<1> QED BY <1>1, <1>3, <1>4, <1>5

LEMMA MsgSets ==
    ASSUME NEW e \in Shown!Numbered, NEW i, NEW id
    PROVE  /\ e.msg = RecordMsg(i) => (e \in RecordMsgs(id) <=> i = id) /\ e \notin UpdateMsgs(id)
           /\ e.msg = UpdateMsg(i) => (e \in UpdateMsgs(id) <=> i = id) /\ e \notin RecordMsgs(id)
BY Msgs, Zenon DEF RecordMsgs, UpdateMsgs

LEMMA EventSets ==
    ASSUME NEW i \in Ids, NEW id
    PROVE  /\ NewEvent(i) \in Event /\ UpdateEvent(i) \in Event
           /\ NewEvent(i) \in {NewEvent(id)} <=> i = id
           /\ UpdateEvent(i) \in {UpdateEvent(id)} <=> i = id
           /\ NewEvent(i) \notin {UpdateEvent(id)} /\ UpdateEvent(i) \notin {NewEvent(id)}
           /\ NewEvent(i) \notin Snapshot /\ UpdateEvent(i) \notin Snapshot
           /\ NewEvent(i) \notin SnapshotsOf(id) /\ UpdateEvent(i) \notin SnapshotsOf(id)
           /\ NewEvent(i) \notin TimesOf(id)
           /\ UpdateEvent(i) \in TimesOf(id) <=> i = id
<1>1. NewEvent(i) \in Event /\ UpdateEvent(i) \in Event
  BY DEF NewEvent, UpdateEvent, Event, Entry
<1>2. /\ NewEvent(i).recs = {[id |-> i, timed |-> FALSE]} /\ NewEvent(i).event = "new-record"
      /\ UpdateEvent(i).recs = {[id |-> i, timed |-> TRUE]} /\ UpdateEvent(i).event = "update-record"
  BY DEF NewEvent, UpdateEvent
<1>3. NewEvent(i) \notin Snapshot /\ UpdateEvent(i) \notin Snapshot
  BY <1>2 DEF Snapshot
<1>4. NewEvent(i) \notin SnapshotsOf(id) /\ UpdateEvent(i) \notin SnapshotsOf(id)
  BY <1>3, Zenon DEF SnapshotsOf
<1>5. NewEvent(i) \notin TimesOf(id)
  <2>1. [id |-> id, timed |-> TRUE] # [id |-> i, timed |-> FALSE]
    OBVIOUS
  <2> QED BY <1>2, <2>1, Zenon DEF TimesOf
<1>6. UpdateEvent(i) \in TimesOf(id) <=> i = id
  <2>1. [id |-> id, timed |-> TRUE] = [id |-> i, timed |-> TRUE] => i = id
    OBVIOUS
  <2>2. UpdateEvent(i) \in TimesOf(id) <=> [id |-> id, timed |-> TRUE] \in {[id |-> i, timed |-> TRUE]}
    BY <1>1, <1>2, Zenon DEF TimesOf
  <2> QED BY <2>1, <2>2, Zenon
<1> QED BY <1>1, <1>3, <1>4, <1>5, <1>6, Msgs, Zenon

LEMMA SnapshotSets ==
    ASSUME NEW e \in Snapshot, NEW id
    PROVE  /\ e \in Event /\ e \notin {NewEvent(id)} /\ e \notin {UpdateEvent(id)}
           /\ e \in SnapshotsOf(id) <=> \E r \in e.recs : r.id = id
<1>1. e \in Event /\ e.event = "start"
  BY Zenon DEF Snapshot
<1>2. NewEvent(id).event = "new-record" /\ UpdateEvent(id).event = "update-record"
  BY DEF NewEvent, UpdateEvent
<1>3. e # NewEvent(id) /\ e # UpdateEvent(id)
  BY <1>1, <1>2
<1> QED BY <1>1, <1>3, Zenon DEF SnapshotsOf

\* What the snapshot holds.
LEMMA SnapshotHolds ==
    ASSUME Store!TypeOK, NEW id
    PROVE  LET e == [event |-> "start", recs |-> ThinCloneWithoutResponseBody]
           IN  /\ e \in Snapshot
               /\ e \in SnapshotsOf(id) <=> id \in records
               /\ id \in records \cap timed => e \in TimesOf(id)
               /\ e \in TimesOf(id) => id \in timed
<1> DEFINE recs == ThinCloneWithoutResponseBody
           e == [event |-> "start", recs |-> recs]
<1>1. e \in Snapshot
  BY SnapshotShape DEF Snapshot
<1>2. \A r \in recs : \E i \in records : r = [id |-> i, timed |-> i \in timed]
  BY DEF ThinCloneWithoutResponseBody
<1>3. \A i \in records : [id |-> i, timed |-> i \in timed] \in recs
  BY DEF ThinCloneWithoutResponseBody
<1> HIDE DEF recs
<1>4. e.recs = recs /\ e \in Event
  BY <1>1 DEF Snapshot
<1> HIDE DEF e
<1>5. ASSUME NEW r \in recs, r.id = id PROVE id \in records
  <2>1. PICK i \in records : r = [id |-> i, timed |-> i \in timed]
    BY <1>2
  <2>2. r.id = i
    BY <2>1
  <2> QED BY <1>5, <2>2
<1>6. ASSUME id \in records PROVE \E r \in recs : r.id = id
  <2>1. PICK r \in recs : r = [id |-> id, timed |-> id \in timed]
    BY <1>3, <1>6
  <2>2. r.id = id
    BY <2>1
  <2> QED BY <2>2
<1>7. ASSUME id \in records \cap timed PROVE e \in TimesOf(id)
  <2>1. (id \in timed) = TRUE
    BY <1>7
  <2>2. [id |-> id, timed |-> TRUE] \in recs
    BY <1>3, <1>7, <2>1
  <2> QED BY <1>4, <2>2, Zenon DEF TimesOf
<1>8. ASSUME e \in TimesOf(id) PROVE id \in timed
  <2>1. [id |-> id, timed |-> TRUE] \in recs
    BY <1>4, <1>8, Zenon DEF TimesOf
  <2>2. PICK i \in records : [id |-> id, timed |-> TRUE] = [id |-> i, timed |-> i \in timed]
    BY <1>2, <2>1
  <2>3. id = i
    BY <2>2
  <2>4. ASSUME i \notin timed PROVE FALSE
    <3>1. (i \in timed) = FALSE
      BY <2>4
    <3>2. [id |-> id, timed |-> TRUE] = [id |-> i, timed |-> FALSE]
      BY <2>2, <3>1, Zenon
    <3> QED BY <3>2
  <2> QED BY <2>3, <2>4
<1> QED BY <1>1, <1>4, <1>5, <1>6, <1>7, <1>8, SnapshotSets, Zenon DEF e, recs

\* Only a snapshot can be first, and only it has its event.
LEMMA SnapshotFirst ==
    ASSUME NEW w, WireShape(w), w # <<>>, NEW P \in SUBSET Snapshot
    PROVE  ~Has(Tail(w), P)
<1>1. /\ Len(w) \in Nat \ {0} /\ Len(Tail(w)) = Len(w) - 1
      /\ \A i \in 1..Len(Tail(w)) : Tail(w)[i] = w[i + 1] /\ w[i + 1].event # "start"
  BY WireTail
<1> QED BY <1>1 DEF Has, Snapshot

\* What OnTheWay counts.
LEMMA WayIs ==
    ASSUME Base, NEW id \in Ids
    PROVE  id \in OnTheWay(es) <=> Announcing(id) \/ InSnapshot(id)
<1>0. publishCh \in Seq(Shown!Numbered) /\ Waiting \in Seq(Shown!Numbered) /\ WireShape(Wire)
  BY BaseShapes
<1>1. ASSUME NEW ch \in Seq(Shown!Numbered)
      PROVE  id \in {ch[i].msg.id : i \in {j \in DOMAIN ch : ch[j].msg.kind = "record"}}
             <=> Has(ch, RecordMsgs(id))
  <2>1. DOMAIN ch = 1..Len(ch) /\ \A i \in 1..Len(ch) : ch[i] \in Shown!Numbered
    OBVIOUS
  <2>2. \A i \in 1..Len(ch) : ch[i].msg = RecordMsg(id) <=> ch[i].msg.kind = "record" /\ ch[i].msg.id = id
    <3> SUFFICES ASSUME NEW i \in 1..Len(ch)
                 PROVE  ch[i].msg = RecordMsg(id) <=> ch[i].msg.kind = "record" /\ ch[i].msg.id = id
      OBVIOUS
    <3>1. ch[i].msg \in Messages
      BY <2>1 DEF Shown!Numbered
    <3> QED BY <3>1 DEF Messages, RecordMsg
  <2>3. Has(ch, RecordMsgs(id)) <=> \E i \in 1..Len(ch) : ch[i].msg = RecordMsg(id)
    BY <2>1, Zenon DEF Has, RecordMsgs
  <2> QED BY <2>1, <2>2, <2>3
<1>2. id \in UNION {{r.id : r \in Wire[i].recs} : i \in {j \in DOMAIN Wire : Wire[j].event # "update-record"}}
      <=> Sent(id) \/ InSnapshot(id)
  <2>1. DOMAIN Wire = 1..Len(Wire) /\ \A i \in 1..Len(Wire) : Wire[i] \in Event /\ EventShape(i, Wire[i])
    BY <1>0 DEF WireShape
  <2>2. ASSUME NEW i \in 1..Len(Wire)
        PROVE  (Wire[i].event # "update-record" /\ \E r \in Wire[i].recs : r.id = id)
               <=> Wire[i] = NewEvent(id) \/ Wire[i] \in SnapshotsOf(id)
    <3>1. CASE Wire[i].event = "start"
      <4>1. Wire[i] \in Snapshot
        BY <2>1, <3>1, Zenon DEF Snapshot
      <4>2. "start" # "update-record"
        OBVIOUS
      <4> QED BY <3>1, <4>1, <4>2, SnapshotSets, Zenon
    <3>2. CASE Wire[i].event # "start"
      <4>1. PICK k \in Ids : \/ /\ Wire[i].event = "new-record"
                                /\ Wire[i].recs = {[id |-> k, timed |-> FALSE]}
                             \/ /\ Wire[i].event = "update-record"
                                /\ Wire[i].recs = {[id |-> k, timed |-> TRUE]}
        BY <2>1, <3>2 DEF EventShape
      <4>2. Wire[i] = [event |-> Wire[i].event, recs |-> Wire[i].recs]
        BY <2>1, EventIs
      <4>3. Wire[i] = NewEvent(k) \/ Wire[i] = UpdateEvent(k)
        BY <4>1, <4>2, Zenon DEF NewEvent, UpdateEvent
      <4>4. CASE Wire[i] = NewEvent(k)
        <5>1. Wire[i].event # "update-record" /\ Wire[i].recs = {[id |-> k, timed |-> FALSE]}
          BY <4>4 DEF NewEvent
        <5>2. (\E r \in Wire[i].recs : r.id = id) <=> k = id
          BY <5>1
        <5>3. NewEvent(k) = NewEvent(id) <=> k = id
          BY Msgs
        <5>4. NewEvent(k) \notin SnapshotsOf(id)
          BY EventSets
        <5> QED BY <4>4, <5>1, <5>2, <5>3, <5>4, Zenon
      <4>5. CASE Wire[i] = UpdateEvent(k)
        <5>1. Wire[i].event = "update-record"
          BY <4>5 DEF UpdateEvent
        <5>2. UpdateEvent(k) # NewEvent(id)
          BY Msgs
        <5>3. UpdateEvent(k) \notin SnapshotsOf(id)
          BY EventSets
        <5> QED BY <4>5, <5>1, <5>2, <5>3, Zenon
      <4> QED BY <4>3, <4>4, <4>5
    <3> QED BY <3>1, <3>2
  <2>3. id \in UNION {{r.id : r \in Wire[i].recs} : i \in {j \in DOMAIN Wire : Wire[j].event # "update-record"}}
        <=> \E i \in 1..Len(Wire) : Wire[i].event # "update-record" /\ \E r \in Wire[i].recs : r.id = id
    BY <2>1
  <2>4. (\E i \in 1..Len(Wire) : Wire[i] = NewEvent(id) \/ Wire[i] \in SnapshotsOf(id))
        <=> Sent(id) \/ InSnapshot(id)
    BY Zenon DEF Sent, InSnapshot, Has
  <2> QED BY <2>2, <2>3, <2>4, Zenon
<1>3. OnTheWay(es) =
        adding
        \cup {publishCh[i].msg.id : i \in {j \in DOMAIN publishCh : publishCh[j].msg.kind = "record"}}
        \cup {Waiting[i].msg.id : i \in {j \in DOMAIN Waiting : Waiting[j].msg.kind = "record"}}
        \cup UNION {{r.id : r \in Wire[i].recs} : i \in {j \in DOMAIN Wire : Wire[j].event # "update-record"}}
  BY Zenon DEF OnTheWay, Waiting, Wire
<1>4. /\ id \in {publishCh[i].msg.id : i \in {j \in DOMAIN publishCh : publishCh[j].msg.kind = "record"}}
         <=> Published(id)
      /\ id \in {Waiting[i].msg.id : i \in {j \in DOMAIN Waiting : Waiting[j].msg.kind = "record"}}
         <=> Received(id)
  BY <1>0, <1>1, Zenon DEF Published, Received
<1>5. \A A, B, C, D : id \in A \cup B \cup C \cup D <=> (id \in A \/ id \in B \/ id \in C \/ id \in D)
  BY Zenon
<1> QED BY <1>2, <1>3, <1>4, <1>5, Zenon DEF Announcing

-----------------------------------------------------------------------------
(* A record is listed once but around a snapshot.                          *)

LEMMA OnceOfStep ==
    ASSUME Base, Past \subseteq Past', NEW id \in Ids, OnceOf(id),
           \/ Passes
           \/ \E i \in Ids : Stores(i) \/ Announces(i) \/ GetsTime(i) \/ AnnouncesTime(i)
           \/ Distributes \/ Snapshots
           \/ \E i \in Ids : ForwardsNew(i) \/ ForwardsUpdate(i)
           \/ TakesStart \/ \E i \in Ids : TakesNew(i) \/ TakesUpdate(i)
           \/ TrimsList \/ ClearsList \/ Reconnects
    PROVE  OnceOf(id)'
<1>0. /\ publishCh \in Seq(Shown!Numbered) /\ Waiting \in Seq(Shown!Numbered)
      /\ WireShape(Wire) /\ Wire \in Seq(Event) /\ recordList \in Seq(Entry)
      /\ records \subseteq Past
  BY BaseShapes
<1>o. /\ Once(publishCh, RecordMsgs(id)) /\ Once(Waiting, RecordMsgs(id)) /\ Once(Wire, {NewEvent(id)})
      /\ id \in adding => ~Published(id) /\ ~Received(id) /\ ~Sent(id)
      /\ Published(id) => ~Received(id) /\ ~Sent(id)
      /\ Received(id) => ~Sent(id)
      /\ Announcing(id) \/ InSnapshot(id) \/ IsListed(id) => id \in Past
      /\ id \notin overlap => (InSnapshot(id) \/ IsListed(id) => ~Announcing(id))
      /\ id \notin overlap => Once(recordList, CopiesOf(id))
  BY Zenon DEF OnceOf
<1>p. id \in Past => id \in Past'
  OBVIOUS
<1>e. ~Has(<<>>, {NewEvent(id)}) /\ Once(<<>>, {NewEvent(id)}) /\ ~Has(<<>>, SnapshotsOf(id))
      /\ ~Has(<<>>, RecordMsgs(id)) /\ Once(<<>>, RecordMsgs(id))
  BY EmptyHas
\* The channels and the list after the step, by what they were before.
<1> DEFINE Ch == Once(publishCh, RecordMsgs(id))' /\ (Published(id)' => Published(id))
           Wt == Once(Waiting, RecordMsgs(id))' /\ (Received(id)' => Received(id))
           Wr == Once(Wire, {NewEvent(id)})' /\ (Sent(id)' => Sent(id)) /\ (InSnapshot(id)' => InSnapshot(id))
           Ls == (IsListed(id)' => IsListed(id)) /\ (Once(recordList, CopiesOf(id)) => Once(recordList, CopiesOf(id))')
<1>ch. publishCh' = publishCh => Ch
  BY <1>o, Zenon DEF Published
<1>wt. Waiting' = Waiting => Wt
  BY <1>o, Zenon DEF Received
<1>wr. Wire' = Wire => Wr
  BY <1>o, Zenon DEF Sent, InSnapshot
<1>ls. recordList' = recordList => Ls
  BY Zenon DEF IsListed
<1>tl. ASSUME Wire # <<>>, Wire' = Tail(Wire) PROVE Wr
  BY <1>0, <1>o, <1>tl, TailHas DEF Sent, InSnapshot
<1>less. ASSUME Ch, Wt, Wr, Ls, adding' \subseteq adding, overlap' = overlap
         PROVE  OnceOf(id)'
  BY <1>o, <1>p, <1>less, Zenon DEF OnceOf, Announcing
<1> HIDE DEF Ch, Wt, Wr, Ls
<1>1. CASE Passes
  <2>1. /\ UNCHANGED <<publishCh, Waiting, Wire, recordList, adding, overlap>>
    BY <1>1, Zenon DEF Passes, Quiet, listView, histories
  <2> QED BY <1>ch, <1>wt, <1>wr, <1>ls, <1>less, <2>1
<1>2. ASSUME NEW i \in Ids, Stores(i) PROVE OnceOf(id)'
  <2>1. /\ UNCHANGED <<publishCh, Waiting, Wire, recordList, overlap>>
        /\ adding' = adding \cup {i} /\ i \in Past' \ Past
    BY <1>2, Zenon DEF Stores, listView, histories
  <2>2. Ch /\ Wt /\ Wr /\ Ls
    BY <1>ch, <1>wt, <1>wr, <1>ls, <2>1
  <2>3. CASE id # i
    <3>1. id \in adding' => id \in adding
      BY <2>1, <2>3
    <3> QED BY <1>o, <1>p, <2>1, <2>2, <3>1, Zenon DEF OnceOf, Announcing, Ch, Wt, Wr, Ls
  <2>4. CASE id = i
    <3>1. ~Announcing(id) /\ ~InSnapshot(id) /\ ~IsListed(id) /\ id \in Past'
      BY <1>o, <2>1, <2>4
    <3> QED BY <1>o, <2>1, <2>2, <3>1, Zenon DEF OnceOf, Announcing, Ch, Wt, Wr, Ls
  <2> QED BY <2>3, <2>4
<1>3. ASSUME NEW i \in Ids, Announces(i) PROVE OnceOf(id)'
  <2>1. PICK n \in Nat \ {0} :
           /\ i \in adding /\ adding' = adding \ {i}
           /\ publishCh' = Append(publishCh, [n |-> n, msg |-> RecordMsg(i)])
           /\ UNCHANGED <<Waiting, Wire, recordList, overlap>>
    BY <1>3, Zenon DEF Announces, listView, histories
  <2> DEFINE e == [n |-> n, msg |-> RecordMsg(i)]
  <2>2. e \in Shown!Numbered /\ e.msg = RecordMsg(i)
    BY DEF Shown!Numbered, RecordMsg, Messages
  <2> HIDE DEF e
  <2>3. e \in RecordMsgs(id) <=> i = id
    BY <2>2, MsgSets
  <2>4. Published(id)' <=> Published(id) \/ i = id
    BY <1>0, <2>1, <2>2, <2>3, AppendHas DEF Published, e
  <2>5. ~(Published(id) /\ i = id) => Once(publishCh', RecordMsgs(id))
    BY <1>0, <1>o, <2>1, <2>2, <2>3, AppendHas DEF Published, e
  <2>6. Wt /\ Wr /\ Ls
    BY <1>wt, <1>wr, <1>ls, <2>1
  <2>7. id \in adding' <=> id \in adding /\ id # i
    BY <2>1
  <2>8. i = id => id \in adding
    BY <2>1
  <2> QED BY <1>o, <1>p, <2>1, <2>4, <2>5, <2>6, <2>7, <2>8, Zenon DEF OnceOf, Announcing, Wt, Wr, Ls
<1>4. ASSUME NEW i \in Ids, GetsTime(i) PROVE OnceOf(id)'
  <2>1. UNCHANGED <<publishCh, Waiting, Wire, recordList, adding, overlap>>
    BY <1>4, Zenon DEF GetsTime, listView, histories
  <2> QED BY <1>ch, <1>wt, <1>wr, <1>ls, <1>less, <2>1
<1>5. ASSUME NEW i \in Ids, AnnouncesTime(i) PROVE OnceOf(id)'
  <2>1. PICK n \in Nat \ {0} :
           /\ publishCh' = Append(publishCh, [n |-> n, msg |-> UpdateMsg(i)])
           /\ UNCHANGED <<Waiting, Wire, recordList, adding, overlap>>
    BY <1>5, Zenon DEF AnnouncesTime, listView, histories
  <2> DEFINE e == [n |-> n, msg |-> UpdateMsg(i)]
  <2>2. e \in Shown!Numbered /\ e.msg = UpdateMsg(i)
    BY DEF Shown!Numbered, UpdateMsg, Messages
  <2> HIDE DEF e
  <2>3. e \notin RecordMsgs(id)
    BY <2>2, MsgSets
  <2>4. Ch
    BY <1>0, <1>o, <2>1, <2>2, <2>3, AppendHas DEF Published, e, Ch
  <2> QED BY <1>wt, <1>wr, <1>ls, <1>less, <2>1, <2>4
<1>6. CASE Distributes
  <2>1. /\ publishCh # <<>> /\ publishCh' = Tail(publishCh)
        /\ Waiting' = Append(Waiting, Head(publishCh)) \/ Waiting' = Waiting
        /\ UNCHANGED <<adding, Wire, recordList, overlap>>
    BY <1>6, Zenon DEF Distributes, listView
  <2>2. Ch /\ ~(Head(publishCh) \in RecordMsgs(id) /\ Published(id)')
        /\ (Head(publishCh) \in RecordMsgs(id) => Published(id))
    BY <1>0, <1>o, <2>1, TailHas DEF Published, Ch
  <2>3. Wr /\ Ls
    BY <1>wr, <1>ls, <2>1
  <2>4. CASE Waiting' = Waiting
    BY <1>wt, <1>less, <2>1, <2>2, <2>3, <2>4
  <2>5. CASE Waiting' = Append(Waiting, Head(publishCh))
    <3>1. Head(publishCh) \in Shown!Numbered
      BY <1>0, <2>1
    <3>2. /\ Received(id)' <=> Received(id) \/ Head(publishCh) \in RecordMsgs(id)
          /\ ~(Received(id) /\ Head(publishCh) \in RecordMsgs(id)) => Once(Waiting', RecordMsgs(id))
      BY <1>0, <1>o, <2>5, <3>1, AppendHas DEF Received
    <3> QED BY <1>o, <1>p, <2>1, <2>2, <2>3, <3>2, Zenon DEF OnceOf, Announcing, Ch, Wr, Ls
  <2> QED BY <2>1, <2>4, <2>5
<1>7. CASE Snapshots
  <2> DEFINE e == [event |-> "start", recs |-> ThinCloneWithoutResponseBody]
  <2>1. /\ Wire = <<>> /\ Wire' = <<e>> /\ overlap' = overlap \cup (records \cap OnTheWay(es))
        /\ UNCHANGED <<adding, publishCh, Waiting, recordList>>
    BY <1>7, Zenon DEF Snapshots, listView
  <2>2. e \in Snapshot /\ (e \in SnapshotsOf(id) <=> id \in records)
    <3>1. Store!TypeOK
      BY Zenon DEF Base
    <3> QED BY <3>1, SnapshotHolds
  <2> HIDE DEF e
  <2>3. e \notin {NewEvent(id)}
    BY <2>2, SnapshotSets
  <2>4. ~Has(<<e>>, {NewEvent(id)}) /\ Once(<<e>>, {NewEvent(id)})
        /\ (Has(<<e>>, SnapshotsOf(id)) <=> id \in records)
    BY <2>2, <2>3, OneHas
  <2>5. ~Sent(id)' /\ Once(Wire', {NewEvent(id)}) /\ (InSnapshot(id)' <=> id \in records)
    BY <2>1, <2>4, Zenon DEF Sent, InSnapshot
  <2>6. Ch /\ Wt /\ Ls
    BY <1>ch, <1>wt, <1>ls, <2>1
  <2>7. Announcing(id) => id \in OnTheWay(es)
    BY WayIs
  <2>8. /\ id \notin overlap' => id \notin overlap /\ (id \in records => ~Announcing(id))
        /\ id \in records => id \in Past
    BY <1>0, <2>1, <2>7
  <2> QED BY <1>o, <1>p, <2>1, <2>5, <2>6, <2>8, Zenon DEF OnceOf, Announcing, Ch, Wt, Ls
<1>8. ASSUME NEW i \in Ids, ForwardsNew(i) PROVE OnceOf(id)'
  <2>1. /\ Waiting # <<>> /\ Head(Waiting).msg = RecordMsg(i)
        /\ Waiting' = Tail(Waiting) /\ Wire' = Append(Wire, NewEvent(i))
        /\ UNCHANGED <<adding, publishCh, recordList, overlap>>
    BY <1>8, Zenon DEF ForwardsNew, listView, histories
  <2>2. Head(Waiting) \in RecordMsgs(id) <=> i = id
    <3>1. Head(Waiting) \in Shown!Numbered
      BY <1>0, <2>1
    <3> QED BY <2>1, <3>1, MsgSets
  <2>3. Wt /\ (i = id => ~Received(id)' /\ Received(id))
    BY <1>0, <1>o, <2>1, <2>2, TailHas DEF Received, Wt
  <2>4. /\ Sent(id)' <=> Sent(id) \/ i = id
        /\ ~(Sent(id) /\ i = id) => Once(Wire', {NewEvent(id)})
        /\ InSnapshot(id)' <=> InSnapshot(id)
    <3>1. NewEvent(i) \in Event /\ (NewEvent(i) \in {NewEvent(id)} <=> i = id) /\ NewEvent(i) \notin SnapshotsOf(id)
      BY EventSets
    <3> QED BY <1>0, <1>o, <2>1, <3>1, AppendHas DEF Sent, InSnapshot
  <2>5. Ch /\ Ls
    BY <1>ch, <1>ls, <2>1
  <2> QED BY <1>o, <1>p, <2>1, <2>3, <2>4, <2>5, Zenon DEF OnceOf, Announcing, Ch, Wt, Ls
<1>9. ASSUME NEW i \in Ids, ForwardsUpdate(i) PROVE OnceOf(id)'
  <2>1. /\ Waiting # <<>> /\ Waiting' = Tail(Waiting) /\ Wire' = Append(Wire, UpdateEvent(i))
        /\ UNCHANGED <<adding, publishCh, recordList, overlap>>
    BY <1>9, Zenon DEF ForwardsUpdate, listView
  <2>2. Wt
    BY <1>0, <1>o, <2>1, TailHas DEF Received, Wt
  <2>3. Wr
    <3>1. UpdateEvent(i) \in Event /\ UpdateEvent(i) \notin {NewEvent(id)} /\ UpdateEvent(i) \notin SnapshotsOf(id)
      BY EventSets
    <3> QED BY <1>0, <1>o, <2>1, <3>1, AppendHas DEF Sent, InSnapshot, Wr
  <2> QED BY <1>ch, <1>ls, <1>less, <2>1, <2>2, <2>3
<1>10. CASE TakesStart
  <2> DEFINE recs == Head(Wire).recs
  <2>1. /\ Wire # <<>> /\ Head(Wire).event = "start" /\ Wire' = Tail(Wire)
        /\ recordList' = ById(recs) \/ recordList' = recordList
        /\ UNCHANGED <<adding, publishCh, Waiting, overlap>>
    BY <1>10, Zenon DEF TakesStart
  <2>2. Ch /\ Wt /\ Wr
    BY <1>ch, <1>wt, <1>tl, <2>1
  <2>3. CASE recordList' = recordList
    BY <1>ls, <1>less, <2>1, <2>2, <2>3
  <2>4. CASE recordList' = ById(recs)
    <3>1. recs \in SUBSET Entry /\ OneEach(recs)
      BY <1>0, <2>1, StartOf
    <3>2. /\ IsListed(id)' <=> \E r \in recs : r.id = id
          /\ Once(recordList', CopiesOf(id))
      <4> HIDE DEF recs
      <4> QED BY <2>4, <3>1, ById_Has DEF IsListed
    <3>3. (\E r \in recs : r.id = id) => InSnapshot(id)
      <4>1. Head(Wire) \in Snapshot
        BY <1>0, <2>1 DEF Snapshot
      <4>2. (\E r \in recs : r.id = id) => Head(Wire) \in SnapshotsOf(id)
        BY <4>1, SnapshotSets
      <4> QED BY <1>0, <2>1, <4>2, TailHas DEF InSnapshot
    <3> HIDE DEF recs
    <3> QED BY <1>o, <1>p, <2>1, <2>2, <3>2, <3>3, Zenon DEF OnceOf, Announcing, Ch, Wt, Wr
  <2> QED BY <2>1, <2>3, <2>4
<1>11. ASSUME NEW i \in Ids, TakesNew(i) PROVE OnceOf(id)'
  <2> DEFINE r == [id |-> i, timed |-> FALSE]
  <2>1. /\ Wire # <<>> /\ Head(Wire) = NewEvent(i) /\ Wire' = Tail(Wire)
        /\ recordList' = <<r>> \o recordList \/ recordList' = recordList
        /\ UNCHANGED <<adding, publishCh, Waiting, overlap>>
    BY <1>11, Zenon DEF TakesNew, listView
  <2>2. Ch /\ Wt /\ Wr
    BY <1>ch, <1>wt, <1>tl, <2>1
  <2>3. CASE recordList' = recordList
    BY <1>ls, <1>less, <2>1, <2>2, <2>3
  <2>4. CASE recordList' = <<r>> \o recordList
    <3>1. r \in Entry /\ (r \in CopiesOf(id) <=> i = id)
      BY DEF Entry, CopiesOf
    <3> HIDE DEF r
    <3>2. /\ IsListed(id)' <=> IsListed(id) \/ i = id
          /\ Once(recordList, CopiesOf(id)) /\ ~(IsListed(id) /\ i = id) => Once(recordList', CopiesOf(id))
      BY <1>0, <2>4, <3>1, FrontHas DEF IsListed
    <3>3. i = id => Sent(id) /\ ~Sent(id)'
      <4>1. NewEvent(i) \in {NewEvent(id)} <=> i = id
        BY EventSets
      <4> QED BY <1>0, <1>o, <2>1, <4>1, TailHas DEF Sent
    <3> QED BY <1>o, <1>p, <2>1, <2>2, <3>2, <3>3, Zenon DEF OnceOf, Announcing, Ch, Wt, Wr
  <2> QED BY <2>1, <2>3, <2>4
<1>12. ASSUME NEW i \in Ids, TakesUpdate(i) PROVE OnceOf(id)'
  <2>1. /\ Wire # <<>> /\ Wire' = Tail(Wire) /\ UNCHANGED <<adding, publishCh, Waiting, overlap>>
        /\ \/ recordList' = recordList
           \/ i \in Listed /\ recordList' = [recordList EXCEPT ![FirstOf(i)].timed = TRUE]
    BY <1>12, Zenon DEF TakesUpdate
  <2>2. Ls
    BY <1>0, <1>ls, <2>1, UpdateHas DEF Ls, IsListed
  <2> QED BY <1>ch, <1>wt, <1>tl, <1>less, <2>1, <2>2
<1>13. CASE TrimsList
  <2>1. /\ recordList' = Trimmed(Sorted(recordList))
        /\ UNCHANGED <<adding, publishCh, Waiting, Wire, overlap>>
    BY <1>13, Zenon DEF TrimsList, Quiet, histories
  <2>2. Ls
    BY <1>0, <2>1, TrimHas DEF Ls, IsListed
  <2> QED BY <1>ch, <1>wt, <1>wr, <1>less, <2>1, <2>2
<1>14. CASE ClearsList
  <2>1. recordList' = ById({}) /\ UNCHANGED <<adding, publishCh, Waiting, Wire, overlap>>
    BY <1>14, Zenon DEF ClearsList, Quiet
  <2>2. Ls
    <3>1. {} \in SUBSET Entry /\ OneEach({})
      BY DEF OneEach
    <3>2. ~Has(ById({}), CopiesOf(id)) /\ Once(ById({}), CopiesOf(id))
      BY <3>1, ById_Has
    <3> QED BY <2>1, <3>2, Zenon DEF Ls, IsListed
  <2> QED BY <1>ch, <1>wt, <1>wr, <1>less, <2>1, <2>2
<1>15. CASE Reconnects
  <2>1. Waiting' = <<>> /\ Wire' = <<>> /\ UNCHANGED <<adding, publishCh, recordList, overlap>>
    BY <1>15, Zenon DEF Reconnects, listView
  <2>2. Wt /\ Wr
    BY <1>e, <2>1, Zenon DEF Wt, Wr, Received, Sent, InSnapshot
  <2> QED BY <1>ch, <1>ls, <1>less, <2>1, <2>2
<1> QED BY <1>1, <1>2, <1>3, <1>4, <1>5, <1>6, <1>7, <1>8, <1>9, <1>10, <1>11, <1>12, <1>13, <1>14, <1>15

LEMMA OnceStep ==
    ASSUME Base, OnceInv, [Next]_vars
    PROVE  OnceInv'
<1>1. Past \subseteq Past'
  BY PastGrows DEF Base
<1>2. \A id \in Ids : OnceOf(id)'
  BY <1>1, StepCases, OnceOfStep DEF OnceInv
<1> QED BY <1>2, Zenon DEF OnceInv

LEMMA OnceInit == Init => OnceInv
<1> SUFFICES ASSUME Init, NEW id \in Ids PROVE OnceOf(id)
  BY DEF OnceInv
<1>1. /\ publishCh = <<>> /\ Waiting = <<>> /\ Wire = <<>> /\ recordList = <<>> /\ adding = {}
  <2>1. 1 \in Conns
    <3>1. Base
      BY BaseInit
    <3>2. es \in Conns
      BY <3>1, Zenon DEF Base, ConnsInv
    <3> QED BY <3>2, Zenon DEF Init
  <2> QED BY <2>1 DEF Init, StreamInit, Events!Init, Waiting, Wire
<1>2. \A P : ~Has(<<>>, P) /\ Once(<<>>, P)
  BY EmptyHas
<1> QED BY <1>1, <1>2, Zenon DEF OnceOf, Announcing, Published, Received, Sent, InSnapshot, IsListed

(* A record is listed twice only if it was stored but not yet forwarded     *)
(* when the snapshot was taken.                                             *)
THEOREM TwiceHolds == Spec => []TwiceOnlyAroundSnapshot
<1>1. Base /\ OnceInv /\ [Next]_vars => Base' /\ OnceInv'
  BY BaseStep, OnceStep
<1>2. Base /\ OnceInv => TwiceOnlyAroundSnapshot
  <2> SUFFICES ASSUME Base, OnceInv,
                      NEW i \in DOMAIN recordList, NEW j \in DOMAIN recordList,
                      i # j, recordList[i].id = recordList[j].id
               PROVE  recordList[i].id \in overlap
    BY DEF TwiceOnlyAroundSnapshot
  <2>1. recordList \in Seq(Entry)
    BY BaseShapes
  <2>2. DOMAIN recordList = 1..Len(recordList) /\ recordList[i] \in Entry /\ recordList[j] \in Entry
    BY <2>1
  <2>3. recordList[i].id \in Ids
    BY <2>2 DEF Entry
  <2>4. OnceOf(recordList[i].id)
    BY <2>3 DEF OnceInv
  <2>5. recordList[i] \in CopiesOf(recordList[i].id) /\ recordList[j] \in CopiesOf(recordList[i].id)
    BY <2>2 DEF CopiesOf
  <2>6. ~Once(recordList, CopiesOf(recordList[i].id))
    BY <2>2, <2>5, Zenon DEF Once
  <2> QED BY <2>4, <2>6, Zenon DEF OnceOf
<1> QED BY <1>1, <1>2, BaseInit, OnceInit, PTL DEF Spec

-----------------------------------------------------------------------------
(* A full list.                                                            *)

LEMMA Pigeons ==
    ASSUME NEW n \in Nat, NEW m \in Nat, NEW f \in [1..n -> 1..m],
           \A i, j \in 1..n : f[i] = f[j] => i = j
    PROVE  n <= m
<1>1. /\ IsFiniteSet(1..n) /\ Cardinality(1..n) = n
      /\ IsFiniteSet(1..m) /\ Cardinality(1..m) = m
  BY FS_Interval
<1>2. f \in Injection(1..n, 1..m)
  BY Zenon DEF Injection, IsInjective
<1>3. Cardinality(1..n) <= Cardinality(1..m)
  BY <1>1, <1>2, FS_Injection
<1> QED BY <1>1, <1>3

LEMMA NewerFront ==
    ASSUME recordList \in Seq(Entry), NEW r \in Entry, recordList' = <<r>> \o recordList, NEW id,
           Newer(recordList, id)
    PROVE  Newer(recordList', id)
<1> DEFINE n == Len(recordList)
<1>0. maxRecords \in Nat /\ n \in Nat
  BY SizesAssumption
<1>1. PICK f \in [1..maxRecords -> 1..n] :
        /\ \A i, j \in 1..maxRecords : f[i] = f[j] => i = j
        /\ \A i \in 1..maxRecords : recordList[f[i]].id > id
  BY DEF Newer
<1>2. Len(recordList') = n + 1 /\ \A i \in 1..n : recordList'[i + 1] = recordList[i]
  BY FrontLists
<1> DEFINE g == [i \in 1..maxRecords |-> f[i] + 1]
<1> HIDE DEF n
<1>3. \A i \in 1..maxRecords : f[i] \in 1..n /\ f[i] \in Nat
  BY <1>0, <1>1
<1>4. g \in [1..maxRecords -> 1..n + 1]
  BY <1>0, <1>3
<1>5. \A i, j \in 1..maxRecords : g[i] = g[j] => i = j
  BY <1>1, <1>3
<1>6. \A i \in 1..maxRecords : recordList'[g[i]].id > id
  BY <1>1, <1>2, <1>3
<1> HIDE DEF g
<1> QED BY <1>2, <1>4, <1>5, <1>6, Zenon DEF Newer

LEMMA NewerSame ==
    ASSUME NEW list \in Seq(Entry), NEW other \in Seq(Entry), Len(other) = Len(list),
           \A i \in 1..Len(list) : other[i].id = list[i].id, NEW id, Newer(list, id)
    PROVE  Newer(other, id)
<1>1. PICK f \in [1..maxRecords -> 1..Len(list)] :
        /\ \A i, j \in 1..maxRecords : f[i] = f[j] => i = j
        /\ \A i \in 1..maxRecords : list[f[i]].id > id
  BY DEF Newer
<1>2. \A i \in 1..maxRecords : f[i] \in 1..Len(list)
  BY <1>1
<1>3. \A i \in 1..maxRecords : other[f[i]].id > id
  BY <1>1, <1>2
<1> QED BY <1>1, <1>3, Zenon DEF Newer

\* Sorting: the ids fall, and every entry has its place.
LEMMA SortedFalls ==
    ASSUME NEW list \in Seq(Entry)
    PROVE  /\ Len(list) \in Nat
           /\ \A k \in 1..Len(list) : Sorted(list)[k] \in Entry /\ Sorted(list)[k].id \in Nat
           /\ \A j, k \in 1..Len(list) : j < k => Sorted(list)[j].id >= Sorted(list)[k].id
           /\ \A i \in 1..Len(list) : \E k \in 1..Len(list) : Order(list)[k] = i /\ Sorted(list)[k] = list[i]
<1> DEFINE s == Sorted(list)
           o == Order(list)
           n == Len(list)
<1>1. /\ n \in Nat /\ s \in Seq(Entry) /\ Len(s) = n /\ \A k \in 1..n : s[k] = list[o[k]]
      /\ \A i \in 1..n : \E k \in 1..n : o[k] = i
      /\ \A j, k \in 1..n : j < k => list[o[j]].id > list[o[k]].id \/ list[o[j]].id = list[o[k]].id
  <2>1. n \in Nat
    OBVIOUS
  <2> QED BY <2>1, SortedOrders
<1> HIDE DEF s, o, n
<1>2. \A k \in 1..n : s[k] \in Entry
  BY <1>1
<1>3. \A k \in 1..n : s[k].id \in Nat
  BY <1>2 DEF Entry, Ids
<1>4. ASSUME NEW j \in 1..n, NEW k \in 1..n, j < k PROVE s[j].id >= s[k].id
  <2>1. s[j].id > s[k].id \/ s[j].id = s[k].id
    <3>1. list[o[j]].id > list[o[k]].id \/ list[o[j]].id = list[o[k]].id
      BY <1>1, <1>4
    <3>2. s[j] = list[o[j]] /\ s[k] = list[o[k]]
      BY <1>1
    <3> QED BY <3>1, <3>2
  <2> QED BY <1>3, <2>1
<1>5. ASSUME NEW i \in 1..n PROVE \E k \in 1..n : o[k] = i /\ s[k] = list[i]
  <2>1. PICK k \in 1..n : o[k] = i
    BY <1>1
  <2>2. s[k] = list[i]
    BY <1>1, <2>1
  <2> QED BY <2>1, <2>2
<1> QED BY <1>1, <1>2, <1>3, <1>4, <1>5 DEF s, o, n

\* A full list of newer entries stays one, and the others are cut off.
LEMMA NewerTrim ==
    ASSUME NEW list \in Seq(Entry), NEW id \in Nat, maxRecords > 0, Newer(list, id)
    PROVE  /\ Newer(Trimmed(Sorted(list)), id)
           /\ \A k \in 1..Len(Trimmed(Sorted(list))) : Trimmed(Sorted(list))[k].id > id
<1> DEFINE s == Sorted(list)
           t == Trimmed(s)
           o == Order(list)
           n == Len(list)
<1>0. maxRecords \in Nat /\ n \in Nat
  BY SizesAssumption
<1>1. /\ s \in Seq(Entry) /\ Len(s) = n
      /\ \A k \in 1..n : s[k].id \in Nat
      /\ \A j, k \in 1..n : j < k => s[j].id >= s[k].id
      /\ \A i \in 1..n : \E k \in 1..n : o[k] = i /\ s[k] = list[i]
  BY SortedOrders, SortedFalls
<1>2. PICK f \in [1..maxRecords -> 1..n] :
        /\ \A i, j \in 1..maxRecords : f[i] = f[j] => i = j
        /\ \A i \in 1..maxRecords : list[f[i]].id > id
  BY DEF Newer
<1>3. maxRecords <= n
  BY <1>0, <1>2, Pigeons
<1> DEFINE g == [i \in 1..maxRecords |-> CHOOSE k \in 1..n : o[k] = f[i] /\ s[k] = list[f[i]]]
<1>4. \A i \in 1..maxRecords : g[i] \in 1..n /\ o[g[i]] = f[i] /\ s[g[i]] = list[f[i]]
  <2> SUFFICES ASSUME NEW i \in 1..maxRecords
               PROVE  g[i] \in 1..n /\ o[g[i]] = f[i] /\ s[g[i]] = list[f[i]]
    OBVIOUS
  <2> HIDE DEF s, o, n
  <2>1. f[i] \in 1..n
    BY <1>2
  <2>2. \E k \in 1..n : o[k] = f[i] /\ s[k] = list[f[i]]
    BY <1>1, <2>1
  <2>3. g[i] = CHOOSE k \in 1..n : o[k] = f[i] /\ s[k] = list[f[i]]
    OBVIOUS
  <2> QED BY <2>2, <2>3, Zenon
<1>5. /\ t \in Seq(Entry) /\ Len(t) = maxRecords /\ \A k \in 1..Len(t) : t[k] = s[k]
  <2>1. /\ t \in Seq(Entry) /\ Len(t) <= n /\ \A k \in 1..Len(t) : t[k] = s[k]
        /\ t = s \/ Len(t) = maxRecords
    BY <1>1, TrimmedLists
  <2>2. CASE t = s /\ Len(t) # maxRecords
    <3>1. n > maxRecords
      BY <1>0, <1>1, <1>3, <2>2
    <3>2. t = SubSeq(s, 1, maxRecords)
      BY <1>1, <3>1, Zenon DEF Trimmed
    <3>3. Len(SubSeq(s, 1, maxRecords)) = maxRecords
      BY <1>0, <1>1, <3>1
    <3> QED BY <2>2, <3>2, <3>3
  <2> QED BY <2>1, <2>2
<1> HIDE DEF s, t, o, n, g
<1>6. \A i, j \in 1..maxRecords : g[i] = g[j] => i = j
  BY <1>2, <1>4
<1>7. \A i \in 1..maxRecords : s[g[i]].id > id
  BY <1>2, <1>4
<1>8. ASSUME NEW k \in 1..maxRecords PROVE s[k].id > id
  <2> SUFFICES ASSUME ~(s[k].id > id) PROVE FALSE
    OBVIOUS
  <2>1. k \in 1..n /\ k \in Nat /\ k - 1 \in Nat
    BY <1>0, <1>3
  <2>2. ASSUME NEW i \in 1..maxRecords PROVE g[i] \in 1..k - 1
    <3>1. g[i] \in 1..n /\ s[g[i]].id > id
      BY <1>4, <1>7
    <3>2. ~(k < g[i])
      <4> SUFFICES ASSUME k < g[i] PROVE FALSE
        OBVIOUS
      <4>1. s[k].id >= s[g[i]].id /\ s[k].id \in Nat /\ s[g[i]].id \in Nat
        BY <1>1, <2>1, <3>1
      <4> QED BY <3>1, <4>1
    <3>3. k # g[i]
      BY <3>1
    <3> QED BY <1>0, <2>1, <3>1, <3>2, <3>3
  <2>3. g \in [1..maxRecords -> 1..k - 1]
    BY <2>2 DEF g
  <2>4. maxRecords <= k - 1
    BY <1>0, <1>6, <2>1, <2>3, Pigeons
  <2> QED BY <1>0, <2>4
<1>9. \A k \in 1..Len(t) : t[k].id > id
  BY <1>5, <1>8
<1>10. Newer(t, id)
  <2> DEFINE h == [i \in 1..maxRecords |-> i]
  <2>1. h \in [1..maxRecords -> 1..Len(t)] /\ \A i \in 1..maxRecords : h[i] = i
    BY <1>5
  <2> HIDE DEF h
  <2>2. \A i \in 1..maxRecords : t[h[i]].id > id
    BY <1>5, <1>9, <2>1
  <2>3. \A i, j \in 1..maxRecords : h[i] = h[j] => i = j
    BY <2>1
  <2> QED BY <2>1, <2>2, <2>3, Zenon DEF Newer
<1> QED BY <1>9, <1>10 DEF t, s

\* An entry is cut off only for a full list of newer ones.
LEMMA CutOff ==
    ASSUME NEW list \in Seq(Entry), NEW id \in Nat,
           Has(list, CopiesOf(id)), ~Has(Trimmed(Sorted(list)), CopiesOf(id))
    PROVE  /\ maxRecords > 0 /\ Newer(Trimmed(Sorted(list)), id)
           /\ \A k \in 1..Len(Trimmed(Sorted(list))) : Trimmed(Sorted(list))[k].id > id
<1> DEFINE s == Sorted(list)
           t == Trimmed(s)
           n == Len(list)
<1>0. maxRecords \in Nat /\ n \in Nat
  BY SizesAssumption
<1>1. /\ s \in Seq(Entry) /\ Len(s) = n
      /\ \A k \in 1..n : s[k] \in Entry /\ s[k].id \in Nat
      /\ \A j, k \in 1..n : j < k => s[j].id >= s[k].id
      /\ \A i \in 1..n : \E k \in 1..n : s[k] = list[i]
  BY SortedOrders, SortedFalls
<1>2. PICK i \in 1..n : list[i] \in CopiesOf(id)
  BY DEF Has
<1>3. PICK p \in 1..n : s[p] \in CopiesOf(id)
  BY <1>1, <1>2
<1>4. /\ Len(t) \in Nat /\ \A k \in 1..Len(t) : t[k] = s[k]
      /\ t = s \/ (maxRecords > 0 /\ Len(t) = maxRecords /\ n > maxRecords)
  BY <1>1, TrimmedLists
<1> HIDE DEF s, t, n
<1>5. ~(p \in 1..Len(t))
  BY <1>3, <1>4 DEF Has, t, s
<1>6. maxRecords > 0 /\ Len(t) = maxRecords /\ p > maxRecords /\ p <= n
  <2>1. t # s
    BY <1>1, <1>5
  <2>2. maxRecords > 0 /\ Len(t) = maxRecords
    BY <1>4, <2>1
  <2> QED BY <1>0, <1>5, <2>2
<1>7. ASSUME NEW k \in 1..Len(t) PROVE t[k].id > id
  <2>1. k \in 1..n /\ k < p /\ t[k] = s[k]
    BY <1>0, <1>4, <1>6
  <2>2. s[p].id = id
    BY <1>3 DEF CopiesOf
  <2>3. s[k].id >= id /\ s[k].id \in Nat
    BY <1>1, <1>3, <2>1, <2>2
  <2>4. s[k].id # id
    <3>1. ~(t[k] \in CopiesOf(id))
      BY <1>4, Zenon DEF Has, t, s
    <3> QED BY <1>1, <2>1, <3>1 DEF CopiesOf
  <2> QED BY <2>1, <2>3, <2>4
<1>8. Newer(t, id)
  <2> DEFINE h == [i2 \in 1..maxRecords |-> i2]
  <2>1. h \in [1..maxRecords -> 1..Len(t)] /\ \A i2 \in 1..maxRecords : h[i2] = i2
    BY <1>6
  <2> HIDE DEF h
  <2>2. \A i2 \in 1..maxRecords : t[h[i2]].id > id
    BY <1>6, <1>7, <2>1
  <2>3. \A i2, j \in 1..maxRecords : h[i2] = h[j] => i2 = j
    BY <2>1
  <2> QED BY <2>1, <2>2, <2>3, Zenon DEF Newer
<1> QED BY <1>6, <1>7, <1>8 DEF t, s

-----------------------------------------------------------------------------
(* Every stored record is on its way, known to be missed, listed, or older *)
(* than a full list.                                                       *)

LEMMA ShownOfStep ==
    ASSUME Base, NEW id \in Ids, ShownOf(id),
           \/ Passes
           \/ \E i \in Ids : Stores(i) \/ Announces(i) \/ GetsTime(i) \/ AnnouncesTime(i)
           \/ Distributes \/ Snapshots
           \/ \E i \in Ids : ForwardsNew(i) \/ ForwardsUpdate(i)
           \/ TakesStart \/ \E i \in Ids : TakesNew(i) \/ TakesUpdate(i)
           \/ TrimsList \/ ClearsList \/ Reconnects
    PROVE  ShownOf(id)'
<1>0. /\ publishCh \in Seq(Shown!Numbered) /\ Waiting \in Seq(Shown!Numbered)
      /\ WireShape(Wire) /\ Wire \in Seq(Event) /\ recordList \in Seq(Entry)
  BY BaseShapes
<1>s. Streaming /\ id \in records =>
        \/ id \in unseen \/ id \in adding \/ Published(id) \/ Received(id) \/ Sent(id) \/ InSnapshot(id)
        \/ ~Opening /\ (IsListed(id) \/ TrimmedAway(id))
  BY Zenon DEF ShownOf, Announcing
\* What is still there after the step.
<1> DEFINE Ch == Published(id) => Published(id)'
           Wt == Received(id) => Received(id)'
           Wr == (Sent(id) => Sent(id)') /\ (InSnapshot(id) => InSnapshot(id)') /\ (Opening' => Opening)
           Ls == IsListed(id) \/ TrimmedAway(id) => IsListed(id)' \/ TrimmedAway(id)'
<1>ch. publishCh' = publishCh => Ch
  BY Zenon DEF Published
<1>wt. Waiting' = Waiting => Wt
  BY Zenon DEF Received
<1>wr. Wire' = Wire => Wr
  BY Zenon DEF Sent, InSnapshot, Opening
<1>ls. ASSUME UNCHANGED listView PROVE Ls
  <2>1. recordList' = recordList /\ sorting' = sorting
    BY <1>ls DEF listView
  <2>2. IsListed(id) => IsListed(id)'
    BY <2>1, Zenon DEF IsListed
  <2>3. TrimmedAway(id) => TrimmedAway(id)'
    BY <2>1, Zenon DEF TrimmedAway
  <2> QED BY <2>2, <2>3
<1>app. ASSUME NEW e \in Shown!Numbered, publishCh' = Append(publishCh, e) PROVE Ch
  BY <1>0, <1>app, AppendHas DEF Published
<1>more. ASSUME Ch, Wt, Wr, Ls, adding \subseteq adding', unseen \subseteq unseen',
                Streaming' /\ id \in records' => Streaming /\ id \in records
         PROVE  ShownOf(id)'
  BY <1>s, <1>more, Zenon DEF ShownOf, Announcing
<1> HIDE DEF Ch, Wt, Wr, Ls
<1>1. CASE Passes
  <2>1. /\ UNCHANGED <<publishCh, Waiting, Wire, listView, adding, unseen>>
        /\ Streaming' = Streaming /\ records' \subseteq records
    BY <1>1, Zenon DEF Passes, Quiet, histories
  <2> QED BY <1>ch, <1>wt, <1>wr, <1>ls, <1>more, <2>1
<1>2. ASSUME NEW i \in Ids, Stores(i) PROVE ShownOf(id)'
  <2>1. /\ UNCHANGED <<publishCh, Waiting, Wire, listView, unseen>> /\ Streaming' = Streaming
        /\ adding' = adding \cup {i} /\ records' \subseteq records \cup {i}
    BY <1>2, Zenon DEF Stores, histories
  <2>2. CASE id \in adding'
    BY <2>2, Zenon DEF ShownOf, Announcing
  <2>3. CASE id \notin adding'
    <3>1. id \in records' => id \in records
      BY <2>1, <2>3
    <3> QED BY <1>ch, <1>wt, <1>wr, <1>ls, <1>more, <2>1, <3>1
  <2> QED BY <2>2, <2>3
<1>3. ASSUME NEW i \in Ids, Announces(i) PROVE ShownOf(id)'
  <2>1. PICK n \in Nat \ {0} :
           /\ adding' = adding \ {i}
           /\ publishCh' = Append(publishCh, [n |-> n, msg |-> RecordMsg(i)])
           /\ UNCHANGED <<records, Waiting, Wire, listView, unseen>> /\ Streaming' = Streaming
    BY <1>3, Zenon DEF Announces, histories
  <2> DEFINE e == [n |-> n, msg |-> RecordMsg(i)]
  <2>2. e \in Shown!Numbered /\ e.msg = RecordMsg(i)
    BY DEF Shown!Numbered, RecordMsg, Messages
  <2> HIDE DEF e
  <2>3. CASE id = i
    <3>1. e \in RecordMsgs(id)
      BY <2>2, <2>3, MsgSets
    <3>2. Published(id)'
      BY <1>0, <2>1, <2>2, <3>1, AppendHas DEF Published, e
    <3> QED BY <3>2, Zenon DEF ShownOf, Announcing
  <2>4. CASE id # i
    <3>1. Ch
      BY <1>app, <2>1, <2>2 DEF e
    <3>2. id \in adding => id \in adding'
      BY <2>1, <2>4
    <3>3. Wt /\ Wr /\ Ls
      BY <1>wt, <1>wr, <1>ls, <2>1
    <3> QED BY <1>s, <2>1, <3>1, <3>2, <3>3, Zenon DEF ShownOf, Announcing, Ch, Wt, Wr, Ls
  <2> QED BY <2>3, <2>4
<1>4. ASSUME NEW i \in Ids, GetsTime(i) PROVE ShownOf(id)'
  <2>1. UNCHANGED <<records, publishCh, Waiting, Wire, listView, adding, unseen>> /\ Streaming' = Streaming
    BY <1>4, Zenon DEF GetsTime, histories
  <2> QED BY <1>ch, <1>wt, <1>wr, <1>ls, <1>more, <2>1
<1>5. ASSUME NEW i \in Ids, AnnouncesTime(i) PROVE ShownOf(id)'
  <2>1. PICK n \in Nat \ {0} :
           /\ publishCh' = Append(publishCh, [n |-> n, msg |-> UpdateMsg(i)])
           /\ UNCHANGED <<records, Waiting, Wire, listView, adding, unseen>> /\ Streaming' = Streaming
    BY <1>5, Zenon DEF AnnouncesTime, histories
  <2>2. [n |-> n, msg |-> UpdateMsg(i)] \in Shown!Numbered
    BY DEF Shown!Numbered, UpdateMsg, Messages
  <2>3. Ch
    BY <1>app, <2>1, <2>2
  <2> QED BY <1>wt, <1>wr, <1>ls, <1>more, <2>1, <2>3
<1>6. CASE Distributes
  <2> DEFINE e == Head(publishCh)
  <2>1. /\ publishCh # <<>> /\ publishCh' = Tail(publishCh)
        /\ UNCHANGED <<records, adding, Wire, listView>> /\ Streaming' = Streaming
        /\ \/ Waiting' = Append(Waiting, e) /\ unseen \subseteq unseen'
           \/ /\ Waiting' = Waiting
              /\ \/ e.msg.kind = "record" /\ unseen' = unseen \cup {e.msg.id}
                 \/ e.msg.kind = "update" /\ unseen \subseteq unseen'
    BY <1>6, Zenon DEF Distributes
  <2>2. e \in Shown!Numbered
    BY <1>0, <2>1
  <2>3. Published(id) => Published(id)' \/ e \in RecordMsgs(id)
    BY <1>0, <2>1, TailHas DEF Published
  <2> HIDE DEF e
  <2>4. e \in RecordMsgs(id) => e.msg.kind = "record" /\ e.msg.id = id
    <3>1. RecordMsg(id).kind = "record" /\ RecordMsg(id).id = id
      BY DEF RecordMsg
    <3> QED BY <3>1, Zenon DEF RecordMsgs
  <2>5. Wr /\ Ls
    BY <1>wr, <1>ls, <2>1
  <2>6. CASE Waiting' = Append(Waiting, e) /\ unseen \subseteq unseen'
    <3>1. Received(id)' <=> Received(id) \/ e \in RecordMsgs(id)
      BY <1>0, <2>2, <2>6, AppendHas DEF Received
    <3>2. id \in unseen => id \in unseen'
      BY <2>6
    <3> QED BY <1>s, <2>1, <2>3, <2>5, <3>1, <3>2, Zenon DEF ShownOf, Announcing, Wr, Ls
  <2>7. CASE /\ Waiting' = Waiting
             /\ \/ e.msg.kind = "record" /\ unseen' = unseen \cup {e.msg.id}
                \/ e.msg.kind = "update" /\ unseen \subseteq unseen'
    <3>1. e \in RecordMsgs(id) => id \in unseen'
      BY <2>4, <2>7
    <3>2. id \in unseen => id \in unseen'
      BY <2>7
    <3>3. Wt
      BY <1>wt, <2>7
    <3> QED BY <1>s, <2>1, <2>3, <2>5, <3>1, <3>2, <3>3, Zenon DEF ShownOf, Announcing, Wt, Wr, Ls
  <2> QED BY <2>1, <2>6, <2>7
<1>7. CASE Snapshots
  <2> DEFINE e == [event |-> "start", recs |-> ThinCloneWithoutResponseBody]
  <2>1. Wire' = <<e>> /\ UNCHANGED records
    BY <1>7, Zenon DEF Snapshots
  <2>2. e \in SnapshotsOf(id) <=> id \in records
    <3>1. Store!TypeOK
      BY Zenon DEF Base
    <3> QED BY <3>1, SnapshotHolds
  <2> HIDE DEF e
  <2>3. id \in records => InSnapshot(id)'
    BY <2>1, <2>2, OneHas, Zenon DEF InSnapshot
  <2> QED BY <2>1, <2>3, Zenon DEF ShownOf
<1>8. ASSUME NEW i \in Ids, ForwardsNew(i) PROVE ShownOf(id)'
  <2>1. /\ Waiting # <<>> /\ Head(Waiting).msg = RecordMsg(i)
        /\ Waiting' = Tail(Waiting) /\ Wire' = Append(Wire, NewEvent(i))
        /\ UNCHANGED <<records, adding, publishCh, listView, unseen>> /\ Streaming' = Streaming
    BY <1>8, Zenon DEF ForwardsNew, histories
  <2>2. Head(Waiting) \in RecordMsgs(id) <=> i = id
    <3>1. Head(Waiting) \in Shown!Numbered
      BY <1>0, <2>1
    <3> QED BY <2>1, <3>1, MsgSets
  <2>3. Received(id) => Received(id)' \/ i = id
    BY <1>0, <2>1, <2>2, TailHas DEF Received
  <2>4. Wr /\ (i = id => Sent(id)')
    <3>1. NewEvent(i) \in Event /\ (NewEvent(i) \in {NewEvent(id)} <=> i = id)
          /\ NewEvent(i) \notin SnapshotsOf(id) /\ NewEvent(i) \notin Snapshot
      BY EventSets
    <3> QED BY <1>0, <2>1, <3>1, AppendHas DEF Sent, InSnapshot, Opening, Wr
  <2>5. Ch /\ Ls
    BY <1>ch, <1>ls, <2>1
  <2> QED BY <1>s, <2>1, <2>3, <2>4, <2>5, Zenon DEF ShownOf, Announcing, Ch, Wr, Ls
<1>9. ASSUME NEW i \in Ids, ForwardsUpdate(i) PROVE ShownOf(id)'
  <2>1. /\ Waiting # <<>> /\ Waiting' = Tail(Waiting) /\ Wire' = Append(Wire, UpdateEvent(i))
        /\ \/ Head(Waiting).msg = RecordMsg(i) /\ unseen' = unseen \cup {i}
           \/ Head(Waiting).msg = UpdateMsg(i) /\ unseen' = unseen
        /\ UNCHANGED <<records, adding, publishCh, listView>> /\ Streaming' = Streaming
    BY <1>9, Zenon DEF ForwardsUpdate
  <2>2. Received(id) => Received(id)' \/ Head(Waiting) \in RecordMsgs(id)
    BY <1>0, <2>1, TailHas DEF Received
  <2>3. Head(Waiting) \in RecordMsgs(id) => id \in unseen'
    <3>1. Head(Waiting) \in Shown!Numbered
      BY <1>0, <2>1
    <3>2. /\ Head(Waiting).msg = RecordMsg(i) => (Head(Waiting) \in RecordMsgs(id) <=> i = id)
          /\ Head(Waiting).msg = UpdateMsg(i) => Head(Waiting) \notin RecordMsgs(id)
      BY <3>1, MsgSets
    <3> QED BY <2>1, <3>2
  <2>4. Wr
    <3>1. UpdateEvent(i) \in Event /\ UpdateEvent(i) \notin SnapshotsOf(id) /\ UpdateEvent(i) \notin Snapshot
      BY EventSets
    <3> QED BY <1>0, <2>1, <3>1, AppendHas DEF Sent, InSnapshot, Opening, Wr
  <2>5. Ch /\ Ls /\ (id \in unseen => id \in unseen')
    BY <1>ch, <1>ls, <2>1
  <2> QED BY <1>s, <2>1, <2>2, <2>3, <2>4, <2>5, Zenon DEF ShownOf, Announcing, Ch, Wr, Ls
<1>10. CASE TakesStart
  <2> DEFINE recs == Head(Wire).recs
  <2>1. /\ Wire # <<>> /\ Head(Wire).event = "start" /\ Wire' = Tail(Wire)
        /\ \/ recordList' = ById(recs) /\ unseen' = unseen
           \/ unseen' = unseen \cup {r.id : r \in recs}
        /\ UNCHANGED <<records, adding, publishCh, Waiting>> /\ Streaming' = Streaming
    BY <1>10, Zenon DEF TakesStart
  <2>2. Head(Wire) \in Snapshot
    BY <1>0, <2>1 DEF Snapshot
  <2>3. Opening /\ ~Opening'
    <3>1. ~Has(Tail(Wire), Snapshot)
      BY <1>0, <2>1, SnapshotFirst
    <3>2. Has(Wire, Snapshot)
      BY <1>0, <2>1, <2>2, TailHas
    <3> QED BY <2>1, <3>1, <3>2, Zenon DEF Opening
  <2>4. Sent(id) => Sent(id)'
    <3>1. Head(Wire) \notin {NewEvent(id)}
      BY <2>2, SnapshotSets
    <3> QED BY <1>0, <2>1, <3>1, TailHas DEF Sent
  <2>5. InSnapshot(id) => InSnapshot(id)' \/ \E r \in recs : r.id = id
    <3>1. InSnapshot(id) => InSnapshot(id)' \/ Head(Wire) \in SnapshotsOf(id)
      BY <1>0, <2>1, TailHas DEF InSnapshot
    <3> QED BY <2>2, <3>1, SnapshotSets
  <2>6. (\E r \in recs : r.id = id) => IsListed(id)' \/ id \in unseen'
    <3>1. recs \in SUBSET Entry /\ OneEach(recs)
      BY <1>0, <2>1, StartOf
    <3> HIDE DEF recs
    <3>2. recordList' = ById(recs) => (IsListed(id)' <=> \E r \in recs : r.id = id)
      BY <3>1, ById_Has, Zenon DEF IsListed
    <3> QED BY <2>1, <3>2
  <2>7. Ch /\ Wt /\ (id \in unseen => id \in unseen')
    BY <1>ch, <1>wt, <2>1
  <2> HIDE DEF recs
  <2> QED BY <1>s, <2>1, <2>3, <2>4, <2>5, <2>6, <2>7, Zenon DEF ShownOf, Announcing, Ch, Wt
<1>11. ASSUME NEW i \in Ids, TakesNew(i) PROVE ShownOf(id)'
  <2> DEFINE r == [id |-> i, timed |-> FALSE]
  <2>1. /\ Wire # <<>> /\ Head(Wire) = NewEvent(i) /\ Wire' = Tail(Wire)
        /\ \/ unseen' = unseen \cup {i} /\ UNCHANGED listView
           \/ recordList' = <<r>> \o recordList /\ sorting' /\ unseen' = unseen
        /\ UNCHANGED <<records, adding, publishCh, Waiting>> /\ Streaming' = Streaming
    BY <1>11, Zenon DEF TakesNew
  <2>2. /\ NewEvent(i) \in {NewEvent(id)} <=> i = id
        /\ NewEvent(i) \notin SnapshotsOf(id) /\ NewEvent(i) \notin Snapshot
    BY EventSets
  <2>3. /\ Sent(id) => Sent(id)' \/ i = id
        /\ InSnapshot(id) => InSnapshot(id)'
        /\ Opening' => Opening
    BY <1>0, <2>1, <2>2, TailHas DEF Sent, InSnapshot, Opening
  <2>4. Ch /\ Wt /\ (id \in unseen => id \in unseen')
    BY <1>ch, <1>wt, <2>1
  <2>5. Ls /\ (i = id => IsListed(id)' \/ id \in unseen')
    <3>1. CASE unseen' = unseen \cup {i} /\ UNCHANGED listView
      BY <1>ls, <3>1
    <3>2. CASE recordList' = <<r>> \o recordList /\ sorting'
      <4>1. r \in Entry /\ (r \in CopiesOf(id) <=> i = id)
        BY DEF Entry, CopiesOf
      <4> HIDE DEF r
      <4>2. IsListed(id)' <=> IsListed(id) \/ i = id
        BY <1>0, <3>2, <4>1, FrontHas DEF IsListed
      <4>3. TrimmedAway(id) => TrimmedAway(id)'
        <5>1. Newer(recordList, id) => Newer(recordList', id)
          BY <1>0, <3>2, <4>1, NewerFront
        <5> QED BY <3>2, <5>1, Zenon DEF TrimmedAway
      <4> QED BY <4>2, <4>3, Zenon DEF Ls
    <3> QED BY <2>1, <3>1, <3>2
  <2>6. ~Opening'
    <3>1. ~Has(Tail(Wire), Snapshot)
      BY <1>0, <2>1, SnapshotFirst
    <3> QED BY <2>1, <3>1, Zenon DEF Opening
  <2> QED BY <1>s, <2>1, <2>3, <2>4, <2>5, <2>6, Zenon DEF ShownOf, Announcing, Ch, Wt, Ls
<1>12. ASSUME NEW i \in Ids, TakesUpdate(i) PROVE ShownOf(id)'
  <2>1. /\ Wire # <<>> /\ Head(Wire) = UpdateEvent(i) /\ Wire' = Tail(Wire)
        /\ \/ recordList' = recordList
           \/ i \in Listed /\ recordList' = [recordList EXCEPT ![FirstOf(i)].timed = TRUE]
        /\ UNCHANGED <<records, adding, publishCh, Waiting, sorting, unseen>> /\ Streaming' = Streaming
    BY <1>12, Zenon DEF TakesUpdate
  <2>2. Wr
    <3>1. UpdateEvent(i) \notin {NewEvent(id)} /\ UpdateEvent(i) \notin SnapshotsOf(id)
      BY EventSets
    <3> QED BY <1>0, <2>1, <3>1, TailHas DEF Sent, InSnapshot, Opening, Wr
  <2>3. Ls
    <3>1. CASE recordList' = recordList
      BY <1>ls, <2>1, <3>1, Zenon DEF listView
    <3>2. CASE i \in Listed /\ recordList' = [recordList EXCEPT ![FirstOf(i)].timed = TRUE]
      <4>1. IsListed(id)' <=> IsListed(id)
        BY <1>0, <3>2, UpdateHas DEF IsListed
      <4>2. /\ recordList' \in Seq(Entry) /\ Len(recordList') = Len(recordList)
            /\ \A k \in 1..Len(recordList) : recordList'[k].id = recordList[k].id
        BY <1>0, <3>2, UpdateLists
      <4>3. PICK list \in Seq(Entry) : list = recordList'
        BY <4>2
      <4>4. Newer(recordList, id) => Newer(list, id)
        BY <1>0, <4>2, <4>3, NewerSame
      <4>5. (\A k \in 1..Len(recordList) : recordList[k].id > id)
            => \A k \in 1..Len(list) : list[k].id > id
        BY <4>2, <4>3
      <4>6. TrimmedAway(id) => TrimmedAway(id)'
        BY <2>1, <4>3, <4>4, <4>5, Zenon DEF TrimmedAway
      <4> QED BY <4>1, <4>6, Zenon DEF Ls
    <3> QED BY <2>1, <3>1, <3>2
  <2> QED BY <1>ch, <1>wt, <1>more, <2>1, <2>2, <2>3
<1>13. CASE TrimsList
  <2>1. /\ recordList' = Trimmed(Sorted(recordList))
        /\ UNCHANGED <<records, adding, publishCh, Waiting, Wire, unseen>> /\ Streaming' = Streaming
    BY <1>13, Zenon DEF TrimsList, Quiet, histories
  <2>2. id \in Nat
    BY DEF Ids
  <2>3. CASE IsListed(id) /\ ~IsListed(id)'
    <3>1. Has(recordList, CopiesOf(id)) /\ ~Has(Trimmed(Sorted(recordList)), CopiesOf(id))
      BY <2>1, <2>3, Zenon DEF IsListed
    <3>2. /\ maxRecords > 0 /\ Newer(Trimmed(Sorted(recordList)), id)
          /\ \A k \in 1..Len(Trimmed(Sorted(recordList))) : Trimmed(Sorted(recordList))[k].id > id
      BY <1>0, <2>2, <3>1, CutOff
    <3>3. TrimmedAway(id)'
      BY <2>1, <3>2, Zenon DEF TrimmedAway
    <3>4. Ls
      BY <3>3, Zenon DEF Ls
    <3> QED BY <1>ch, <1>wt, <1>wr, <1>more, <2>1, <3>4
  <2>4. CASE TrimmedAway(id)
    <3>1. /\ maxRecords > 0 /\ Newer(Trimmed(Sorted(recordList)), id)
          /\ \A k \in 1..Len(Trimmed(Sorted(recordList))) : Trimmed(Sorted(recordList))[k].id > id
      BY <1>0, <2>2, <2>4, NewerTrim DEF TrimmedAway
    <3>2. TrimmedAway(id)'
      BY <2>1, <3>1, Zenon DEF TrimmedAway
    <3>3. Ls
      BY <3>2, Zenon DEF Ls
    <3> QED BY <1>ch, <1>wt, <1>wr, <1>more, <2>1, <3>3
  <2>5. CASE (IsListed(id) => IsListed(id)') /\ ~TrimmedAway(id)
    <3>1. Ls
      BY <2>5, Zenon DEF Ls
    <3> QED BY <1>ch, <1>wt, <1>wr, <1>more, <2>1, <3>1
  <2> QED BY <2>3, <2>4, <2>5
<1>14. CASE ClearsList
  <2>1. /\ unseen' = unseen \cup (records \ OnTheWay(es))
        /\ UNCHANGED <<records, adding, publishCh, Waiting, Wire>>
    BY <1>14, Zenon DEF ClearsList, Quiet
  <2>2. id \in OnTheWay(es) <=> Announcing(id) \/ InSnapshot(id)
    BY WayIs
  <2>3. id \in records => id \in unseen' \/ Announcing(id) \/ InSnapshot(id)
    BY <2>1, <2>2
  <2>4. Ch /\ Wt /\ Wr
    BY <1>ch, <1>wt, <1>wr, <2>1
  <2> QED BY <2>1, <2>3, <2>4, Zenon DEF ShownOf, Announcing, Ch, Wt, Wr
<1>15. CASE Reconnects
  BY <1>15, Zenon DEF Reconnects, ShownOf
<1> QED BY <1>1, <1>2, <1>3, <1>4, <1>5, <1>6, <1>7, <1>8, <1>9, <1>10, <1>11, <1>12, <1>13, <1>14, <1>15

LEMMA ShownStep ==
    ASSUME Base, ShownInv, [Next]_vars
    PROVE  ShownInv'
<1>1. \A id \in Ids : ShownOf(id)'
  BY StepCases, ShownOfStep DEF ShownInv
<1> QED BY <1>1, Zenon DEF ShownInv

LEMMA ListedIs ==
    ASSUME recordList \in Seq(Entry), NEW id
    PROVE  id \in Listed <=> IsListed(id)
<1>1. DOMAIN recordList = 1..Len(recordList) /\ \A i \in 1..Len(recordList) : recordList[i] \in Entry
  OBVIOUS
<1>2. IsListed(id) <=> \E i \in 1..Len(recordList) : recordList[i].id = id
  BY <1>1, Zenon DEF IsListed, Has, CopiesOf
<1> QED BY <1>1, <1>2 DEF Listed

\* Nothing is on its way on a quiet connection.
LEMMA QuietMeans ==
    ASSUME PageQuiet
    PROVE  /\ Streaming /\ adding = {} /\ timing = {} /\ publishCh = <<>> /\ Waiting = <<>> /\ Wire = <<>>
           /\ ~sorting
           /\ \A P : ~Has(publishCh, P) /\ ~Has(Waiting, P) /\ ~Has(Wire, P)
BY EmptyHas, Zenon DEF PageQuiet, StreamQuiet, Streaming, Waiting, Wire

(* Once all is quiet the page lists every stored record but those it never  *)
(* heard of or dropped, and those older than a full list.                   *)
THEOREM ShownHolds == Spec => []ShownUnlessMissed
<1>1. Init => ShownInv
  <2> SUFFICES ASSUME Init, NEW id \in Ids PROVE ShownOf(id)
    BY DEF ShownInv
  <2>1. records = {}
    BY Zenon DEF Init, StreamInit, Store!Init
  <2> QED BY <2>1 DEF ShownOf
<1>2. Base /\ ShownInv /\ [Next]_vars => Base' /\ ShownInv'
  BY BaseStep, ShownStep
<1>3. Base /\ ShownInv => ShownUnlessMissed
  <2> SUFFICES ASSUME Base, ShownInv, PageQuiet, NEW id \in records \ (Listed \cup unseen)
               PROVE  /\ maxRecords > 0 /\ Len(recordList) >= maxRecords
                      /\ \A other \in Listed : id < other
    BY DEF ShownUnlessMissed
  <2>1. recordList \in Seq(Entry) /\ id \in Ids
    BY BaseShapes
  <2>2. ShownOf(id)
    BY <2>1 DEF ShownInv
  <2>3. ~Announcing(id) /\ ~InSnapshot(id) /\ Streaming /\ ~sorting
    BY QuietMeans DEF Announcing, Published, Received, Sent, InSnapshot
  <2>4. ~IsListed(id)
    BY <2>1, ListedIs
  <2>5. TrimmedAway(id)
    BY <2>2, <2>3, <2>4 DEF ShownOf
  <2>6. maxRecords > 0 /\ Newer(recordList, id) /\ \A i \in 1..Len(recordList) : recordList[i].id > id
    BY <2>3, <2>5, Zenon DEF TrimmedAway
  <2>7. Len(recordList) >= maxRecords
    <3>1. maxRecords \in Nat /\ Len(recordList) \in Nat
      BY <2>1, SizesAssumption
    <3>2. PICK f \in [1..maxRecords -> 1..Len(recordList)] :
             \A i, j \in 1..maxRecords : f[i] = f[j] => i = j
      BY <2>6 DEF Newer
    <3> QED BY <3>1, <3>2, Pigeons
  <2>8. ASSUME NEW other \in Listed PROVE id < other
    <3>1. PICK i \in 1..Len(recordList) : recordList[i].id = other
      BY <2>1 DEF Listed
    <3>2. recordList[i].id > id /\ recordList[i] \in Entry
      BY <2>1, <2>6
    <3>3. other \in Nat /\ id \in Nat
      BY <2>1, <3>1, <3>2 DEF Entry, Ids
    <3> QED BY <3>1, <3>2, <3>3
  <2> QED BY <2>6, <2>7, <2>8
<1> QED BY <1>1, <1>2, <1>3, BaseInit, PTL DEF Spec

-----------------------------------------------------------------------------
(* The order of events, and the first copy of a record.                    *)

LEMMA AppendNotAfter ==
    ASSUME NEW S, NEW s \in Seq(S), NEW e \in S, NEW P, NEW Q,
           NotAfter(s, P, Q), ~(Has(s, P) /\ e \in Q)
    PROVE  NotAfter(Append(s, e), P, Q)
<1> DEFINE t == Append(s, e)
           n == Len(s)
<1>1. /\ n \in Nat /\ Len(t) = n + 1 /\ t[n + 1] = e /\ \A i \in 1..n : t[i] = s[i]
      /\ \A i, j \in 1..n + 1 : i < j => i \in 1..n /\ (j \in 1..n \/ j = n + 1)
  OBVIOUS
<1>2. \A i, j \in 1..n : i < j /\ s[i] \in P => s[j] \notin Q
  BY Zenon DEF NotAfter, n
<1>3. \A i \in 1..n : s[i] \in P => e \notin Q
  BY Zenon DEF Has, n
<1> HIDE DEF t, n
<1>4. ASSUME NEW i \in 1..n + 1, NEW j \in 1..n + 1, i < j, t[i] \in P PROVE t[j] \notin Q
  BY <1>1, <1>2, <1>3, <1>4
<1>5. \A i, j \in 1..Len(t) : i < j /\ t[i] \in P => t[j] \notin Q
  BY <1>1, <1>4
<1> QED BY <1>5, Zenon DEF NotAfter, t

LEMMA TailNotAfter ==
    ASSUME NEW S, NEW s \in Seq(S), s # <<>>, NEW P, NEW Q, NotAfter(s, P, Q)
    PROVE  NotAfter(Tail(s), P, Q) /\ ~(Head(s) \in P /\ Has(Tail(s), Q))
<1> DEFINE t == Tail(s)
           n == Len(s)
<1>1. /\ n \in Nat \ {0} /\ Len(t) = n - 1 /\ Head(s) = s[1]
      /\ \A i \in 1..n - 1 : t[i] = s[i + 1]
  OBVIOUS
<1>2. /\ 1 \in 1..n
      /\ \A i \in 1..n - 1 : i + 1 \in 1..n /\ 1 < i + 1
      /\ \A i, j \in 1..n - 1 : i < j => i + 1 < j + 1
  BY <1>1
<1>3. \A i, j \in 1..n : i < j /\ s[i] \in P => s[j] \notin Q
  BY Zenon DEF NotAfter, n
<1> HIDE DEF t, n
<1>4. \A i, j \in 1..n - 1 : i < j /\ t[i] \in P => t[j] \notin Q
  BY <1>1, <1>2, <1>3
<1>5. ~(Head(s) \in P /\ Has(t, Q))
  BY <1>1, <1>2, <1>3, Zenon DEF Has
<1>6. NotAfter(t, P, Q)
  BY <1>1, <1>4, Zenon DEF NotAfter
<1> QED BY <1>5, <1>6 DEF t

LEMMA ShortNotAfter == \A e, P, Q : NotAfter(<<e>>, P, Q) /\ NotAfter(<<>>, P, Q)
<1> SUFFICES ASSUME NEW e, NEW P, NEW Q PROVE NotAfter(<<e>>, P, Q) /\ NotAfter(<<>>, P, Q)
  OBVIOUS
<1>1. Len(<<e>>) = 1 /\ Len(<<>>) = 0 /\ \A i, j \in 1..1 : ~(i < j)
  OBVIOUS
<1>2. \A i, j \in 1..0 : ~(i < j)
  OBVIOUS
<1> QED BY <1>1, <1>2, Zenon DEF NotAfter

\* The list's first copies stay first, and one that gets the time has it.
LEMMA FrontFirst ==
    ASSUME recordList \in Seq(Entry), NEW r \in Entry, recordList' = <<r>> \o recordList,
           NEW P, NEW Q, FirstIn(recordList, P, Q), r \notin P
    PROVE  FirstIn(recordList', P, Q)
<1> DEFINE n == Len(recordList)
<1>1. /\ n \in Nat /\ Len(recordList') = n + 1 /\ recordList'[1] = r
      /\ \A i \in 1..n : recordList'[i + 1] = recordList[i]
      /\ \A i \in 2..n + 1 : i - 1 \in 1..n /\ recordList'[i] = recordList[i - 1]
  <2>1. n \in Nat
    OBVIOUS
  <2> QED BY <2>1, FrontLists
<1>2. \A i \in 1..n : recordList[i] \in P /\ (\A j \in 1..i - 1 : recordList[j] \notin P) => recordList[i] \in Q
  BY Zenon DEF FirstIn, n
<1> HIDE DEF n
<1>3. ASSUME NEW i \in 1..n + 1, recordList'[i] \in P, \A j \in 1..i - 1 : recordList'[j] \notin P
      PROVE  recordList'[i] \in Q
  <2>1. i # 1
    BY <1>1, <1>3
  <2>2. i \in 2..n + 1 /\ i - 1 \in 1..n /\ recordList'[i] = recordList[i - 1]
    BY <1>1, <2>1
  <2>3. ASSUME NEW j \in 1..(i - 1) - 1 PROVE recordList[j] \notin P
    <3>1. j \in 1..n /\ j + 1 \in 1..i - 1
      BY <1>1, <2>2
    <3> QED BY <1>1, <1>3, <3>1
  <2> QED BY <1>2, <1>3, <2>2, <2>3
<1> QED BY <1>1, <1>3, Zenon DEF FirstIn

LEMMA UpdateFirst ==
    ASSUME recordList \in Seq(Entry), NEW i \in Listed, NEW id,
           recordList' = [recordList EXCEPT ![FirstOf(i)].timed = TRUE]
    PROVE  /\ i = id => /\ Has(recordList', TimedCopy(id))
                        /\ FirstIn(recordList', CopiesOf(id), TimedCopy(id))
           /\ i # id => /\ Has(recordList', TimedCopy(id)) <=> Has(recordList, TimedCopy(id))
                        /\ FirstIn(recordList, CopiesOf(id), TimedCopy(id))
                             => FirstIn(recordList', CopiesOf(id), TimedCopy(id))
<1> DEFINE n == Len(recordList)
<1>1. PICK f \in 1..n : f = FirstOf(i)
  BY FirstOfLists
<1>2. recordList[f].id = i /\ \A j \in 1..f - 1 : recordList[j].id # i
  BY <1>1, FirstOfLists
<1>3. /\ recordList' \in Seq(Entry) /\ Len(recordList') = n
      /\ recordList'[f] = [id |-> i, timed |-> TRUE]
      /\ \A k \in 1..n : k # f => recordList'[k] = recordList[k]
      /\ \A k \in 1..n : recordList'[k].id = recordList[k].id
  BY <1>1, UpdateLists
<1>4. PICK list \in Seq(Entry) : list = recordList'
  BY <1>3
<1>5. /\ n \in Nat /\ Len(list) = n
      /\ \A k \in 1..n : list[k] \in Entry /\ recordList[k] \in Entry
      /\ list[f] = [id |-> i, timed |-> TRUE]
      /\ \A k \in 1..n : k # f => list[k] = recordList[k]
      /\ \A k \in 1..n : list[k].id = recordList[k].id
  BY <1>3, <1>4
<1>6. \A k \in 1..n : /\ list[k] \in CopiesOf(id) <=> list[k].id = id
                      /\ recordList[k] \in CopiesOf(id) <=> recordList[k].id = id
  BY <1>5, Zenon DEF CopiesOf
<1> HIDE DEF n
<1>7. ASSUME i = id
      PROVE  Has(list, TimedCopy(id)) /\ FirstIn(list, CopiesOf(id), TimedCopy(id))
  <2>1. list[f] \in TimedCopy(id) /\ list[f] \in CopiesOf(id)
    BY <1>2, <1>5, <1>6, <1>7 DEF TimedCopy
  <2>2. Has(list, TimedCopy(id))
    BY <1>5, <2>1, Zenon DEF Has
  <2>3. ASSUME NEW k \in 1..n, list[k] \in CopiesOf(id), \A j \in 1..k - 1 : list[j] \notin CopiesOf(id)
        PROVE  list[k] \in TimedCopy(id)
    <3>1. ~(f < k)
      <4> SUFFICES ASSUME f < k PROVE FALSE
        OBVIOUS
      <4>1. f \in 1..k - 1
        BY <1>5
      <4> QED BY <2>1, <2>3, <4>1
    <3>2. ~(k < f)
      <4>1. recordList[k].id = i
        BY <1>5, <1>6, <1>7, <2>3
      <4> QED BY <1>2, <1>5, <4>1
    <3>3. k = f
      BY <1>5, <3>1, <3>2
    <3> QED BY <2>1, <3>3
  <2>4. FirstIn(list, CopiesOf(id), TimedCopy(id))
    BY <1>5, <2>3, Zenon DEF FirstIn
  <2> QED BY <2>2, <2>4
<1>8. ASSUME i # id
      PROVE  /\ Has(list, TimedCopy(id)) <=> Has(recordList, TimedCopy(id))
             /\ FirstIn(recordList, CopiesOf(id), TimedCopy(id))
                  => FirstIn(list, CopiesOf(id), TimedCopy(id))
  <2>1. \A k \in 1..n : list[k] \in TimedCopy(id) <=> recordList[k] \in TimedCopy(id)
    <3>1. [id |-> id, timed |-> TRUE].id = id
      OBVIOUS
    <3>2. list[f].id = i /\ recordList[f].id = i
      BY <1>2, <1>5
    <3>3. list[f] \notin TimedCopy(id) /\ recordList[f] \notin TimedCopy(id)
      BY <1>8, <3>1, <3>2, Zenon DEF TimedCopy
    <3> QED BY <1>5, <3>3, Zenon
  <2>2. \A k \in 1..n : list[k] \in CopiesOf(id) <=> recordList[k] \in CopiesOf(id)
    BY <1>5, <1>6, Zenon
  <2>3. Has(list, TimedCopy(id)) <=> Has(recordList, TimedCopy(id))
    BY <1>5, <2>1, Zenon DEF Has, n
  <2>4. ASSUME \A k \in 1..n : /\ recordList[k] \in CopiesOf(id)
                               /\ \A j \in 1..k - 1 : recordList[j] \notin CopiesOf(id)
                               => recordList[k] \in TimedCopy(id),
               NEW k \in 1..n, list[k] \in CopiesOf(id), \A j \in 1..k - 1 : list[j] \notin CopiesOf(id)
        PROVE  list[k] \in TimedCopy(id)
    <3>1. \A j \in 1..k - 1 : j \in 1..n
      BY <1>5
    <3>2. \A j \in 1..k - 1 : recordList[j] \notin CopiesOf(id)
      BY <2>2, <2>4, <3>1, Zenon
    <3> QED BY <2>1, <2>2, <2>4, <3>2, Zenon
  <2>5. FirstIn(recordList, CopiesOf(id), TimedCopy(id)) => FirstIn(list, CopiesOf(id), TimedCopy(id))
    BY <1>5, <2>4, Zenon DEF FirstIn, n
  <2> QED BY <2>3, <2>5
<1> QED BY <1>4, <1>7, <1>8, Zenon

LEMMA TrimFirst ==
    ASSUME NEW list \in Seq(Entry), NEW id,
           FirstIn(list, CopiesOf(id), TimedCopy(id))
    PROVE  FirstIn(Trimmed(Sorted(list)), CopiesOf(id), TimedCopy(id))
<1> DEFINE t == Trimmed(Sorted(list))
           o == Order(list)
           n == Len(list)
           m == Len(t)
<1>1. /\ o \in [1..n -> 1..n] /\ Sorted(list) \in Seq(Entry) /\ Len(Sorted(list)) = n
      /\ \A i \in 1..n : \E k \in 1..n : o[k] = i
      /\ \A k \in 1..n : Sorted(list)[k] = list[o[k]]
      /\ \A j, k \in 1..n : j < k /\ list[o[j]].id = list[o[k]].id =>
             \/ list[o[j]].id > list[o[k]].id
             \/ o[j] < o[k]
  BY SortedOrders
<1>2. /\ n \in Nat /\ m \in Nat /\ m <= n /\ \A k \in 1..m : t[k] = Sorted(list)[k]
  BY <1>1, TrimmedLists
<1>3. ASSUME NEW k \in 1..m PROVE k \in 1..n /\ o[k] \in 1..n /\ t[k] = list[o[k]]
  <2>1. k \in 1..n
    BY <1>2
  <2> QED BY <1>1, <1>2, <2>1, Zenon
<1>4. \A k \in 1..n : list[k] \in Entry /\ list[k].id \in Nat
  <2>1. \A k \in 1..n : list[k] \in Entry
    OBVIOUS
  <2> QED BY <2>1 DEF Entry, Ids
<1>5. \A k \in 1..n : list[k] \in CopiesOf(id) <=> list[k].id = id
  BY <1>4, Zenon DEF CopiesOf
<1>6. \A k \in 1..n : list[k] \in CopiesOf(id) /\ (\A j \in 1..k - 1 : list[j] \notin CopiesOf(id))
                      => list[k] \in TimedCopy(id)
  BY Zenon DEF FirstIn, n
<1> HIDE DEF t, o, n, m
<1>7. ASSUME NEW k \in 1..m, t[k] \in CopiesOf(id), \A j \in 1..k - 1 : t[j] \notin CopiesOf(id)
      PROVE  t[k] \in TimedCopy(id)
  <2>1. k \in 1..n /\ o[k] \in 1..n /\ t[k] = list[o[k]] /\ list[o[k]].id = id
    BY <1>3, <1>5, <1>7
  <2>2. ASSUME NEW j \in 1..o[k] - 1, list[j] \in CopiesOf(id) PROVE FALSE
    <3>1. j \in 1..n /\ j < o[k] /\ list[j].id = id
      BY <1>2, <1>5, <2>1, <2>2
    <3>2. PICK l \in 1..n : o[l] = j
      BY <1>1, <3>1
    <3>3. id \in Nat
      BY <1>4, <2>1
    <3>4. ~(k < l)
      <4>1. ~(id > id)
        BY <3>3
      <4>2. o[l] \in Nat /\ o[k] \in Nat /\ ~(o[k] < o[l])
        BY <2>1, <3>1, <3>2
      <4> QED BY <1>1, <2>1, <3>1, <3>2, <4>1, <4>2, Zenon
    <3>5. ~(l < k)
      <4> SUFFICES ASSUME l < k PROVE FALSE
        OBVIOUS
      <4>1. l \in 1..k - 1 /\ l \in 1..m
        BY <1>2
      <4>2. t[l] = list[j]
        BY <1>3, <3>2, <4>1
      <4> QED BY <1>7, <2>2, <4>1, <4>2
    <3>6. l = k
      BY <1>2, <3>4, <3>5
    <3> QED BY <2>1, <3>1, <3>2, <3>6
  <2> QED BY <1>6, <1>7, <2>1, <2>2
<1> QED BY <1>7, Zenon DEF FirstIn, t, m

\* A first copy that is in the trimmed list is one of the full list's.
LEMMA TrimShows ==
    ASSUME NEW list \in Seq(Entry), NEW id, FirstIn(list, CopiesOf(id), TimedCopy(id)),
           Has(Trimmed(Sorted(list)), CopiesOf(id))
    PROVE  Has(Trimmed(Sorted(list)), TimedCopy(id))
<1> DEFINE t == Trimmed(Sorted(list))
<1>1. t \in Seq(Entry)
  BY SortedOrders, TrimmedLists
<1>2. FirstIn(t, CopiesOf(id), TimedCopy(id))
  BY TrimFirst
<1> HIDE DEF t
<1>3. /\ DOMAIN t = 1..Len(t) /\ Len(t) \in Nat
      /\ \A i \in 1..Len(t) : t[i] \in Entry
      /\ \A i \in 1..Len(t) : \A j \in 1..i - 1 : j \in 1..Len(t)
  BY <1>1
<1>4. \A k \in 1..Len(t) : t[k] \in CopiesOf(id) <=> t[k].id = id
  BY <1>3, Zenon DEF CopiesOf
<1>5. \E i \in DOMAIN t : t[i].id = id
  BY <1>3, <1>4, Zenon DEF Has, t
<1>6. PICK i \in DOMAIN t : t[i].id = id /\ \A j \in 1..i - 1 : t[j].id # id
  BY <1>1, <1>5, FirstExists
<1>7. t[i] \in CopiesOf(id) /\ \A j \in 1..i - 1 : t[j] \notin CopiesOf(id)
  BY <1>3, <1>4, <1>6
<1>8. t[i] \in TimedCopy(id)
  BY <1>2, <1>3, <1>7, Zenon DEF FirstIn
<1> QED BY <1>3, <1>8, Zenon DEF Has, t

\* A snapshot's entries.
LEMMA ById_Shows ==
    ASSUME NEW recs \in SUBSET Entry, OneEach(recs), NEW id
    PROVE  /\ Has(ById(recs), TimedCopy(id)) <=> [id |-> id, timed |-> TRUE] \in recs
           /\ Has(ById(recs), TimedCopy(id)) => FirstIn(ById(recs), CopiesOf(id), TimedCopy(id))
<1> DEFINE s == ById(recs)
<1>1. /\ s \in Seq(Entry) /\ Len(s) \in Nat
      /\ \A r \in recs : \E k \in 1..Len(s) : s[k] = r
      /\ \A k \in 1..Len(s) : s[k] \in recs
  <2>1. s \in Seq(Entry)
    BY ByIdLists
  <2>2. Len(s) \in Nat
    BY <2>1
  <2> QED BY <2>1, <2>2, ByIdLists
<1>2. Once(s, CopiesOf(id))
  BY ById_Has
<1> HIDE DEF s
<1>3. Has(s, TimedCopy(id)) <=> [id |-> id, timed |-> TRUE] \in recs
  BY <1>1, Zenon DEF Has, TimedCopy
<1>4. ASSUME NEW k \in 1..Len(s), s[k] \in TimedCopy(id) PROVE s[k] \in CopiesOf(id)
  <2>1. s[k].id = id /\ s[k] \in Entry
    BY <1>1, <1>4 DEF TimedCopy
  <2> QED BY <2>1 DEF CopiesOf
<1>5. Has(s, TimedCopy(id)) => FirstIn(s, CopiesOf(id), TimedCopy(id))
  BY <1>2, <1>4, Zenon DEF Has, Once, FirstIn
<1> QED BY <1>3, <1>5 DEF s

-----------------------------------------------------------------------------
(* A listed record whose time is known shows it, unless it was lost.       *)

LEMMA HasMore == \A s, P, Q : P \subseteq Q /\ Has(s, P) => Has(s, Q)
BY Zenon DEF Has

\* What TimesOnTheWay counts.
LEMMA TimesWay ==
    ASSUME Base, NEW id \in timed, Has(Waiting, UpdateMsgs(id)) \/ Has(Wire, TimesOf(id))
    PROVE  id \in TimesOnTheWay(es)
<1>0. /\ Waiting \in Seq(Shown!Numbered) /\ Wire \in Seq(Event)
      /\ DOMAIN Waiting = 1..Len(Waiting) /\ DOMAIN Wire = 1..Len(Wire)
  <2>1. Waiting \in Seq(Shown!Numbered) /\ Wire \in Seq(Event)
    BY BaseShapes
  <2> QED BY <2>1
<1>1. TimesOnTheWay(es) =
        (timed \cap {Waiting[i].msg.id : i \in DOMAIN Waiting})
        \cup UNION {{r.id : r \in {x \in Wire[i].recs : x.timed}} : i \in DOMAIN Wire}
  BY Zenon DEF TimesOnTheWay, Waiting, Wire
<1>2. CASE Has(Waiting, UpdateMsgs(id))
  <2>1. PICK i \in 1..Len(Waiting) : Waiting[i] \in UpdateMsgs(id)
    BY <1>2 DEF Has
  <2>2. Waiting[i].msg.id = id
    BY <2>1 DEF UpdateMsgs, UpdateMsg
  <2> QED BY <1>0, <1>1, <2>2
<1>3. CASE Has(Wire, TimesOf(id))
  <2>1. PICK i \in 1..Len(Wire) : Wire[i] \in TimesOf(id)
    BY <1>3 DEF Has
  <2> DEFINE r == [id |-> id, timed |-> TRUE]
  <2>2. r \in Wire[i].recs
    BY <2>1 DEF TimesOf
  <2>3. r.id = id /\ r.timed
    OBVIOUS
  <2> HIDE DEF r
  <2>4. id \in {x.id : x \in {y \in Wire[i].recs : y.timed}}
    BY <2>2, <2>3
  <2> QED BY <1>0, <1>1, <2>4
<1> QED BY <1>2, <1>3

\* An event that is not the record's own leaves what is said of it.
LEMMA WireAppends ==
    ASSUME Wire \in Seq(Event), NEW e \in Event, Wire' = Append(Wire, e), NEW id
    PROVE  /\ Sent(id)' <=> Sent(id) \/ e = NewEvent(id)
           /\ InSnapshot(id)' <=> InSnapshot(id) \/ e \in SnapshotsOf(id)
           /\ TimedInSnapshot(id)' <=> TimedInSnapshot(id) \/ e \in SnapshotsOf(id) \cap TimesOf(id)
           /\ Has(Wire, {UpdateEvent(id)})' <=> Has(Wire, {UpdateEvent(id)}) \/ e = UpdateEvent(id)
           /\ Has(Wire, TimesOf(id))' <=> Has(Wire, TimesOf(id)) \/ e \in TimesOf(id)
           /\ /\ NotAfter(Wire, TimesOf(id), {NewEvent(id)})
              /\ ~(Has(Wire, TimesOf(id)) /\ e = NewEvent(id))
              => NotAfter(Wire', TimesOf(id), {NewEvent(id)})
<1>1. \A P : Has(Wire', P) <=> Has(Wire, P) \/ e \in P
  BY AppendHas
<1>2. \A x : e \in {x} <=> e = x
  OBVIOUS
<1>3. /\ NotAfter(Wire, TimesOf(id), {NewEvent(id)})
      /\ ~(Has(Wire, TimesOf(id)) /\ e = NewEvent(id))
      => NotAfter(Wire', TimesOf(id), {NewEvent(id)})
  BY AppendNotAfter
<1> QED BY <1>1, <1>2, <1>3, Zenon DEF Sent, InSnapshot, TimedInSnapshot

LEMMA WireTails ==
    ASSUME WireShape(Wire), Wire \in Seq(Event), Wire # <<>>, Wire' = Tail(Wire), NEW id
    PROVE  /\ Sent(id)' => Sent(id)
           /\ ~InSnapshot(id)' /\ ~TimedInSnapshot(id)'
           /\ InSnapshot(id) => Head(Wire) \in SnapshotsOf(id)
           /\ TimedInSnapshot(id) => Head(Wire) \in SnapshotsOf(id) \cap TimesOf(id)
           /\ Has(Wire, {UpdateEvent(id)})' => Has(Wire, {UpdateEvent(id)})
           /\ Has(Wire, {UpdateEvent(id)}) => Has(Wire, {UpdateEvent(id)})' \/ Head(Wire) = UpdateEvent(id)
           /\ Has(Wire, TimesOf(id))' => Has(Wire, TimesOf(id))
           /\ Head(Wire) \in TimesOf(id) => Has(Wire, TimesOf(id))
           /\ Head(Wire) = NewEvent(id) => Sent(id)
           /\ NotAfter(Wire, TimesOf(id), {NewEvent(id)}) =>
                  /\ NotAfter(Wire', TimesOf(id), {NewEvent(id)})
                  /\ Head(Wire) \in TimesOf(id) => ~Sent(id)'
<1>1. \A P : /\ Has(Wire', P) => Has(Wire, P)
             /\ Has(Wire, P) => Has(Wire', P) \/ Head(Wire) \in P
             /\ Head(Wire) \in P => Has(Wire, P)
  BY TailHas
<1>2. /\ ~Has(Wire', SnapshotsOf(id)) /\ ~Has(Wire', SnapshotsOf(id) \cap TimesOf(id))
  <2>1. SnapshotsOf(id) \in SUBSET Snapshot /\ SnapshotsOf(id) \cap TimesOf(id) \in SUBSET Snapshot
    BY Zenon DEF SnapshotsOf
  <2> QED BY <2>1, SnapshotFirst
<1>3. NotAfter(Wire, TimesOf(id), {NewEvent(id)}) =>
          /\ NotAfter(Wire', TimesOf(id), {NewEvent(id)})
          /\ Head(Wire) \in TimesOf(id) => ~Has(Wire', {NewEvent(id)})
  BY TailNotAfter
<1>4. \A x : Head(Wire) \in {x} <=> Head(Wire) = x
  OBVIOUS
<1> QED BY <1>1, <1>2, <1>3, <1>4, Zenon DEF Sent, InSnapshot, TimedInSnapshot

LEMMA TimedOfStep ==
    ASSUME Base, NEW id \in Ids, TimedOf(id),
           \/ Passes
           \/ \E i \in Ids : Stores(i) \/ Announces(i) \/ GetsTime(i) \/ AnnouncesTime(i)
           \/ Distributes \/ Snapshots
           \/ \E i \in Ids : ForwardsNew(i) \/ ForwardsUpdate(i)
           \/ TakesStart \/ \E i \in Ids : TakesNew(i) \/ TakesUpdate(i)
           \/ TrimsList \/ ClearsList \/ Reconnects
    PROVE  TimedOf(id)'
<1>0. /\ publishCh \in Seq(Shown!Numbered) /\ Waiting \in Seq(Shown!Numbered)
      /\ WireShape(Wire) /\ Wire \in Seq(Event) /\ recordList \in Seq(Entry)
  BY BaseShapes
<1> DEFINE Pub == Has(publishCh, UpdateMsgs(id))
           Rec == Has(Waiting, UpdateMsgs(id))
           Upd == Has(Wire, {UpdateEvent(id)})
           Tms == Has(Wire, TimesOf(id))
           Ord == NotAfter(Wire, TimesOf(id), {NewEvent(id)})
           Fst == FirstIn(recordList, CopiesOf(id), TimedCopy(id))
           Coming == id \in timing \/ Pub \/ Rec \/ Upd
           WireSame == /\ Sent(id)' <=> Sent(id)
                       /\ InSnapshot(id)' <=> InSnapshot(id)
                       /\ TimedInSnapshot(id)' <=> TimedInSnapshot(id)
                       /\ Upd' <=> Upd
                       /\ Tms' <=> Tms
                       /\ Ord => Ord'
           ListSame == /\ Shows(id)' <=> Shows(id)
                       /\ IsListed(id)' <=> IsListed(id)
                       /\ Fst => Fst'
<1>pub. publishCh' = publishCh => (Pub' <=> Pub)
  BY Zenon
<1>rec. Waiting' = Waiting => (Rec' <=> Rec)
  BY Zenon
<1>wire. Wire' = Wire => WireSame
  BY Zenon DEF Sent, InSnapshot, TimedInSnapshot
<1>list. recordList' = recordList => ListSame
  BY Zenon DEF Shows, IsListed
<1>view. UNCHANGED listView => recordList' = recordList
  BY DEF listView
<1>app. ASSUME NEW e \in Shown!Numbered, publishCh' = Append(publishCh, e)
        PROVE  Pub' <=> Pub \/ e \in UpdateMsgs(id)
  BY <1>0, <1>app, AppendHas
<1>upd. Upd => Tms
  <2>1. UpdateEvent(id) \in TimesOf(id)
    BY EventSets
  <2> QED BY <2>1, HasMore
<1>way. ASSUME id \in timed, Rec \/ Tms PROVE id \in TimesOnTheWay(es)
  BY <1>way, TimesWay
<1>s. /\ id \in timed \ untold =>
             \/ Coming
             \/ /\ ~Sent(id)
                /\ InSnapshot(id) => TimedInSnapshot(id)
                /\ IsListed(id) => Shows(id) \/ TimedInSnapshot(id)
      /\ Coming \/ Shows(id) \/ Tms => id \in timed
      /\ Shows(id) => ~Sent(id)
      /\ Ord
      /\ Shows(id) => Fst
  BY Zenon DEF TimedOf, TimeComing, Settled
<1>t. ASSUME /\ id \in timed' \ untold' =>
                    \/ Coming'
                    \/ /\ ~Sent(id)'
                       /\ InSnapshot(id)' => TimedInSnapshot(id)'
                       /\ IsListed(id)' => Shows(id)' \/ TimedInSnapshot(id)'
             /\ Coming' \/ Shows(id)' \/ Tms' => id \in timed'
             /\ Shows(id)' => ~Sent(id)'
             /\ Ord'
             /\ Shows(id)' => Fst'
      PROVE  TimedOf(id)'
  BY <1>t, Zenon DEF TimedOf, TimeComing, Settled
<1> HIDE DEF Pub, Rec, Upd, Tms, Ord, Fst
<1>still. ASSUME WireSame, ListSame, timed \subseteq timed', id \in timed' => id \in timed \/ Coming',
                 id \notin untold' => id \notin untold,
                 Coming => Coming' \/ id \in untold', Coming' => Coming \/ id \in timed'
          PROVE  TimedOf(id)'
  <2>1. id \in timed => id \in timed'
    BY <1>still
  <2> QED BY <1>s, <1>t, <1>still, <2>1, Zenon
<1> HIDE DEF WireSame, ListSame
<1>1. CASE Passes
  <2>1. UNCHANGED <<publishCh, Waiting, Wire, listView, timing, timed, untold>>
    BY <1>1, Zenon DEF Passes, Quiet, histories
  <2> QED BY <1>pub, <1>rec, <1>wire, <1>view, <1>list, <1>still, <2>1 DEF WireSame
<1>2. ASSUME NEW i \in Ids, Stores(i) PROVE TimedOf(id)'
  <2>1. UNCHANGED <<publishCh, Waiting, Wire, listView, timing, timed, untold>>
    BY <1>2, Zenon DEF Stores, histories
  <2> QED BY <1>pub, <1>rec, <1>wire, <1>view, <1>list, <1>still, <2>1 DEF WireSame
<1>3. ASSUME NEW i \in Ids, Announces(i) PROVE TimedOf(id)'
  <2>1. PICK n \in Nat \ {0} :
           /\ publishCh' = Append(publishCh, [n |-> n, msg |-> RecordMsg(i)])
           /\ UNCHANGED <<Waiting, Wire, listView, timing, timed, untold>>
    BY <1>3, Zenon DEF Announces, histories
  <2> DEFINE e == [n |-> n, msg |-> RecordMsg(i)]
  <2>2. e \in Shown!Numbered /\ e.msg = RecordMsg(i)
    BY DEF Shown!Numbered, RecordMsg, Messages
  <2>3. e \notin UpdateMsgs(id)
    BY <2>2, MsgSets
  <2>4. Pub' <=> Pub
    BY <1>app, <2>1, <2>2, <2>3
  <2> QED BY <1>rec, <1>wire, <1>view, <1>list, <1>still, <2>1, <2>4 DEF WireSame
<1>4. ASSUME NEW i \in Ids, GetsTime(i) PROVE TimedOf(id)'
  <2>1. /\ UNCHANGED <<publishCh, Waiting, Wire, listView, untold>>
        /\ timed' = timed \cup {i} /\ timing' = timing \cup {i}
    BY <1>4, Zenon DEF GetsTime, histories
  <2>2. /\ timed \subseteq timed'
        /\ id \in timed' => id \in timed \/ id \in timing'
        /\ id \in timing => id \in timing'
        /\ id \in timing' => id \in timing \/ id \in timed'
    BY <2>1
  <2> QED BY <1>pub, <1>rec, <1>wire, <1>view, <1>list, <1>still, <2>1, <2>2 DEF WireSame
<1>5. ASSUME NEW i \in Ids, AnnouncesTime(i) PROVE TimedOf(id)'
  <2>1. PICK n \in Nat \ {0} :
           /\ publishCh' = Append(publishCh, [n |-> n, msg |-> UpdateMsg(i)])
           /\ i \in timing /\ timing' = timing \ {i}
           /\ UNCHANGED <<Waiting, Wire, listView, timed, untold>>
    BY <1>5, Zenon DEF AnnouncesTime, histories
  <2> DEFINE e == [n |-> n, msg |-> UpdateMsg(i)]
  <2>2. e \in Shown!Numbered /\ e.msg = UpdateMsg(i)
    BY DEF Shown!Numbered, UpdateMsg, Messages
  <2>3. e \in UpdateMsgs(id) <=> i = id
    BY <2>2, MsgSets
  <2>4. Pub' <=> Pub \/ i = id
    BY <1>app, <2>1, <2>2, <2>3
  <2>5. id \in timing' \/ id = i <=> id \in timing \/ id = i
    BY <2>1
  <2> QED BY <1>rec, <1>wire, <1>view, <1>list, <1>still, <2>1, <2>4, <2>5 DEF WireSame
<1>6. CASE Distributes
  <2> DEFINE e == Head(publishCh)
  <2>1. /\ publishCh # <<>> /\ publishCh' = Tail(publishCh)
        /\ UNCHANGED <<timing, timed, Wire, listView>>
        /\ \/ Waiting' = Append(Waiting, e) /\ untold \subseteq untold'
           \/ /\ Waiting' = Waiting
              /\ \/ e.msg.kind = "record" /\ untold \subseteq untold'
                 \/ e.msg.kind = "update" /\ untold' = untold \cup {e.msg.id}
    BY <1>6, Zenon DEF Distributes
  <2>2. e \in Shown!Numbered
    BY <1>0, <2>1
  <2>3. Pub => Pub' \/ e \in UpdateMsgs(id)
    BY <1>0, <2>1, TailHas DEF Pub
  <2>5. (e \in UpdateMsgs(id) => Pub) /\ (Pub' => Pub)
    BY <1>0, <2>1, TailHas DEF Pub
  <2> HIDE DEF e
  <2>6. e \in UpdateMsgs(id) => e.msg.kind = "update" /\ e.msg.id = id
    <3>1. UpdateMsg(id).kind = "update" /\ UpdateMsg(id).id = id
      BY DEF UpdateMsg
    <3> QED BY <3>1, Zenon DEF UpdateMsgs
  <2>7. CASE Waiting' = Append(Waiting, e) /\ untold \subseteq untold'
    <3>1. Rec' <=> Rec \/ e \in UpdateMsgs(id)
      BY <1>0, <2>2, <2>7, AppendHas DEF Rec
    <3>2. id \notin untold' => id \notin untold
      BY <2>7
    <3> QED BY <1>wire, <1>view, <1>list, <1>still, <2>1, <2>3, <2>5, <3>1, <3>2 DEF WireSame
  <2>8. CASE /\ Waiting' = Waiting
             /\ \/ e.msg.kind = "record" /\ untold \subseteq untold'
                \/ e.msg.kind = "update" /\ untold' = untold \cup {e.msg.id}
    <3>1. e \in UpdateMsgs(id) => id \in untold'
      BY <2>6, <2>8
    <3>2. id \notin untold' => id \notin untold
      BY <2>8
    <3> QED BY <1>rec, <1>wire, <1>view, <1>list, <1>still, <2>1, <2>3, <2>5, <2>8, <3>1, <3>2 DEF WireSame
  <2> QED BY <2>1, <2>7, <2>8
<1>7. CASE Snapshots
  <2> DEFINE e == [event |-> "start", recs |-> ThinCloneWithoutResponseBody]
  <2>1. /\ Wire = <<>> /\ Wire' = <<e>> /\ untold' = untold \ records
        /\ UNCHANGED <<timing, timed, publishCh, Waiting, listView>>
    BY <1>7, Zenon DEF Snapshots
  <2>2. /\ e \in Snapshot
        /\ e \in SnapshotsOf(id) <=> id \in records
        /\ id \in records \cap timed => e \in TimesOf(id)
        /\ e \in TimesOf(id) => id \in timed
    <3>1. Store!TypeOK
      BY Zenon DEF Base
    <3> QED BY <3>1, SnapshotHolds
  <2> HIDE DEF e
  <2>3. e \notin {NewEvent(id)} /\ e \notin {UpdateEvent(id)}
    BY <2>2, SnapshotSets
  <2>4. \A P : ~Has(Wire, P) /\ (Has(Wire', P) <=> e \in P)
    BY <2>1, EmptyHas, OneHas
  <2>5. /\ ~Sent(id)' /\ ~Upd' /\ ~Upd /\ ~TimedInSnapshot(id)
        /\ InSnapshot(id)' <=> id \in records
        /\ id \in records \cap timed => TimedInSnapshot(id)'
        /\ Tms' => id \in timed
    <3>1. e \in SnapshotsOf(id) \cap TimesOf(id) <=> e \in SnapshotsOf(id) /\ e \in TimesOf(id)
      OBVIOUS
    <3>2. ~Sent(id)' /\ ~Upd' /\ ~Upd /\ ~TimedInSnapshot(id)
      BY <2>3, <2>4, Zenon DEF Sent, Upd, TimedInSnapshot
    <3>3. InSnapshot(id)' <=> id \in records
      BY <2>2, <2>4, Zenon DEF InSnapshot
    <3>4. id \in records \cap timed => TimedInSnapshot(id)'
      <4>1. id \in records \cap timed => id \in records
        OBVIOUS
      <4> QED BY <2>2, <2>4, <3>1, <4>1, Zenon DEF TimedInSnapshot
    <3>5. Tms' => id \in timed
      BY <2>2, <2>4, Zenon DEF Tms
    <3> QED BY <3>2, <3>3, <3>4, <3>5
  <2>6. Ord'
    BY <2>1, ShortNotAfter DEF Ord
  <2>7. /\ Pub' <=> Pub
        /\ Rec' <=> Rec
        /\ Shows(id)' <=> Shows(id)
        /\ IsListed(id)' <=> IsListed(id)
        /\ Fst => Fst'
    BY <1>pub, <1>rec, <1>list, <1>view, <2>1 DEF ListSame
  <2>8. id \in timed' <=> id \in timed
    BY <2>1
  <2>9. id \in timed' \ untold' => id \in records \cap timed \/ (id \in timed \ untold /\ id \notin records)
    BY <2>1
  <2>10. id \in timing' <=> id \in timing
    BY <2>1
  <2>11. id \in timed' \ untold' =>
             \/ Coming'
             \/ /\ InSnapshot(id)' => TimedInSnapshot(id)'
                /\ IsListed(id)' => Shows(id)' \/ TimedInSnapshot(id)'
    BY <1>s, <2>5, <2>7, <2>9, <2>10, Zenon
  <2> QED BY <1>s, <1>t, <2>5, <2>6, <2>7, <2>8, <2>10, <2>11, Zenon
<1>8. ASSUME NEW i \in Ids, ForwardsNew(i) PROVE TimedOf(id)'
  <2>1. /\ Waiting # <<>> /\ Head(Waiting).msg = RecordMsg(i) /\ i \notin timed
        /\ Waiting' = Tail(Waiting) /\ Wire' = Append(Wire, NewEvent(i))
        /\ UNCHANGED <<timing, timed, publishCh, listView, untold>>
    BY <1>8, Zenon DEF ForwardsNew, histories
  <2>2. Head(Waiting) \notin UpdateMsgs(id)
    <3>1. Head(Waiting) \in Shown!Numbered
      BY <1>0, <2>1
    <3> QED BY <2>1, <3>1, MsgSets
  <2>3. Rec' <=> Rec
    BY <1>0, <2>1, <2>2, TailHas DEF Rec
  <2>4. /\ NewEvent(i) \in Event /\ (NewEvent(i) = NewEvent(id) <=> i = id)
        /\ NewEvent(i) # UpdateEvent(id) /\ NewEvent(i) \notin SnapshotsOf(id)
        /\ NewEvent(i) \notin TimesOf(id) /\ NewEvent(i) \notin SnapshotsOf(id) \cap TimesOf(id)
    BY EventSets
  <2>5. /\ Sent(id)' <=> Sent(id) \/ i = id
        /\ InSnapshot(id)' <=> InSnapshot(id)
        /\ TimedInSnapshot(id)' <=> TimedInSnapshot(id)
        /\ Upd' <=> Upd
        /\ Tms' <=> Tms
        /\ Ord /\ ~(Tms /\ i = id) => Ord'
    BY <1>0, <2>1, <2>4, WireAppends DEF Upd, Tms, Ord
  <2>6. (Pub' <=> Pub) /\ ListSame
    BY <1>pub, <1>list, <1>view, <2>1
  <2>7. CASE i = id
    <3>1. id \notin timed' /\ id \notin timed
      BY <2>1, <2>7
    <3>2. ~Coming /\ ~Shows(id) /\ ~Tms
      BY <1>s, <3>1
    <3> QED BY <1>s, <1>t, <2>1, <2>3, <2>5, <2>6, <3>1, <3>2 DEF ListSame
  <2>8. CASE i # id
    <3>1. WireSame
      BY <1>s, <2>5, <2>8 DEF WireSame
    <3> QED BY <1>still, <2>1, <2>3, <2>6, <3>1 DEF WireSame
  <2> QED BY <2>7, <2>8
<1>9. ASSUME NEW i \in Ids, ForwardsUpdate(i) PROVE TimedOf(id)'
  <2>1. /\ Waiting # <<>> /\ Waiting' = Tail(Waiting) /\ Wire' = Append(Wire, UpdateEvent(i))
        /\ \/ Head(Waiting).msg = RecordMsg(i) /\ i \in timed
           \/ Head(Waiting).msg = UpdateMsg(i)
        /\ UNCHANGED <<timing, timed, publishCh, listView, untold>>
    BY <1>9, Zenon DEF ForwardsUpdate
  <2>2. /\ i # id => Head(Waiting) \notin UpdateMsgs(id)
        /\ i = id => Head(Waiting) \in UpdateMsgs(id) \/ id \in timed
    <3>1. Head(Waiting) \in Shown!Numbered
      BY <1>0, <2>1
    <3>2. /\ Head(Waiting).msg = RecordMsg(i) => Head(Waiting) \notin UpdateMsgs(id)
          /\ Head(Waiting).msg = UpdateMsg(i) => (Head(Waiting) \in UpdateMsgs(id) <=> i = id)
      BY <3>1, MsgSets
    <3> QED BY <2>1, <3>2
  <2>3. /\ Rec' => Rec
        /\ Rec => Rec' \/ Head(Waiting) \in UpdateMsgs(id)
        /\ Head(Waiting) \in UpdateMsgs(id) => Rec
    BY <1>0, <2>1, TailHas DEF Rec
  <2>4. /\ UpdateEvent(i) \in Event /\ (UpdateEvent(i) = UpdateEvent(id) <=> i = id)
        /\ UpdateEvent(i) # NewEvent(id) /\ UpdateEvent(i) \notin SnapshotsOf(id)
        /\ UpdateEvent(i) \in TimesOf(id) <=> i = id
        /\ UpdateEvent(i) \notin SnapshotsOf(id) \cap TimesOf(id)
    BY EventSets
  <2>5. /\ Sent(id)' <=> Sent(id)
        /\ InSnapshot(id)' <=> InSnapshot(id)
        /\ TimedInSnapshot(id)' <=> TimedInSnapshot(id)
        /\ Upd' <=> Upd \/ i = id
        /\ Tms' <=> Tms \/ i = id
        /\ Ord => Ord'
    BY <1>0, <2>1, <2>4, WireAppends DEF Upd, Tms, Ord
  <2>6. (Pub' <=> Pub) /\ ListSame
    BY <1>pub, <1>list, <1>view, <2>1
  <2>7. CASE i = id
    <3>1. Upd' /\ id \in timed /\ id \in timed'
      BY <1>s, <2>1, <2>2, <2>3, <2>5, <2>7
    <3> QED BY <1>s, <1>t, <2>5, <2>6, <3>1 DEF ListSame
  <2>8. CASE i # id
    <3>1. WireSame
      BY <1>s, <2>5, <2>8 DEF WireSame
    <3>2. Rec' <=> Rec
      BY <2>2, <2>3, <2>8
    <3> QED BY <1>still, <2>1, <2>6, <3>1, <3>2 DEF WireSame
  <2> QED BY <2>7, <2>8
<1>10. CASE TakesStart
  <2> DEFINE recs == Head(Wire).recs
             r == [id |-> id, timed |-> TRUE]
  <2>1. /\ Wire # <<>> /\ Head(Wire).event = "start" /\ Wire' = Tail(Wire)
        /\ \/ recordList' = ById(recs) /\ untold' = untold
           \/ untold' = untold \cup {x.id : x \in {y \in recs : y.timed}} /\ recordList' = recordList
        /\ UNCHANGED <<timing, timed, publishCh, Waiting>>
    BY <1>10, Zenon DEF TakesStart
  <2>2. Head(Wire) \in Snapshot
    BY <1>0, <2>1 DEF Snapshot
  <2>3. /\ Sent(id)' => Sent(id)
        /\ ~InSnapshot(id)' /\ ~TimedInSnapshot(id)'
        /\ InSnapshot(id) => Head(Wire) \in SnapshotsOf(id)
        /\ TimedInSnapshot(id) => Head(Wire) \in TimesOf(id)
        /\ Upd' => Upd
        /\ Upd => Upd' \/ Head(Wire) = UpdateEvent(id)
        /\ Tms' => Tms
        /\ Head(Wire) \in TimesOf(id) => Tms
        /\ Ord' /\ (Head(Wire) \in TimesOf(id) => ~Sent(id)')
    <3>1. Head(Wire) \in SnapshotsOf(id) \cap TimesOf(id) => Head(Wire) \in TimesOf(id)
      OBVIOUS
    <3> QED BY <1>0, <1>s, <2>1, <3>1, WireTails, Zenon DEF Upd, Tms, Ord
  <2>4. Head(Wire) # UpdateEvent(id)
    BY <2>2, SnapshotSets
  <2>5. Head(Wire) \in SnapshotsOf(id) <=> \E x \in recs : x.id = id
    BY <2>2, SnapshotSets
  <2>6. Head(Wire) \in TimesOf(id) <=> r \in recs
    BY <2>2, Zenon DEF Snapshot, TimesOf
  <2>7. recs \in SUBSET Entry /\ OneEach(recs)
    BY <1>0, <2>1, StartOf
  <2>8. (Pub' <=> Pub) /\ (Rec' <=> Rec) /\ (id \in timing' <=> id \in timing) /\ (id \in timed' <=> id \in timed)
    BY <1>pub, <1>rec, <2>1
  <2>9. CASE recordList' = ById(recs) /\ untold' = untold
    <3> HIDE DEF recs, r
    <3>1. IsListed(id)' <=> \E x \in recs : x.id = id
      BY <2>7, <2>9, ById_Has, Zenon DEF IsListed
    <3>2. Shows(id)' <=> r \in recs
      BY <2>7, <2>9, ById_Shows, Zenon DEF Shows, r
    <3>3. Shows(id)' => Fst'
      BY <2>7, <2>9, ById_Shows, Zenon DEF Shows, Fst
    <3>4. (\E x \in recs : x.id = id) => InSnapshot(id)
      <4>1. InSnapshot(id) <=> Has(Wire, SnapshotsOf(id))
        BY Zenon DEF InSnapshot
      <4>2. Head(Wire) \in SnapshotsOf(id) => Has(Wire, SnapshotsOf(id))
        BY <1>0, <2>1, TailHas
      <4> QED BY <2>5, <4>1, <4>2
    <3>5. id \in timed' \ untold' => id \in timed \ untold
      BY <2>1, <2>9
    <3>6. id \in timed' \ untold' =>
             \/ Coming'
             \/ /\ ~Sent(id)'
                /\ InSnapshot(id)' => TimedInSnapshot(id)'
                /\ IsListed(id)' => Shows(id)' \/ TimedInSnapshot(id)'
      BY <1>s, <2>3, <2>4, <2>6, <2>8, <3>1, <3>2, <3>4, <3>5, Zenon
    <3> QED BY <1>s, <1>t, <2>3, <2>6, <2>8, <3>2, <3>3, <3>6, Zenon
  <2>10. CASE untold' = untold \cup {x.id : x \in {y \in recs : y.timed}} /\ recordList' = recordList
    <3>1. r \in recs => id \in untold'
      <4>1. r.id = id /\ r.timed
        OBVIOUS
      <4> HIDE DEF r, recs
      <4> QED BY <2>10, <4>1
    <3> HIDE DEF recs, r
    <3>2. id \in timed' \ untold' => id \in timed \ untold /\ id \notin untold'
      BY <2>1, <2>10
    <3>3. /\ Shows(id)' <=> Shows(id)
          /\ IsListed(id)' <=> IsListed(id)
          /\ Fst => Fst'
      BY <1>list, <2>10 DEF ListSame
    <3>4. id \in timed' \ untold' =>
             \/ Coming'
             \/ /\ ~Sent(id)'
                /\ InSnapshot(id)' => TimedInSnapshot(id)'
                /\ IsListed(id)' => Shows(id)' \/ TimedInSnapshot(id)'
      BY <1>s, <2>3, <2>4, <2>6, <2>8, <3>1, <3>2, <3>3, Zenon
    <3> QED BY <1>s, <1>t, <2>3, <2>8, <3>3, <3>4, Zenon
  <2> QED BY <2>1, <2>9, <2>10
<1>11. ASSUME NEW i \in Ids, TakesNew(i) PROVE TimedOf(id)'
  <2> DEFINE r == [id |-> i, timed |-> FALSE]
  <2>1. /\ Wire # <<>> /\ Head(Wire) = NewEvent(i) /\ Wire' = Tail(Wire)
        /\ \/ UNCHANGED listView
           \/ recordList' = <<r>> \o recordList
        /\ UNCHANGED <<timing, timed, publishCh, Waiting, untold>>
    BY <1>11, Zenon DEF TakesNew
  <2>2. /\ NewEvent(i) = NewEvent(id) <=> i = id
        /\ NewEvent(i) # UpdateEvent(id) /\ NewEvent(i) \notin SnapshotsOf(id)
        /\ NewEvent(i) \notin SnapshotsOf(id) \cap TimesOf(id)
    BY EventSets
  <2>3. /\ Sent(id)' => Sent(id)
        /\ i = id => Sent(id)
        /\ ~InSnapshot(id)' /\ ~TimedInSnapshot(id)' /\ ~InSnapshot(id) /\ ~TimedInSnapshot(id)
        /\ Upd' <=> Upd
        /\ Tms' => Tms
        /\ Ord'
    BY <1>0, <1>s, <2>1, <2>2, WireTails DEF Upd, Tms, Ord
  <2>4. (Pub' <=> Pub) /\ (Rec' <=> Rec) /\ (id \in timing' <=> id \in timing)
        /\ (id \in timed' <=> id \in timed) /\ (id \in untold' <=> id \in untold)
    BY <1>pub, <1>rec, <2>1
  <2>5. /\ Shows(id)' <=> Shows(id)
        /\ Shows(id) => Fst'
        /\ IsListed(id)' => IsListed(id) \/ i = id
    <3>1. CASE UNCHANGED listView
      BY <1>list, <1>view, <1>s, <3>1 DEF ListSame
    <3>2. CASE recordList' = <<r>> \o recordList
      <4>1. r \in Entry /\ (r \in CopiesOf(id) <=> i = id)
        BY DEF Entry, CopiesOf
      <4>2. r \notin TimedCopy(id)
        BY DEF TimedCopy
      <4> HIDE DEF r
      <4>3. /\ IsListed(id)' <=> IsListed(id) \/ i = id
            /\ Shows(id)' <=> Shows(id)
        BY <1>0, <3>2, <4>1, <4>2, FrontHas DEF IsListed, Shows
      <4>4. i # id => (Fst => Fst')
        BY <1>0, <3>2, <4>1, FrontFirst DEF Fst
      <4> QED BY <1>s, <2>3, <4>3, <4>4
    <3> QED BY <2>1, <3>1, <3>2
  <2>6. id \in timed' \ untold' => id \in timed \ untold
    BY <2>1
  <2> QED BY <1>s, <1>t, <2>3, <2>4, <2>5, <2>6, Zenon
<1>12. ASSUME NEW i \in Ids, TakesUpdate(i) PROVE TimedOf(id)'
  <2>1. /\ Wire # <<>> /\ Head(Wire) = UpdateEvent(i) /\ Wire' = Tail(Wire)
        /\ \/ i \notin Listed /\ untold' = untold \cup {i} /\ recordList' = recordList
           \/ /\ i \in Listed /\ recordList' = [recordList EXCEPT ![FirstOf(i)].timed = TRUE]
              /\ untold' = untold
        /\ UNCHANGED <<timing, timed, publishCh, Waiting>>
    BY <1>12, Zenon DEF TakesUpdate
  <2>2. /\ UpdateEvent(i) = UpdateEvent(id) <=> i = id
        /\ UpdateEvent(i) # NewEvent(id) /\ UpdateEvent(i) \notin SnapshotsOf(id)
        /\ UpdateEvent(i) \in TimesOf(id) <=> i = id
        /\ UpdateEvent(i) \notin SnapshotsOf(id) \cap TimesOf(id)
    BY EventSets
  <2>3. /\ Sent(id)' => Sent(id)
        /\ i = id => ~Sent(id)' /\ Tms
        /\ ~InSnapshot(id)' /\ ~TimedInSnapshot(id)' /\ ~InSnapshot(id) /\ ~TimedInSnapshot(id)
        /\ Upd' => Upd
        /\ Upd => Upd' \/ i = id
        /\ Tms' => Tms
        /\ Ord'
    BY <1>0, <1>s, <2>1, <2>2, WireTails DEF Upd, Tms, Ord
  <2>4. (Pub' <=> Pub) /\ (Rec' <=> Rec) /\ (id \in timing' <=> id \in timing)
        /\ (id \in timed' <=> id \in timed)
    BY <1>pub, <1>rec, <2>1
  <2>5. CASE i \notin Listed /\ untold' = untold \cup {i} /\ recordList' = recordList
    <3>1. /\ Shows(id)' <=> Shows(id)
          /\ IsListed(id)' <=> IsListed(id)
          /\ Fst => Fst'
      BY <1>list, <2>5 DEF ListSame
    <3>2. id \in timed' \ untold' => id \in timed \ untold /\ i # id
      BY <2>1, <2>5
    <3> QED BY <1>s, <1>t, <2>3, <2>4, <3>1, <3>2, Zenon
  <2>6. CASE /\ i \in Listed /\ recordList' = [recordList EXCEPT ![FirstOf(i)].timed = TRUE]
             /\ untold' = untold
    <3>1. IsListed(id)' <=> IsListed(id)
      BY <1>0, <2>6, UpdateHas DEF IsListed
    <3>2. /\ i = id => Shows(id)' /\ Fst'
          /\ i # id => (Shows(id)' <=> Shows(id)) /\ (Fst => Fst')
      BY <1>0, <2>6, UpdateFirst DEF Shows, Fst
    <3>3. id \in timed' \ untold' => id \in timed \ untold
      BY <2>1, <2>6
    <3>4. CASE i = id
      BY <1>s, <1>t, <2>3, <2>4, <3>2, <3>4, Zenon
    <3>5. CASE i # id
      BY <1>s, <1>t, <2>3, <2>4, <3>1, <3>2, <3>3, <3>5, Zenon
    <3> QED BY <3>4, <3>5
  <2> QED BY <2>1, <2>5, <2>6
<1>13. CASE TrimsList
  <2>1. /\ recordList' = Trimmed(Sorted(recordList))
        /\ UNCHANGED <<timing, timed, publishCh, Waiting, Wire, untold>>
    BY <1>13, Zenon DEF TrimsList, Quiet, histories
  <2>2. /\ Shows(id)' => Shows(id)
        /\ IsListed(id)' => IsListed(id)
    BY <1>0, <2>1, TrimHas DEF Shows, IsListed
  <2>3. /\ Fst => Fst'
        /\ Fst /\ IsListed(id)' => Shows(id)'
    BY <1>0, <2>1, TrimFirst, TrimShows DEF Fst, IsListed, Shows
  <2>4. (Pub' <=> Pub) /\ (Rec' <=> Rec) /\ WireSame
        /\ (id \in timing' <=> id \in timing)
        /\ (id \in timed' <=> id \in timed) /\ (id \in timed' \ untold' => id \in timed \ untold)
    BY <1>pub, <1>rec, <1>wire, <2>1
  <2> QED BY <1>s, <1>t, <2>2, <2>3, <2>4, Zenon DEF WireSame
<1>14. CASE ClearsList
  <2>1. /\ recordList' = ById({}) /\ untold' = untold \cup answered
        /\ UNCHANGED <<timing, timed, publishCh, Waiting, Wire>>
    BY <1>14, Zenon DEF ClearsList, Quiet
  <2>2. ~Shows(id)' /\ ~IsListed(id)'
    <3>1. {} \in SUBSET Entry /\ OneEach({})
      BY DEF OneEach
    <3> QED BY <2>1, <3>1, ById_Has, ById_Shows DEF Shows, IsListed
  <2>3. id \in timed' => id \in untold'
    BY <2>1, BaseShapes
  <2>4. (Pub' <=> Pub) /\ (Rec' <=> Rec) /\ WireSame
        /\ (id \in timing' <=> id \in timing) /\ (id \in timed' <=> id \in timed)
    BY <1>pub, <1>rec, <1>wire, <2>1
  <2> QED BY <1>s, <1>t, <2>2, <2>3, <2>4 DEF WireSame
<1>15. CASE Reconnects
  <2>1. /\ Waiting' = <<>> /\ Wire' = <<>> /\ untold' = untold \cup TimesOnTheWay(es)
        /\ UNCHANGED <<timing, timed, publishCh, listView>>
    BY <1>15, Zenon DEF Reconnects
  <2>2. /\ ~Sent(id)' /\ ~InSnapshot(id)' /\ ~TimedInSnapshot(id)' /\ ~Rec' /\ ~Upd' /\ ~Tms'
    BY <2>1, EmptyHas, Zenon DEF Sent, InSnapshot, TimedInSnapshot, Rec, Upd, Tms
  <2>3. Ord'
    BY <2>1, ShortNotAfter DEF Ord
  <2>4. id \in timed' \ untold' => id \in timed \ untold /\ ~Rec /\ ~Tms
    BY <1>way, <2>1
  <2>5. TimedInSnapshot(id) => Tms
    <3>1. SnapshotsOf(id) \cap TimesOf(id) \subseteq TimesOf(id)
      OBVIOUS
    <3> QED BY <3>1, HasMore, Zenon DEF TimedInSnapshot, Tms
  <2>6. /\ Shows(id)' <=> Shows(id)
        /\ IsListed(id)' <=> IsListed(id)
        /\ Fst => Fst'
    BY <1>list, <1>view, <2>1 DEF ListSame
  <2>7. (Pub' <=> Pub) /\ (id \in timing' <=> id \in timing) /\ (id \in timed' <=> id \in timed)
    BY <1>pub, <2>1
  <2> QED BY <1>s, <1>t, <1>upd, <2>2, <2>3, <2>4, <2>5, <2>6, <2>7, Zenon
<1> QED BY <1>1, <1>2, <1>3, <1>4, <1>5, <1>6, <1>7, <1>8, <1>9, <1>10, <1>11, <1>12, <1>13, <1>14, <1>15

LEMMA TimedStep ==
    ASSUME Base, TimedInv, [Next]_vars
    PROVE  TimedInv'
<1>1. \A id \in Ids : TimedOf(id)'
  BY StepCases, TimedOfStep DEF TimedInv
<1> QED BY <1>1, Zenon DEF TimedInv

LEMMA TimedInit ==
    ASSUME Init
    PROVE  TimedInv
<1> SUFFICES ASSUME NEW id \in Ids PROVE TimedOf(id)
  BY DEF TimedInv
<1>1. timed = {} /\ timing = {} /\ publishCh = <<>> /\ recordList = <<>> /\ Waiting = <<>> /\ Wire = <<>>
  <2>1. timed = {} /\ timing = {} /\ publishCh = <<>> /\ recordList = <<>>
    BY Zenon DEF Init, StreamInit, Events!Init
  <2>2. Base
    BY BaseInit
  <2>3. es \in Conns
    BY <2>2 DEF Base, ConnsInv
  <2>4. listener[es] = <<>> /\ wire[es] = <<>>
    <3>1. listener = [c \in Conns |-> <<>>] /\ wire = [c \in Conns |-> <<>>]
      BY Zenon DEF Init, StreamInit, Events!Init
    <3> QED BY <2>3, <3>1
  <2> QED BY <2>1, <2>4 DEF Waiting, Wire
<1>2. ~TimeComing(id) /\ ~Shows(id) /\ ~Has(Wire, TimesOf(id))
  BY <1>1, EmptyHas DEF TimeComing, Shows
<1>3. NotAfter(Wire, TimesOf(id), {NewEvent(id)})
  BY <1>1, ShortNotAfter
<1>4. id \notin timed \ untold
  BY <1>1
<1> QED BY <1>2, <1>3, <1>4, Zenon DEF TimedOf

(* Once all is quiet a listed record whose server time the client knows     *)
(* shows it, unless the update was lost or came before the record.          *)
THEOREM TimedHolds == Spec => []TimedUnlessMissed
<1>1. Init => TimedInv
  BY TimedInit
<1>2. Base /\ TimedInv /\ [Next]_vars => Base' /\ TimedInv'
  BY BaseStep, TimedStep
<1>3. Base /\ TimedInv => TimedUnlessMissed
  <2> SUFFICES ASSUME Base, TimedInv, PageQuiet, NEW id \in (Listed \cap timed) \ untold
               PROVE  \E i \in DOMAIN recordList : recordList[i] = [id |-> id, timed |-> TRUE]
    BY DEF TimedUnlessMissed
  <2>1. recordList \in Seq(Entry) /\ id \in Ids
    <3>1. recordList \in Seq(Entry)
      BY BaseShapes
    <3>2. PICK i \in 1..Len(recordList) : recordList[i].id = id
      BY <3>1 DEF Listed
    <3>3. recordList[i] \in Entry
      BY <3>1
    <3> QED BY <3>1, <3>2, <3>3 DEF Entry
  <2>2. TimedOf(id)
    BY <2>1 DEF TimedInv
  <2>3. ~TimeComing(id) /\ ~TimedInSnapshot(id)
    BY QuietMeans DEF TimeComing, TimedInSnapshot
  <2>4. IsListed(id)
    BY <2>1, ListedIs
  <2>5. Shows(id)
    BY <2>2, <2>3, <2>4 DEF TimedOf, Settled
  <2>6. PICK i \in 1..Len(recordList) : recordList[i] \in TimedCopy(id)
    BY <2>5, Zenon DEF Shows, Has
  <2> QED BY <2>1, <2>6 DEF TimedCopy
<1> QED BY <1>1, <1>2, <1>3, BaseInit, PTL DEF Spec
=============================================================================
