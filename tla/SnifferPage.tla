----------------------------- MODULE SnifferPage -----------------------------
(***************************************************************************)
(* The list of records on a page of the sniffer (main.js, Sidebar.js and   *)
(* the timers of Timer.js), at the other end of SnifferStream.             *)
(*                                                                         *)
(* The page keeps the records of the events it gets, newest first, the     *)
(* part of them the search lets through, and a copy of that part which the *)
(* dashboard shows.  Sorting, trimming and the copy wait for timers.  Its  *)
(* EventSource connects again whenever a connection is lost.               *)
(***************************************************************************)
EXTENDS SnifferStream, Listings

CONSTANTS
    Undecodable,    \* which sets of records may have a query string that
                    \* decodeURIComponent refuses, e.g. "?q=100%"
    MaxTurns,       \* bound: how often, all in all, the records are cleared,
                    \* the search is changed and the connection is lost
    Queries         \* what the user may type into the search field

ASSUME PageAssumption ==
    /\ IsFiniteSet(Conns) /\ Conns = 1..Cardinality(Conns) /\ Conns # {}
    /\ Undecodable \subseteq SUBSET (1..MaxId)
    /\ MaxTurns \in Nat
    /\ Queries \subseteq {"", "serverElapsed", "serverelapsed"} /\ "" \in Queries

VARIABLES
    undecodable,    \* the records whose query string does not decode
    es,             \* the connection of the page's EventSource
    recordList,     \* Sidebar.recordList: entries [id, timed]
    query,          \* Sidebar.inputSearch
    filtered,       \* Sidebar.filteredRecordList, by id
    sorting,        \* the timer of the created() hook's debounce is running
    emitting,       \* the timer of postponeEmitFilterRecords is running
    sidebarRecords, \* main's copy for the dashboard, by id
    clearing,       \* a DELETE of this page: "no", "asked", "served"
    turns,          \* counts what MaxTurns bounds
    unseen,         \* history: stored records the page was not told of, or
                    \* whose event it failed to use
    untold,         \* history: records whose update reached no listed record
    overlap         \* history: records in a snapshot and still to be announced

listVars == <<recordList, query, filtered, sorting, emitting, sidebarRecords>>
pageVars == <<undecodable, es, listVars, clearing, turns, unseen, untold, overlap>>
vars == <<streamVars, pageVars>>

Entry == [id : Ids, timed : BOOLEAN]

TypeOK ==
    /\ Store!TypeOK /\ Events!TypeOK
    /\ adding \cup timing \cup timed \cup answered \subseteq Ids
    /\ conn \in [Conns -> {"new", "subscribed", "streaming", "left"}]
    /\ \A c \in Conns : \A i \in DOMAIN wire[c] :
           /\ wire[c][i].event \in {"start", "new-record", "update-record"}
           /\ wire[c][i].recs \subseteq Entry
    /\ undecodable \in Undecodable
    /\ es \in Conns
    /\ recordList \in Seq(Entry)
    /\ query \in Queries
    /\ filtered \in Seq(Ids) /\ sidebarRecords \in Seq(Ids)
    /\ sorting \in BOOLEAN /\ emitting \in BOOLEAN
    /\ clearing \in {"no", "asked", "served"} /\ turns \in 0..MaxTurns
    /\ unseen \cup untold \cup overlap \subseteq Ids

Init ==
    /\ StreamInit
    /\ undecodable \in Undecodable
    /\ es = 1
    /\ recordList = <<>>
    /\ query = ""
    /\ filtered = <<>>
    /\ sorting = FALSE
    /\ emitting = FALSE
    /\ sidebarRecords = <<>>
    /\ clearing = "no"
    /\ turns = 0
    /\ unseen = {}
    /\ untold = {}
    /\ overlap = {}

-----------------------------------------------------------------------------
Listed == {recordList[i].id : i \in DOMAIN recordList}

\* The search engine's answer (an external library): the search for the key
\* serverElapsed, in any case, finds the records that have the server's time.
Matching(list, q) ==
    LET found == Ascending({i \in DOMAIN list : q = "" \/ list[i].timed})
    IN  [k \in DOMAIN found |-> list[found[k]].id]

\* debounceWithThreshold: a call starts the timer unless it runs, and the
\* first call after it has ended starts it again.
Debounce(timer) == timer' = TRUE
Elapses(timer) == timer /\ timer' = FALSE

\* Mutant: the timer of the dashboard's copy is not started.
filterRecordsOnly(list, q) ==
    /\ filtered' = Matching(list, q)
    /\ UNCHANGED emitting

\* Sidebar.filterRecords: the search, and a later copy for the dashboard.
filterRecords(list, q) ==
    /\ filtered' = Matching(list, q)
    /\ Debounce(emitting)

\* A snapshot, newest first.
ById(recs) == Listing(recs, {p \in recs \X recs : p[1].id > p[2].id})

\* Newest first, too; Array.prototype.sort is stable.
Sorted(list) ==
    LET places == DOMAIN list
        order == Listing(places, {p \in places \X places :
                     \/ list[p[1]].id > list[p[2]].id
                     \/ list[p[1]].id = list[p[2]].id /\ p[1] < p[2]})
    IN  [k \in places |-> list[order[k]]]

\* Mutant: what comes with the event is added to the list.
StreamStartAppends(recs) ==
    /\ recordList' = ById(recs) \o recordList
    /\ filterRecords(recordList', query)
    /\ UNCHANGED <<query, sorting, sidebarRecords>>

\* The handlers of 'stream.start': main sorts the snapshot, Sidebar takes it.
StreamStart(recs) ==
    /\ recordList' = ById(recs)
    /\ filterRecords(recordList', query)
    /\ UNCHANGED <<query, sorting, sidebarRecords>>

\* What else comes from the wire with the event that is handled.
Handled(event) ==
    /\ wire[es] # <<>>
    /\ Head(wire[es]).event = event
    /\ wire' = [wire EXCEPT ![es] = Tail(@)]
    /\ UNCHANGED <<storeVars, brokerVars, adding, timing, timed, answered, conn>>
    /\ UNCHANGED <<undecodable, es, clearing, turns, overlap>>

\* setupRecord throws on a query string that does not decode; for one record
\* of the snapshot that drops the whole event.
OnStart ==
    /\ Handled("start")
    /\ LET recs == Head(wire[es]).recs
           ids == {r.id : r \in recs} IN
        IF ids \cap undecodable = {}
        THEN StreamStart(recs) /\ UNCHANGED <<unseen, untold>>
        ELSE /\ unseen' = unseen \cup ids
             /\ untold' = untold \cup {r.id : r \in {x \in recs : x.timed}}
             /\ UNCHANGED listVars

\* A record at the front of the list; sorted and filtered by the timer.
OnNewRecord ==
    /\ Handled("new-record")
    /\ LET r == CHOOSE x \in Head(wire[es]).recs : TRUE IN
        IF r.id \in undecodable
        THEN unseen' = unseen \cup {r.id} /\ UNCHANGED listVars
        ELSE /\ recordList' = <<r>> \o recordList
             /\ Debounce(sorting)
             /\ UNCHANGED <<query, filtered, emitting, sidebarRecords, unseen>>
    /\ UNCHANGED untold

\* recordList.some stops at the first record with the id.
FirstOf(id) == CHOOSE i \in DOMAIN recordList : /\ recordList[i].id = id
                                                /\ \A j \in 1..i - 1 : recordList[j].id # id

\* inputSearch.indexOf('serverElapsed'), in exactly this case.
RefilterOnUpdate == query = "serverElapsed"

\* The first listed record with the id gets the time; the list is filtered
\* again only if the search asks for it in so many words.
OnUpdateRecord ==
    /\ Handled("update-record")
    /\ LET id == (CHOOSE x \in Head(wire[es]).recs : TRUE).id IN
        IF id \notin Listed
        THEN untold' = untold \cup {id} /\ UNCHANGED listVars
        ELSE /\ recordList' = [recordList EXCEPT ![FirstOf(id)].timed = TRUE]
             /\ \/ RefilterOnUpdate /\ filterRecords(recordList', query)
                \/ ~RefilterOnUpdate /\ UNCHANGED <<filtered, emitting>>
             /\ UNCHANGED <<query, sorting, sidebarRecords, untold>>
    /\ UNCHANGED unseen

\* Mutant: the oldest records are kept.
TrimmedOld(list) ==
    IF maxRecords > 0 /\ Len(list) > maxRecords
    THEN SubSeq(list, Len(list) - maxRecords + 1, Len(list)) ELSE list

\* The newest maxRecords of a sorted list.
Trimmed(list) ==
    IF maxRecords > 0 /\ Len(list) > maxRecords THEN SubSeq(list, 1, maxRecords) ELSE list

\* The timer that new records start.
SortAndTrim ==
    /\ Elapses(sorting)
    /\ recordList' = Trimmed(Sorted(recordList))
    /\ filterRecords(recordList', query)
    /\ UNCHANGED <<query, sidebarRecords>>
    /\ UNCHANGED <<streamVars, undecodable, es, clearing, turns, unseen, untold, overlap>>

\* The timer that a search starts: emitFilterRecords, onFilterRecords.
EmitFilterRecords ==
    /\ Elapses(emitting)
    /\ sidebarRecords' = filtered
    /\ UNCHANGED <<recordList, query, filtered, sorting>>
    /\ UNCHANGED <<streamVars, undecodable, es, clearing, turns, unseen, untold, overlap>>

\* The watcher of inputSearch.
TypeQuery(q) ==
    /\ turns < MaxTurns /\ query # q
    /\ turns' = turns + 1
    /\ query' = q
    /\ filterRecords(recordList, q)
    /\ UNCHANGED <<recordList, sorting, sidebarRecords>>
    /\ UNCHANGED <<streamVars, undecodable, es, clearing, unseen, untold, overlap>>

-----------------------------------------------------------------------------
\* The clear button: DELETE, and the page's own list when it is answered.
ClearRecords ==
    /\ clearing = "no" /\ turns < MaxTurns
    /\ clearing' = "asked"
    /\ turns' = turns + 1
    /\ UNCHANGED <<streamVars, undecodable, es, listVars, unseen, untold, overlap>>

\* The client serves this page's DELETE, or another page's.
ServeClear ==
    /\ ~panicked
    /\ RemoveAll
    /\ \/ clearing = "asked" /\ clearing' = "served" /\ UNCHANGED turns
       \/ turns < MaxTurns /\ turns' = turns + 1 /\ UNCHANGED clearing
    /\ UNCHANGED <<undecodable, es, listVars, unseen, untold, overlap>>

\* Records that were stored after the DELETE was served are wiped as well.
OnCleared ==
    /\ clearing = "served"
    /\ clearing' = "no"
    /\ StreamStart({})
    /\ unseen' = unseen \cup (records \ OnTheWay(es))
    /\ untold' = untold \cup answered
    /\ UNCHANGED <<streamVars, undecodable, es, turns, overlap>>

\* catchAll: a DELETE that fails changes nothing.
ClearFails ==
    /\ clearing = "asked"
    /\ clearing' = "no"
    /\ UNCHANGED <<streamVars, undecodable, es, listVars, turns, unseen, untold, overlap>>

-----------------------------------------------------------------------------
\* The records whose time is on its way to the page on connection c.
TimesOnTheWay(c) ==
    (timed \cap {listener[c][i].msg.id : i \in DOMAIN listener[c]})
    \cup UNION {{r.id : r \in {x \in wire[c][i].recs : x.timed}} : i \in DOMAIN wire[c]}

\* The connection is lost with what is on the wire; the EventSource makes a
\* new one, and its snapshot makes up for what was lost, if the page can use
\* it.  The client notices when Leave(c) is taken.
Reconnect ==
    /\ es + 1 \in Conns
    /\ conn[es] \in {"streaming", "left"}
    /\ turns < MaxTurns
    /\ turns' = turns + 1
    /\ es' = es + 1
    /\ untold' = untold \cup TimesOnTheWay(es)
    /\ UNCHANGED <<streamVars, undecodable, listVars, clearing, unseen, overlap>>

\* A handler finishes when the page is on another connection.
PageLeaves(c) ==
    /\ c < es
    /\ Leave(c)
    /\ UNCHANGED pageVars

\* A record's message the page's connection does not get: the broker does not
\* know its listener yet, or the listener is full.
MissedNow ==
    IF publishCh' # publishCh /\ (es \notin subs \/ es \in Events!Full)
    THEN {Head(publishCh).msg} ELSE {}

BrokerStep ==
    /\ Broke
    /\ unseen' = unseen \cup {m.id : m \in {x \in MissedNow : x.kind = "record"}}
    /\ untold' = untold \cup {m.id : m \in {x \in MissedNow : x.kind = "update"}}
    /\ UNCHANGED <<undecodable, es, listVars, clearing, turns, overlap>>

\* The page is told of all that is stored now.
Connects(c) ==
    /\ c = es
    /\ \/ Subscribe(c) /\ UNCHANGED <<unseen, untold, overlap>>
       \/ /\ SendStart(c)
          /\ unseen' = unseen \ records
          /\ untold' = untold \ records
          /\ overlap' = overlap \cup (records \cap OnTheWay(c))
    /\ UNCHANGED <<undecodable, es, listVars, clearing, turns>>

\* A new record that is forwarded as an update is not announced at all.
ForwardEvent(c) ==
    /\ Forward(c)
    /\ LET msg == Head(listener[c]).msg IN
        unseen' = IF c = es /\ msg.kind = "record" /\ IsUpdate(msg)
                  THEN unseen \cup {msg.id} ELSE unseen
    /\ UNCHANGED <<undecodable, es, listVars, clearing, turns, untold, overlap>>

Recorder ==
    /\ ~panicked
    /\ \/ Request
       \/ \E id \in Ids : AddRecord(id) \/ PublishRecord(id) \/ ServerElapsed(id) \/ PublishUpdate(id)
    /\ UNCHANGED pageVars

Next ==
    \/ Recorder
    \/ BrokerStep
    \/ \E c \in Conns : Connects(c) \/ ForwardEvent(c) \/ PageLeaves(c)
    \/ OnStart \/ OnNewRecord \/ OnUpdateRecord
    \/ SortAndTrim \/ EmitFilterRecords \/ \E q \in Queries : TypeQuery(q)
    \/ ClearRecords \/ ServeClear \/ OnCleared \/ ClearFails
    \/ Reconnect

Spec == Init /\ [][Next]_vars

-----------------------------------------------------------------------------
\* Nothing is on its way to the page and none of its timers runs.
PageQuiet ==
    /\ StreamQuiet(es)
    /\ ~sorting /\ ~emitting /\ clearing = "no"

\* Once all is quiet the page lists every stored record but those it never
\* heard of (the broker did not know its listener yet, or found it full, or
\* the record had its server time before its turn to be announced), those it
\* dropped for a query string that does not decode or for a clear that was
\* answered late, and those older than a full list.
ShownUnlessMissed ==
    PageQuiet =>
        \A id \in records \ (Listed \cup unseen) :
            /\ maxRecords > 0 /\ Len(recordList) >= maxRecords
            /\ \A other \in Listed : id < other

\* Once all is quiet a listed record whose server time the client knows shows
\* it, unless its update was lost like a record, came before the record, or
\* was lost with a connection and not made up for by the next one's snapshot.
TimedUnlessMissed ==
    PageQuiet =>
        \A id \in (Listed \cap timed) \ untold :
            \E i \in DOMAIN recordList : recordList[i] = [id |-> id, timed |-> TRUE]

\* A record is listed twice only if it was stored but not yet forwarded when
\* the snapshot was taken: connHandler subscribes before it takes it.
TwiceOnlyAroundSnapshot ==
    \A i, j \in DOMAIN recordList :
        i # j /\ recordList[i].id = recordList[j].id => recordList[i].id \in overlap

\* When no timer runs the dashboard has exactly the records the search lets
\* through now, unless it asks for the server's time in other letters than
\* those Sidebar looks for when an update comes.
ViewsAgree ==
    ~sorting /\ ~emitting =>
        \/ sidebarRecords = Matching(recordList, query)
        \/ query = "serverelapsed"

\* The broker implements a lossy feed that keeps the order.
InOrder == Events!InOrder

\* The broker brings the client down only for a page that left before its
\* subscription was taken.
PanicsOnlyOnEarlyLeave == Events!PanicsOnlyOnEarlyLeave
=============================================================================
