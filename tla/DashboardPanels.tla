--------------------------- MODULE DashboardPanels ---------------------------
(***************************************************************************)
(* What the dashboard shows of a list of records: its averages             *)
(* (Dashboard.js), its charts and tables (the panel*.js) and the colours   *)
(* of its charts (Chart.js).  Every panel keeps what it has computed, and  *)
(* computes it anew when it is told of another list; only two are told of  *)
(* a change within a record.                                               *)
(*                                                                         *)
(* A record is what RequestCodec's operators take, with the response's     *)
(* elapsed and serverElapsed, where 0 is left out of the JSON.             *)
(***************************************************************************)
EXTENDS RequestCodec, Listings

CONSTANTS
    TopSize,        \* how many paths and addresses are shown, 10
    PathsSize,      \* how many paths an address shows, 10
    PaletteSize     \* the colours of Chart.js, 17

ASSUME PanelsAssumption == TopSize \in Nat /\ PathsSize \in Nat /\ PaletteSize \in Nat \ {0}

VARIABLES
    panels,         \* what each panel has computed
    labelColors     \* of each chart that gets its colours from colorfy

panelVars == <<panels, labelColors>>

(* A column is what the records hold of something, by their places.        *)
Column(rs, Value(_)) == [i \in DOMAIN rs |-> Value(rs[i])]

\* The column of those records that have it.
ColumnWhere(rs, Has(_), Value(_)) == [i \in {j \in DOMAIN rs : Has(rs[j])} |-> Value(rs[i])]

Places(column, value) == {i \in DOMAIN column : column[i] = value}

Total(column, places) == FoldFunctionOnSet(+, 0, column, places)

\* Math.round of a quotient of natural numbers.
Rounded(sum, n) == (2 * sum + n) \div (2 * n)

Average(column, places) == Rounded(Total(column, places), Cardinality(places))

FirstOf(s, n) == SubSeq(s, 1, IF Len(s) < n THEN Len(s) ELSE n)

\* The values of a column, in the order they come up in.
Distinct(column) ==
    LET isFirst(i) == \A j \in DOMAIN column : j < i => column[j] # column[i]
        firsts == Ascending({i \in DOMAIN column : isFirst(i)})
    IN  [k \in DOMAIN firsts |-> column[firsts[k]]]

Counted(column, labels) ==
    [i \in DOMAIN labels |->
        [label |-> labels[i], count |-> Cardinality(Places(column, labels[i]))]]

Tally(column) == Counted(column, Distinct(column))

\* Array.prototype.sort by falling count is stable.
Top(counted, n) ==
    LET rows == DOMAIN counted
        order == Listing(rows, {p \in rows \X rows :
                     \/ counted[p[1]].count > counted[p[2]].count
                     \/ counted[p[1]].count = counted[p[2]].count /\ p[1] < p[2]})
    IN  FirstOf([k \in DOMAIN order |-> counted[order[k]]], n)

-----------------------------------------------------------------------------
Elapsed(r) == r.response.elapsed

ServerElapsed(r) == r.response.serverElapsed

\* Dashboard.processRecordsData
processRecordsData(rs) ==
    LET n == IF rs = <<>> THEN 1 ELSE Len(rs)
        Mean(column) == Rounded(Total(column, DOMAIN column), n)
    IN  [totalRecords |-> Len(rs),
         avgResponseTime |-> Mean(Column(rs, Elapsed)),
         avgServerTime |-> Mean(Column(rs, ServerElapsed))]

\* The content type is the header's part before ";".
TypeIn(header) ==
    IF header = {} THEN <<"no content-type">>
    ELSE LET v == CHOOSE x \in header : TRUE IN <<v.category, v.type>>

ContentType(r) == TypeIn(getHeader(r.response, "Content-Type", "content-type", {}))

ContentTypes(rs) == Tally(Column(rs, ContentType))

Encoding(r) == getHeader(r.response, "Content-Encoding", "content-encoding", "uncompressed")

EncodingTypes(rs) == Tally(Column(rs, Encoding))

Method(r) == r.request.method

Methods(rs) == Tally(Column(rs, Method))

\* A code of no known group is not counted: the reverse proxy's 999.
CodeGroups == <<1, 2, 3, 4, 5>>

CodeGroup(r) == r.response.code \div 100

Statuses(rs) == Counted(Column(rs, CodeGroup), CodeGroups)

\* ResponseTimeChart.getData
Slice(r) ==
    LET time == r.response.elapsed
    IN  IF time <= 100 THEN "0-100ms" ELSE IF time <= 500 THEN "101-500ms"
        ELSE IF time <= 1000 THEN "501-1000ms" ELSE IF time <= 2000 THEN "1-2s"
        ELSE IF time <= 5000 THEN "2-5s" ELSE "5s+"

Slices == <<"0-100ms", "101-500ms", "501-1000ms", "1-2s", "2-5s", "5s+">>

ResponseTimes(rs) == Counted(Column(rs, Slice), Slices)

\* A request that the page made comes from no address.
HasAddress(r) == r.request.remoteAddr # NoAddress

Ip(r) == parseAddress(r.request.remoteAddr)

HasIp(r) == HasAddress(r) /\ Ip(r) \notin {<<>>, <<"">>}

TopRemoteAddrs(rs) == Top(Tally(ColumnWhere(rs, HasIp, Ip)), TopSize)

Path(r) == r.request.path

\* TopPathsList.getData adds the times as they are: one that is left out
\* makes the average NaN, which stands here as -1.
TopPaths(rs) ==
    LET paths == Column(rs, Path)
        times == Column(rs, Elapsed)
        AvgTime(of) == IF \E i \in of : times[i] = 0 THEN -1 ELSE Average(times, of)
        top == Top(Tally(paths), TopSize)
    IN  [i \in DOMAIN top |-> [path |-> top[i].label, count |-> top[i].count,
                               avgTime |-> AvgTime(Places(paths, top[i].label))]]

\* A Content-Length that is not given counts as 0.
Size(r) == getHeader(r.response, "Content-Length", "content-length", 0)

HasRow(r) == HasAddress(r) /\ r.request.path # ""

\* RemoteAddressList.getData
RemoteAddresses(rs) ==
    LET ips == ColumnWhere(rs, HasRow, Ip)
        AddressRow(of) ==
            [paths |-> FirstOf(Distinct(Restrict(Column(rs, Path), of)), PathsSize),
             count |-> Cardinality(of),
             totalSize |-> Total(Column(rs, Size), of),
             avgResponseTime |-> Average(Column(rs, Elapsed), of),
             avgServerTime |-> Average(Column(rs, ServerElapsed), of)]
    IN  [ip \in Range(ips) |-> AddressRow(Places(ips, ip))]

\* What all of them show of rs.
PanelsOf(rs) ==
    [averages |-> processRecordsData(rs), contentTypes |-> ContentTypes(rs),
     encodingTypes |-> EncodingTypes(rs), methods |-> Methods(rs), statuses |-> Statuses(rs),
     responseTimes |-> ResponseTimes(rs), topRemoteAddrs |-> TopRemoteAddrs(rs),
     topPaths |-> TopPaths(rs), remoteAddresses |-> RemoteAddresses(rs)]

-----------------------------------------------------------------------------
Charts == {"contentTypes", "encodingTypes", "topRemoteAddrs"}

\* Mutant: a label has the colour of its place.
colorfyByPlace(colors, labels) ==
    [l \in ToSet(labels) |-> (SelectInSeq(labels, LAMBDA x : x = l) - 1) % PaletteSize]

\* A label that is new to the chart gets the next colour, and keeps it.
colorfy(colors, labels) ==
    LET fresh == {i \in DOMAIN labels : labels[i] \notin DOMAIN colors}
        Place(l) == CHOOSE i \in DOMAIN labels : labels[i] = l
        Taken(l) == Cardinality(DOMAIN colors) + Cardinality({i \in fresh : i < Place(l)})
    IN  [l \in DOMAIN colors \cup ToSet(labels) |->
            IF l \in DOMAIN colors THEN colors[l] ELSE Taken(l) % PaletteSize]

\* The panels show ps, and their charts go on from the colours given.
ShowPanels(ps, colors) ==
    /\ panels' = ps
    /\ labelColors' = [chart \in Charts |->
           colorfy(colors[chart], [i \in DOMAIN ps[chart] |-> ps[chart][i].label])]

\* mounted: every chart is new.
MountPanels(rs) == ShowPanels(PanelsOf(rs), [chart \in Charts |-> <<>>])

UnmountPanels == panels' = <<>> /\ labelColors' = <<>>

\* The watchers of records, for another list.
ReplacePanels(rs) == ShowPanels(PanelsOf(rs), labelColors)

\* Mutant: no panel is told of a change within a record.
UpdatePanelsNone(rs) == UNCHANGED panelVars

\* The deep watchers of records, for a list with another record's data.
UpdatePanels(rs) ==
    /\ panels' = [panels EXCEPT !.averages = processRecordsData(rs),
                                !.remoteAddresses = RemoteAddresses(rs)]
    /\ UNCHANGED labelColors

-----------------------------------------------------------------------------
\* The search that a click on a slice of the response times starts: the
\* records with an elapsed in the range, both ends with it (an external
\* library).  Units are dropped, and "5000ms-" has no upper end.
FoundBySlice(r, label) ==
    LET time == r.response.elapsed
        Between(from, to) == from <= time /\ time <= to
    IN  /\ time # 0
        /\ \/ label = "0-100ms" /\ Between(0, 100)
           \/ label = "101-500ms" /\ Between(101, 500)
           \/ label = "501-1000ms" /\ Between(501, 1000)
           \/ label = "1-2s" /\ Between(1000, 2000)
           \/ label = "2-5s" /\ Between(2000, 5000)
           \/ label = "5s+" /\ 5000 <= time
=============================================================================
