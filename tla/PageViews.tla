------------------------------ MODULE PageViews ------------------------------
(***************************************************************************)
(* What the page shows beside its list of records (main.js and its         *)
(* components): the dashboard while no record is selected, else the        *)
(* record's viewer, and the dialog that sends requests.                    *)
(*                                                                         *)
(* Selecting a record fetches its response body first; a replay that was   *)
(* asked for is selected when it arrives.  How records reach the list is   *)
(* SnifferPage's matter: here they arrive, are updated, and the list is    *)
(* copied to the dashboard some time later.                                *)
(***************************************************************************)
EXTENDS RecordItems, RequestEditor, DashboardPanels

CONSTANTS
    MaxId,          \* bound: the client's records
    Data,           \* what the records hold, by id
    MaxGestures     \* bound: what the user does

ASSUME ViewsAssumption ==
    /\ MaxId \in Nat \ {0} /\ MaxGestures \in Nat
    /\ DOMAIN Data = 1..MaxId /\ \A id \in 1..MaxId : Data[id].url \in Url

VARIABLES
    recordList,     \* the sidebar's objects, newest first
    sidebarRecords, \* main's copy, for the dashboard
    selectedRecord, \* the sidebar's
    viewed,         \* main's selectedRecord
    fetching,       \* the bodies that are fetched
    isFetched,      \* the objects that have theirs
    timed,          \* the objects that have a serverElapsed
    listeners,      \* how many replays wait for a 'stream.new-record'
    outstanding,    \* requests sent and not yet answered by a record
    arrived, gen,   \* the records there are, and how often they were listed
    gestures,       \* counts what the user does
    outcome,        \* history: what became of the last selection
    orphans,        \* history: requests that failed, or were never sent
    astray          \* history: replays met that should not have

listVars == <<recordList, sidebarRecords>>
selectVars == <<selectedRecord, viewed, fetching, isFetched, outcome>>
replayVars == <<listeners, outstanding, orphans, astray>>
worldVars == <<timed, arrived, gen>>
vars == <<listVars, selectVars, replayVars, worldVars, gestures, itemVars, editVars, panelVars>>

\* A record that is listed anew is another object.
Objects == [id : 1..MaxId, gen : Nat]

None == [id |-> 0, gen |-> 0]

-----------------------------------------------------------------------------
\* setupRecord, of what came as Data says.
Requests ==
    [id \in 1..MaxId |->
        LET d == Data[id]
        IN  decodeBody(decodeQueryParams(
                [method |-> d.method, path |-> d.path, url |-> d.url, queryParams |-> NoParams,
                 header |-> d.reqHeader, remoteAddr |-> d.remoteAddr,
                 body |-> btoa(Plain(d.reqBody)), b64Body |-> NoBody]))]

\* And, of the response, once its body is fetched what onItemSelected does.
Responses ==
    [id \in 1..MaxId |-> [hasBeenFetched \in BOOLEAN |-> [isTimed \in BOOLEAN |->
        LET d == Data[id]
        IN  decodeBody(
                [code |-> d.code, header |-> d.header, queryParams |-> NoParams, elapsed |-> d.elapsed,
                 serverElapsed |-> IF isTimed THEN 1 ELSE 0,
                 body |-> IF hasBeenFetched THEN btoa(Plain(d.body)) ELSE NoBody, b64Body |-> NoBody])]]]

View(o, fetched, timedObjects) ==
    [id |-> o, request |-> Requests[o.id],
     response |-> Responses[o.id][(o \in fetched)][(o \in timedObjects)]]

Viewed == View(viewed, isFetched, timed)

Views(list) == [i \in DOMAIN list |-> View(list[i], isFetched, timed)]

\* The page shows o, or the dashboard for None; objects change with it.
Shows(o) ==
    /\ viewed' = o
    /\ \/ /\ viewed = None /\ o = None
          /\ UNCHANGED <<itemVars, editVars, panelVars>>
       \/ /\ viewed = None /\ o # None
          /\ UnmountPanels /\ MountItems(View(o, isFetched', timed)) /\ UNCHANGED editVars
       \/ /\ viewed # None /\ o = None
          /\ MountPanels(Views(sidebarRecords)) /\ UnmountItems /\ DisposeEditor
       \/ /\ viewed # None /\ o # None
          /\ ItemsChange(Viewed, View(o, isFetched', timed))
          /\ RetargetEditor({View(o, isFetched', timed).request})
          /\ UNCHANGED panelVars

Gesture == gestures < MaxGestures /\ gestures' = gestures + 1

-----------------------------------------------------------------------------
\* onItemSelected.  Every record that comes to the page has a response.
onItemSelected(o, times) ==
    IF o = None \/ o \in isFetched
    THEN UNCHANGED <<fetching, isFetched>> /\ Shows(o)
    ELSE /\ fetching' = fetching \o [i \in 1..times |-> o]
         /\ UNCHANGED <<viewed, isFetched, itemVars, editVars, panelVars>>

\* showRecord of a record: also of the one that is selected, whose clientId
\* is compared with a number's clientId.
showRecord(o, times) ==
    /\ selectedRecord' = o
    /\ outcome' = "none"
    /\ onItemSelected(o, times)

Select(o) ==
    /\ Gesture /\ o \in ToSet(recordList)
    /\ showRecord(o, 1)
    /\ UNCHANGED <<listVars, replayVars, worldVars>>

\* showRecord(): nothing happens where the sidebar has no selection.
Deselect ==
    IF selectedRecord = None
    THEN UNCHANGED <<selectVars, itemVars, editVars, panelVars>>
    ELSE showRecord(None, 1)

DashboardButton ==
    /\ Gesture /\ selectedRecord # None
    /\ Deselect
    /\ UNCHANGED <<listVars, replayVars, worldVars>>

\* The body has come; there is none, or nobody answers; or the connection
\* breaks while it is read.
Answers == {"body", "none", "broken"}

\* Mutant: a record whose body could not be fetched is not shown.
FetchAnsweredOrNot(o, answer) ==
    IF answer = "body" THEN isFetched' = isFetched \cup {o} /\ Shows(o)
    ELSE UNCHANGED <<isFetched, viewed, itemVars, editVars, panelVars>>

\* onItemSelected goes on, with a body or without one: the record is shown,
\* whatever was selected in the meantime.  It does not go on where reading the
\* body fails.
FetchAnswered(o, answer) ==
    \/ /\ answer # "broken"
       /\ isFetched' = IF answer = "body" THEN isFetched \cup {o} ELSE isFetched
       /\ Shows(o)
    \/ /\ answer = "broken"
       /\ UNCHANGED <<isFetched, viewed, itemVars, editVars, panelVars>>

\* What that means for the record that is selected.
Outcome(o, answer) ==
    IF answer # "broken" THEN IF o = selectedRecord THEN "shown" ELSE "overtaken"
    ELSE IF o = selectedRecord /\ outcome = "none" THEN "failed" ELSE outcome

FetchEnds ==
    /\ \E i \in DOMAIN fetching, answer \in Answers :
           /\ FetchAnswered(fetching[i], answer)
           /\ outcome' = Outcome(fetching[i], answer)
           /\ fetching' = RemoveAt(fetching, i)
    /\ UNCHANGED <<selectedRecord, listVars, replayVars, worldVars, gestures>>

-----------------------------------------------------------------------------
\* Mutant: a listener that was called stays.
ListenersLeftAll(n) == n

\* Each replay's listener removes itself while EventBus goes through the
\* array it is in: the one behind it is not called.
ListenersLeft(n) == n \div 2

\* sendRecord waits for the record of what it sends.
sendRecord(isSent) ==
    /\ listeners' = listeners + 1
    /\ IF isSent THEN outstanding' = outstanding + 1 /\ UNCHANGED orphans
                 ELSE orphans' = orphans + 1 /\ UNCHANGED outstanding
    /\ astray' = (astray \/ listeners >= 2)

Replay ==
    /\ Gesture /\ viewed # None
    /\ sendRecord(TRUE)
    /\ UNCHANGED <<listVars, selectVars, worldVars, itemVars, editVars, panelVars>>

\* The request fails, or the record is no longer stored: catchAll.
ReplayFails ==
    /\ outstanding > 0
    /\ outstanding' = outstanding - 1
    /\ orphans' = orphans + 1
    /\ UNCHANGED <<listeners, astray, listVars, selectVars, worldVars, gestures, itemVars, editVars, panelVars>>

\* 'stream.new-record': a request of somebody else, the answer of one of this
\* page's, or a replay of another page.
NewRecord(kind) ==
    /\ arrived < MaxId
    /\ arrived' = arrived + 1
    /\ LET o == [id |-> arrived + 1, gen |-> gen] IN
        /\ recordList' = <<o>> \o recordList
        /\ outstanding' = IF kind = "answer" THEN outstanding - 1 ELSE outstanding
        /\ astray' = (astray \/ (kind = "foreign" /\ listeners > 0))
        /\ IF kind # "request" /\ listeners > 0
           THEN /\ listeners' = ListenersLeft(listeners)
                /\ showRecord(o, listeners - listeners \div 2)
           ELSE UNCHANGED <<listeners, selectVars, itemVars, editVars, panelVars>>
    /\ UNCHANGED <<sidebarRecords, orphans, timed, gen, gestures>>

\* 'stream.update-record'
UpdateRecord(o) ==
    /\ o \in ToSet(recordList) \ timed
    /\ timed' = timed \cup {o}
    /\ IF viewed = None
       THEN /\ IF o \in ToSet(sidebarRecords)
               THEN UpdatePanels([i \in DOMAIN sidebarRecords |->
                                     View(sidebarRecords[i], isFetched, timed')])
               ELSE UNCHANGED panelVars
            /\ UNCHANGED itemVars
       ELSE IF o = viewed THEN ItemsChange(Viewed, View(o, isFetched, timed')) /\ UNCHANGED panelVars
       ELSE UNCHANGED <<itemVars, panelVars>>
    /\ UNCHANGED <<listVars, selectVars, replayVars, arrived, gen, gestures, editVars>>

\* onFilterRecords, after the sidebar's timers.
FilterRecords ==
    /\ sidebarRecords # recordList
    /\ sidebarRecords' = recordList
    /\ IF viewed = None THEN ReplacePanels(Views(recordList)) ELSE UNCHANGED panelVars
    /\ UNCHANGED <<recordList, selectVars, replayVars, worldVars, gestures, itemVars, editVars>>

\* 'stream.start': the records are cleared, or listed anew after a
\* reconnection; nothing is selected any more.
StreamStart(cleared) ==
    /\ Gesture
    /\ gen' = gen + 1
    /\ recordList' = IF cleared THEN <<>> ELSE [i \in DOMAIN recordList |-> [recordList[i] EXCEPT !.gen = gen + 1]]
    /\ timed' = timed \cup (IF cleared THEN {} ELSE {[o EXCEPT !.gen = gen + 1] : o \in timed \cap ToSet(recordList)})
    /\ Deselect
    /\ UNCHANGED <<sidebarRecords, replayVars, arrived>>

-----------------------------------------------------------------------------
\* The user in the viewer.
UseViewer ==
    /\ Gesture /\ viewed # None
    /\ \/ \E half \in Halves, tab \in {"raw", "header", "param", "body", "preview"} :
              ClickTab(half, tab, Viewed[half])
       \/ /\ isPrettyEnabled(Viewed.response)
          /\ \E tab \in {"raw", "pretty"} : changeTab(tab, Viewed.response.body.text)
    /\ UNCHANGED <<listVars, selectVars, replayVars, worldVars, editVars, panelVars>>

ViewerTimer ==
    /\ viewed # None
    /\ LoadingEnds(Viewed.response.body.text)
    /\ UNCHANGED <<listVars, selectVars, replayVars, worldVars, gestures, editVars, panelVars>>

\* The user in the dialog.
UseEditor ==
    /\ Gesture
    /\ \/ ShowEditor("sidebar", {})
       \/ viewed # None /\ ShowEditor("viewer", {Viewed.request})
       \/ \E url \in Urls : EditUrl(url)
       \/ \E i \in DOMAIN keyValuePairs : RemoveKey(i) \/ \E pair \in Pairs : EditPair(i, pair)
       \/ AddKey \/ \E text \in Bodies : EditBody(text)
       \/ Cancel
    /\ UNCHANGED <<listVars, selectVars, replayVars, worldVars, itemVars, panelVars>>

SubmitEditor ==
    /\ Gesture
    /\ \/ Submit /\ sendRecord(CanEncode(Submitted))
       \/ SubmitThrows /\ UNCHANGED replayVars
    /\ UNCHANGED <<listVars, selectVars, worldVars, itemVars, panelVars>>

EditorTimer ==
    /\ EmitModalEvent \/ CodeLoads
    /\ UNCHANGED <<listVars, selectVars, replayVars, worldVars, gestures, itemVars, panelVars>>

Init ==
    /\ recordList = <<>> /\ sidebarRecords = <<>>
    /\ selectedRecord = None /\ viewed = None
    /\ fetching = <<>> /\ isFetched = {} /\ timed = {}
    /\ listeners = 0 /\ outstanding = 0
    /\ arrived = 0 /\ gen = 0 /\ gestures = 0
    /\ outcome = "none" /\ orphans = 0 /\ astray = FALSE
    /\ tabs = [half \in Halves |-> "header"] /\ touched = {}
    /\ editorTab = "raw" /\ prettyCode = {} /\ editorValue = Raw("")
    /\ loading = FALSE /\ prettyEarly = FALSE
    /\ EditorInit
    /\ panels = PanelsOf(<<>>)
    /\ labelColors = [chart \in Charts |-> <<>>]

Next ==
    \/ \E o \in ToSet(recordList) : Select(o) \/ UpdateRecord(o)
    \/ DashboardButton \/ FetchEnds
    \/ Replay \/ ReplayFails
    \/ \E kind \in {"request", "foreign"} : NewRecord(kind)
    \/ outstanding > 0 /\ NewRecord("answer")
    \/ FilterRecords
    \/ \E cleared \in BOOLEAN : StreamStart(cleared)
    \/ UseViewer \/ ViewerTimer
    \/ UseEditor \/ SubmitEditor \/ EditorTimer

Spec == Init /\ [][Next]_vars

-----------------------------------------------------------------------------
\* When no body is being fetched any more the page shows what the sidebar has
\* selected, whichever bodies were on their way before and during its fetch,
\* unless another one was shown after it, or it could not be read.
ViewFollowsSelection ==
    fetching = <<>> /\ outcome \notin {"overtaken", "failed"} => viewed = selectedRecord

\* As many listeners wait as there are requests of this page to be answered,
\* and one for every request that never will be: each replay that arrives
\* takes exactly one with it.  This is so as long as no other page's replay
\* met a listener, and no three of them waited at once.
ListenersMatch == ~astray => listeners = outstanding + orphans

\* The editor of the response's body shows the body of the record or the
\* placeholder, never another one's.  Once the timer has ended it is the body,
\* raw or beautified as the tab says, unless Pretty was asked for earlier.
EditorShowsCode ==
    LET raw == Raw(Viewed.response.body.text)
    IN  /\ editorValue.text \in {raw.text, LoadingText}
        /\ ~loading /\ ~prettyEarly =>
               editorValue = IF editorTab = "raw" THEN raw ELSE beautify(raw)

\* The tab that is shown is one the item has, but for the first item
\* of a viewer, for which no tab is chosen.
TabAvailable == \A half \in touched : Contains(availableTabs(Viewed[half]), tabs[half])

\* The viewer shows the record it is given, whatever was shown and chosen
\* before: the tabs of both halves, and the response's body.
ViewerCurrent == viewed # None => EditorShowsCode /\ TabAvailable

\* The dashboard's panels show what they would show if they were made anew.
PanelsCurrent == viewed = None => panels = PanelsOf(Views(sidebarRecords))

\* As long as the dashboard is shown a label keeps its colour, and two labels
\* of a chart have the same one only where there are too few.
ColorsKept ==
    [][viewed = None /\ viewed' = None =>
        \A chart \in Charts :
            /\ \A l \in DOMAIN labelColors[chart] : labelColors'[chart][l] = labelColors[chart][l]
            /\ Cardinality(DOMAIN labelColors'[chart]) <= PaletteSize => IsInjective(labelColors'[chart])
      ]_vars
=============================================================================
