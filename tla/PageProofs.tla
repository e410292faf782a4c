----------------------------- MODULE PageProofs -----------------------------
(***************************************************************************)
(* Theorems about PageViews and the modules it is made of: the selection   *)
(* of records, the replays, the viewer, the dialog and the panels.         *)
(***************************************************************************)
EXTENDS PageViews, ListingProofs, FiniteSetTheorems, SequenceTheorems, TLAPS

-----------------------------------------------------------------------------
(* The slices of the response times.                                       *)

LEMMA Labels ==
    ToSet(Slices) = {"0-100ms", "101-500ms", "501-1000ms", "1-2s", "2-5s", "5s+"}
<1>1. DOMAIN Slices = 1..6
  BY DEF Slices
<1> QED BY <1>1 DEF Slices, ToSet

(* A click on a slice of the response times finds every record the slice    *)
(* counts, but for one whose time is left out of the JSON.                  *)
THEOREM SliceFindsItsOwn ==
    ASSUME NEW r, r.response.elapsed \in Nat \ {0}
    PROVE  FoundBySlice(r, Slice(r))
BY DEF FoundBySlice, Slice

(* It finds no other records than those on the border to the slice before.  *)
THEOREM SliceFindsNoOther ==
    ASSUME NEW r, r.response.elapsed \in Nat, NEW label \in ToSet(Slices),
           FoundBySlice(r, label), Slice(r) # label
    PROVE  r.response.elapsed \in {1000, 2000, 5000}
BY Labels DEF FoundBySlice, Slice

-----------------------------------------------------------------------------
(* The selection.                                                          *)

\* The objects there may be by now.
Current == {o \in Objects : o.gen <= gen}

SelectionShape ==
    /\ gen \in Nat /\ arrived \in 0..MaxId
    /\ recordList \in Seq(Current) /\ fetching \in Seq(Current)
    /\ selectedRecord \in Current \cup {None} /\ viewed \in Current \cup {None}
    /\ outcome \in {"none", "shown", "overtaken", "failed"}

\* A selection that nothing came of yet is shown already, or its body is on
\* its way.
SelectionInv ==
    /\ outcome = "none" => \/ viewed = selectedRecord
                           \/ \E i \in DOMAIN fetching : fetching[i] = selectedRecord
    /\ outcome = "shown" => viewed = selectedRecord

\* The replays that wait, and the requests they wait for.
ListenersShape == listeners \in Nat /\ outstanding \in Nat /\ orphans \in Nat

\* Two at most wait as long as nothing went astray.
ListenersInv == ~astray => listeners = outstanding + orphans /\ listeners <= 2

LEMMA RemovedAt ==
    ASSUME NEW S, NEW s \in Seq(S), NEW i \in DOMAIN s
    PROVE  /\ RemoveAt(s, i) \in Seq(S)
           /\ Len(RemoveAt(s, i)) = Len(s) - 1
           /\ \A j \in DOMAIN RemoveAt(s, i) :
                  \E k \in DOMAIN s : RemoveAt(s, i)[j] = s[k]
           /\ \A k \in DOMAIN s \ {i} :
                  \E j \in DOMAIN RemoveAt(s, i) : RemoveAt(s, i)[j] = s[k]
<1> DEFINE a == SubSeq(s, 1, i - 1)
           b == SubSeq(s, i + 1, Len(s))
<1>1. a \in Seq(S) /\ Len(a) = i - 1 /\ \A j \in 1..i - 1 : a[j] = s[j]
  OBVIOUS
<1>2. b \in Seq(S) /\ Len(b) = Len(s) - i /\ \A j \in 1..Len(s) - i : b[j] = s[i + j]
  OBVIOUS
<1>3. RemoveAt(s, i) = a \o b
  BY DEF RemoveAt
<1> HIDE DEF a, b
<1>4. a \o b \in Seq(S) /\ Len(a \o b) = Len(s) - 1
  BY <1>1, <1>2
<1>5. ASSUME NEW j \in 1..Len(s) - 1
      PROVE  \E k \in DOMAIN s : (a \o b)[j] = s[k]
  <2>1. CASE j <= i - 1
    <3>1. j \in 1..i - 1 /\ j \in DOMAIN s /\ (a \o b)[j] = a[j]
      BY <1>1, <1>2, <2>1
    <3>2. a[j] = s[j]
      BY <1>1, <3>1
    <3> QED BY <3>1, <3>2, Zenon
  <2>2. CASE j > i - 1
    <3>1. (a \o b)[j] = b[j - (i - 1)]
      BY <1>1, <1>2, <2>2
    <3>2. j - (i - 1) \in 1..Len(s) - i
      BY <2>2
    <3>3. j + 1 \in DOMAIN s /\ i + (j - (i - 1)) = j + 1
      BY <2>2
    <3>4. b[j - (i - 1)] = s[j + 1]
      BY <1>2, <3>2, <3>3
    <3> QED BY <3>1, <3>3, <3>4, Zenon
  <2>3. j <= i - 1 \/ j > i - 1
    OBVIOUS
  <2> QED BY <2>1, <2>2, <2>3, Zenon
<1>6. DOMAIN (a \o b) = 1..Len(s) - 1
  BY <1>4
<1>7. ASSUME NEW k \in DOMAIN s \ {i}
      PROVE  \E j \in 1..Len(s) - 1 : (a \o b)[j] = s[k]
  <2>1. CASE k <= i - 1
    <3>1. k \in 1..Len(s) - 1 /\ (a \o b)[k] = a[k]
      BY <1>1, <1>2, <2>1
    <3> QED BY <1>1, <2>1, <3>1
  <2>2. CASE k > i
    <3>0. PICK j \in 1..Len(s) - 1 : j = k - 1 /\ j > i - 1
      BY <2>2
    <3>1. (a \o b)[j] = b[j - (i - 1)]
      BY <1>1, <1>2, <3>0
    <3>2. j - (i - 1) \in 1..Len(s) - i /\ i + (j - (i - 1)) = k
      BY <2>2, <3>0
    <3>3. b[j - (i - 1)] = s[k]
      BY <1>2, <3>2
    <3> QED BY <3>1, <3>3, Zenon
  <2>3. k <= i - 1 \/ k > i
    OBVIOUS
  <2> QED BY <2>1, <2>2, <2>3, Zenon
<1> QED BY <1>3, <1>4, <1>5, <1>6, <1>7

LEMMA CurrentGrows ==
    ASSUME gen \in Nat, gen' = gen \/ gen' = gen + 1
    PROVE  gen' \in Nat /\ Current \subseteq Current' /\ Seq(Current) \subseteq Seq(Current')
<1>1. gen' \in Nat /\ Current \subseteq Current'
  BY DEF Current, Objects
<1> QED BY <1>1

LEMMA ShowRecordKeeps ==
    ASSUME SelectionShape, SelectionInv, NEW o \in Current' \cup {None}, NEW times \in Nat \ {0},
           showRecord(o, times), gen' = gen \/ gen' = gen + 1
    PROVE  /\ fetching' \in Seq(Current')
           /\ selectedRecord' \in Current' \cup {None} /\ viewed' \in Current' \cup {None}
           /\ outcome' \in {"none", "shown", "overtaken", "failed"} /\ SelectionInv'
<1>1. Current \subseteq Current' /\ fetching \in Seq(Current') /\ viewed \in Current' \cup {None}
  BY CurrentGrows DEF SelectionShape
<1>2. selectedRecord' = o /\ outcome' = "none"
  BY DEF showRecord
<1>3. CASE o = None \/ o \in isFetched
  <2>1. fetching' = fetching /\ viewed' = o
    BY <1>3, Zenon DEF showRecord, onItemSelected, Shows
  <2> QED BY <1>1, <1>2, <2>1 DEF SelectionInv
<1>4. CASE ~(o = None \/ o \in isFetched)
  <2> DEFINE more == [i \in 1..times |-> o]
  <2>1. fetching' = fetching \o more /\ viewed' = viewed
    BY <1>4, Zenon DEF showRecord, onItemSelected
  <2>2. more \in Seq(Current') /\ Len(more) = times /\ more[1] = o
    BY <1>4
  <2> HIDE DEF more
  <2>3. /\ fetching' \in Seq(Current')
        /\ Len(fetching) + 1 \in DOMAIN fetching' /\ fetching'[Len(fetching) + 1] = o
    BY <1>1, <2>1, <2>2
  <2> QED BY <1>1, <1>2, <2>1, <2>3 DEF SelectionInv
<1> QED BY <1>3, <1>4

LEMMA SelectionStep ==
    ASSUME SelectionShape, SelectionInv, ListenersShape, [Next]_vars
    PROVE  SelectionShape' /\ SelectionInv'
<1> USE DEF listVars, selectVars, replayVars, worldVars
<1>0. gen \in Nat /\ arrived \in 0..MaxId /\ recordList \in Seq(Current)
      /\ MaxId \in Nat
  BY ViewsAssumption DEF SelectionShape
<1>s. ASSUME gen' = gen PROVE Current' = Current
  BY <1>s DEF Current
<1>q. ASSUME UNCHANGED <<recordList, selectVars, arrived, gen>>
      PROVE  SelectionShape' /\ SelectionInv'
  BY <1>q, Zenon DEF SelectionShape, SelectionInv, Current
<1>w. ASSUME UNCHANGED <<recordList, arrived, gen>>, NEW o \in Current \cup {None},
             NEW times \in Nat \ {0}, showRecord(o, times)
      PROVE  SelectionShape' /\ SelectionInv'
  BY <1>w, <1>0, <1>s, ShowRecordKeeps DEF SelectionShape
<1>1. ASSUME NEW o \in ToSet(recordList), Select(o)
      PROVE  SelectionShape' /\ SelectionInv'
  <2>1. o \in Current
    BY <1>0 DEF ToSet
  <2> QED BY <1>1, <1>w, <2>1 DEF Select
<1>2. CASE \E o \in ToSet(recordList) : UpdateRecord(o)
  BY <1>2, <1>q, Zenon DEF UpdateRecord
<1>3. CASE DashboardButton
  BY <1>3, <1>w DEF DashboardButton, Deselect
<1>4. CASE FetchEnds
  <2>1. PICK i \in DOMAIN fetching, answer \in Answers :
            /\ FetchAnswered(fetching[i], answer)
            /\ outcome' = Outcome(fetching[i], answer)
            /\ fetching' = RemoveAt(fetching, i)
    BY <1>4, Zenon DEF FetchEnds
  <2>2. viewed' = IF answer = "broken" THEN viewed ELSE fetching[i]
    BY <2>1, Zenon DEF FetchAnswered, Shows
  <2>3. UNCHANGED <<recordList, selectedRecord, arrived, gen>> /\ Current' = Current
    BY <1>4, <1>s, Zenon DEF FetchEnds
  <2>4. fetching \in Seq(Current) /\ fetching[i] \in Current
    BY DEF SelectionShape
  <2>5. /\ fetching' \in Seq(Current)
        /\ \A k \in DOMAIN fetching \ {i} : \E j \in DOMAIN fetching' : fetching'[j] = fetching[k]
    BY <2>1, <2>4, RemovedAt
  <2>6. SelectionShape'
    BY <2>1, <2>2, <2>3, <2>4, <2>5 DEF SelectionShape, Outcome
  <2>7. CASE answer # "broken"
    BY <2>1, <2>2, <2>3, <2>6, <2>7, Zenon DEF SelectionInv, Outcome
  <2>8. CASE answer = "broken"
    <3>1. CASE fetching[i] = selectedRecord /\ outcome = "none"
      BY <2>1, <2>6, <2>8, <3>1 DEF SelectionInv, Outcome
    <3>2. CASE ~(fetching[i] = selectedRecord /\ outcome = "none")
      <4>1. outcome' = outcome /\ viewed' = viewed
        BY <2>1, <2>2, <2>8, <3>2, Zenon DEF Outcome
      <4>2. \A k \in DOMAIN fetching : fetching[k] = selectedRecord /\ outcome = "none" =>
                \E j \in DOMAIN fetching' : fetching'[j] = selectedRecord
        BY <2>5, <3>2
      <4> QED BY <2>3, <2>6, <4>1, <4>2, Zenon DEF SelectionInv
    <3> QED BY <3>1, <3>2
  <2> QED BY <2>6, <2>7, <2>8
<1>5. CASE Replay \/ ReplayFails \/ FilterRecords
  BY <1>5, <1>q, Zenon DEF Replay, ReplayFails, FilterRecords
<1>6. ASSUME NEW kind \in {"request", "foreign", "answer"}, NewRecord(kind)
      PROVE  SelectionShape' /\ SelectionInv'
  <2> DEFINE o == [id |-> arrived + 1, gen |-> gen]
  <2>1. o \in Current /\ arrived + 1 \in 0..MaxId /\ arrived' = arrived + 1 /\ gen' = gen
        /\ recordList' = <<o>> \o recordList
    BY <1>6, <1>0 DEF NewRecord, Current, Objects
  <2>2. recordList' \in Seq(Current') /\ Current' = Current
    BY <2>1, <1>0, <1>s
  <2>3. CASE kind # "request" /\ listeners > 0
    <3>1. showRecord(o, listeners - listeners \div 2)
      BY <1>6, <2>3, Zenon DEF NewRecord
    <3>2. listeners - listeners \div 2 \in Nat \ {0}
      BY <2>3 DEF ListenersShape
    <3> HIDE DEF o
    <3> QED BY <2>1, <2>2, <3>1, <3>2, ShowRecordKeeps DEF SelectionShape
  <2>4. CASE ~(kind # "request" /\ listeners > 0)
    <3>1. UNCHANGED selectVars
      BY <1>6, <2>4, Zenon DEF NewRecord
    <3> QED BY <2>1, <2>2, <3>1 DEF SelectionShape, SelectionInv
  <2> QED BY <2>3, <2>4
<1>7. ASSUME NEW cleared \in BOOLEAN, StreamStart(cleared)
      PROVE  SelectionShape' /\ SelectionInv'
  <2>1. gen' = gen + 1 /\ arrived' = arrived
    BY <1>7, Zenon DEF StreamStart
  <2>2. Current \subseteq Current' /\ Seq(Current) \subseteq Seq(Current') /\ gen' \in Nat
    BY <2>1, <1>0, CurrentGrows
  <2>3. recordList' \in Seq(Current')
    <3>1. \A i \in DOMAIN recordList : [recordList[i] EXCEPT !.gen = gen + 1] \in Current'
      BY <1>0, <2>1 DEF Current, Objects
    <3>2. CASE cleared
      BY <3>2, <1>7 DEF StreamStart
    <3>3. CASE ~cleared
      <4>1. recordList' = [i \in DOMAIN recordList |-> [recordList[i] EXCEPT !.gen = gen + 1]]
        BY <3>3, <1>7 DEF StreamStart
      <4>2. DOMAIN recordList = 1..Len(recordList) /\ Len(recordList) \in Nat
        BY <1>0
      <4> QED BY <3>1, <4>1, <4>2
    <3> QED BY <3>2, <3>3
  <2>4. CASE selectedRecord = None
    <3>1. UNCHANGED selectVars
      BY <1>7, <2>4, Zenon DEF StreamStart, Deselect
    <3>2. SelectionInv'
      BY <3>1, Zenon DEF SelectionInv
    <3>3. SelectionShape'
      <4>1. /\ fetching' \in Seq(Current') /\ outcome' \in {"none", "shown", "overtaken", "failed"}
            /\ selectedRecord' \in Current' \cup {None} /\ viewed' \in Current' \cup {None}
        BY <2>2, <3>1 DEF SelectionShape
      <4> QED BY <1>0, <2>1, <2>2, <2>3, <4>1 DEF SelectionShape
    <3> QED BY <3>2, <3>3
  <2>5. CASE selectedRecord # None
    <3>1. showRecord(None, 1)
      BY <1>7, <2>5, Zenon DEF StreamStart, Deselect
    <3>2. None \in Current' \cup {None} /\ 1 \in Nat \ {0}
      OBVIOUS
    <3>3. /\ fetching' \in Seq(Current')
          /\ selectedRecord' \in Current' \cup {None} /\ viewed' \in Current' \cup {None}
          /\ outcome' \in {"none", "shown", "overtaken", "failed"} /\ SelectionInv'
      BY <2>1, <3>1, <3>2, ShowRecordKeeps, Zenon
    <3> QED BY <1>0, <2>1, <2>2, <2>3, <3>3 DEF SelectionShape
  <2> QED BY <2>4, <2>5
<1>8. CASE UseViewer \/ ViewerTimer \/ UseEditor \/ SubmitEditor \/ EditorTimer
  BY <1>8, <1>q, Zenon DEF UseViewer, ViewerTimer, UseEditor, SubmitEditor, EditorTimer
<1>9. CASE UNCHANGED vars
  BY <1>9, <1>q, Zenon DEF vars
<1> QED BY <1>1, <1>2, <1>3, <1>4, <1>5, <1>6, <1>7, <1>8, <1>9, Zenon DEF Next

LEMMA ListenersStep ==
    ASSUME ListenersShape, ListenersInv, [Next]_vars
    PROVE  ListenersShape' /\ ListenersInv'
<1> USE DEF listVars, selectVars, replayVars, worldVars
<1>q. ASSUME UNCHANGED replayVars
      PROVE  ListenersShape' /\ ListenersInv'
  BY <1>q DEF ListenersShape, ListenersInv
<1>w. ASSUME NEW isSent \in BOOLEAN, sendRecord(isSent)
      PROVE  ListenersShape' /\ ListenersInv'
  <2>1. /\ listeners' = listeners + 1
        /\ \/ outstanding' = outstanding + 1 /\ orphans' = orphans
           \/ orphans' = orphans + 1 /\ outstanding' = outstanding
    BY <1>w, Zenon DEF sendRecord
  <2>2. ListenersShape'
    BY <2>1 DEF ListenersShape
  <2>3. ASSUME ~astray' PROVE listeners' = outstanding' + orphans' /\ listeners' <= 2
    <3>1. ~astray /\ ~(listeners >= 2)
      BY <1>w, <2>3, Zenon DEF sendRecord
    <3> QED BY <2>1, <3>1 DEF ListenersShape, ListenersInv
  <2> QED BY <2>2, <2>3, Zenon DEF ListenersInv
<1>1. CASE \E o \in ToSet(recordList) : Select(o) \/ UpdateRecord(o)
  BY <1>1, <1>q, Zenon DEF Select, UpdateRecord
<1>2. CASE DashboardButton \/ FetchEnds \/ FilterRecords
  BY <1>2, <1>q, Zenon DEF DashboardButton, FetchEnds, FilterRecords
<1>3. CASE Replay
  BY <1>3, <1>w DEF Replay
<1>4. CASE ReplayFails
  BY <1>4 DEF ReplayFails, ListenersShape, ListenersInv
<1>5. ASSUME NEW kind \in {"request", "foreign", "answer"}, NewRecord(kind),
             kind = "answer" => outstanding > 0
      PROVE  ListenersShape' /\ ListenersInv'
  <2>1. /\ outstanding' = IF kind = "answer" THEN outstanding - 1 ELSE outstanding
        /\ astray' = (astray \/ (kind = "foreign" /\ listeners > 0))
        /\ orphans' = orphans
    BY <1>5, Zenon DEF NewRecord
  <2>2. listeners' = IF kind # "request" /\ listeners > 0 THEN listeners \div 2 ELSE listeners
    BY <1>5, Zenon DEF NewRecord, ListenersLeft
  <2>3. ListenersShape'
    BY <1>5, <2>1, <2>2 DEF ListenersShape
  <2>4. ASSUME ~astray' PROVE listeners' = outstanding' + orphans' /\ listeners' <= 2
    <3>0. ~astray /\ ~(kind = "foreign" /\ listeners > 0)
      BY <2>1, <2>4, Zenon
    <3>1. listeners = outstanding + orphans /\ listeners \in 0..2
      BY <3>0 DEF ListenersShape, ListenersInv
    <3>2. 0 \div 2 = 0 /\ 1 \div 2 = 0 /\ 2 \div 2 = 1
      OBVIOUS
    <3> QED BY <1>5, <2>1, <2>2, <3>0, <3>1, <3>2 DEF ListenersShape
  <2> QED BY <2>3, <2>4 DEF ListenersInv
<1>6. CASE \E cleared \in BOOLEAN : StreamStart(cleared)
  BY <1>6, <1>q, Zenon DEF StreamStart
<1>7. CASE UseViewer \/ ViewerTimer \/ UseEditor \/ EditorTimer
  BY <1>7, <1>q, Zenon DEF UseViewer, ViewerTimer, UseEditor, EditorTimer
<1>8. CASE SubmitEditor
  <2>1. CanEncode(Submitted) \in BOOLEAN
    BY Zenon DEF CanEncode
  <2>2. CASE sendRecord(CanEncode(Submitted))
    BY <1>w, <2>1, <2>2, Zenon
  <2>3. CASE UNCHANGED replayVars
    BY <1>q, <2>3, Zenon
  <2> QED BY <1>8, <2>2, <2>3, Zenon DEF SubmitEditor
<1>9. CASE UNCHANGED vars
  BY <1>9, <1>q, Zenon DEF vars
<1> QED BY <1>1, <1>2, <1>3, <1>4, <1>5, <1>6, <1>7, <1>8, <1>9, Zenon DEF Next

LEMMA SelectionInit ==
    Init => SelectionShape /\ SelectionInv /\ ListenersShape /\ ListenersInv
<1> SUFFICES ASSUME Init
             PROVE  SelectionShape /\ SelectionInv /\ ListenersShape /\ ListenersInv
  OBVIOUS
<1>1. /\ recordList = <<>> /\ selectedRecord = None /\ viewed = None /\ fetching = <<>>
      /\ listeners = 0 /\ outstanding = 0 /\ orphans = 0 /\ arrived = 0 /\ gen = 0
      /\ outcome = "none"
  BY Zenon DEF Init
<1>2. SelectionShape
  <2>1. <<>> \in Seq(Current) /\ 0 \in 0..MaxId
    BY ViewsAssumption
  <2> QED BY <1>1, <2>1 DEF SelectionShape
<1> QED BY <1>1, <1>2 DEF SelectionInv, ListenersShape, ListenersInv

LEMMA SelectionHolds == Spec => [](SelectionShape /\ SelectionInv /\ ListenersShape /\ ListenersInv)
BY SelectionInit, SelectionStep, ListenersStep, PTL DEF Spec

(* When no body is being fetched any more the page shows what the sidebar    *)
(* has selected, also where other bodies came before it, in any order, or    *)
(* its own did not come.  The two ways it does not are onItemSelected's: it  *)
(* shows what it fetched whatever is selected by then, and nothing where     *)
(* reading the body fails.                                                   *)
THEOREM ViewFollowsHolds == Spec => []ViewFollowsSelection
<1>1. SelectionShape /\ SelectionInv => ViewFollowsSelection
  <2> SUFFICES ASSUME SelectionInv, SelectionShape, fetching = <<>>,
                      outcome \notin {"overtaken", "failed"}
               PROVE  viewed = selectedRecord
    BY DEF ViewFollowsSelection
  <2>1. DOMAIN fetching = {}
    OBVIOUS
  <2> QED BY <2>1 DEF SelectionInv, SelectionShape
<1> QED BY <1>1, SelectionHolds, PTL

(* As many listeners of sendRecord wait as there are requests of this page  *)
(* to be answered, and one more for every request that failed: EventBus.on  *)
(* comes before the request, and nothing takes the listener back.  This is  *)
(* so as long as no other page's replay met one, and no three of them       *)
(* waited at once.                                                          *)
THEOREM ListenersHold == Spec => []ListenersMatch
<1>1. ListenersInv => ListenersMatch
  BY Zenon DEF ListenersInv, ListenersMatch
<1> QED BY <1>1, SelectionHolds, PTL

-----------------------------------------------------------------------------
(* The dialog.                                                             *)

\* What the page's steps do to the dialog.
EditorMoves ==
    \/ \E id \in 1..MaxId : \/ RetargetEditor({Requests[id]})
                           \/ ShowEditor("viewer", {Requests[id]})
    \/ ShowEditor("sidebar", {})
    \/ \E url \in Urls : EditUrl(url)
    \/ \E i \in DOMAIN keyValuePairs : RemoveKey(i) \/ \E pair \in Pairs : EditPair(i, pair)
    \/ AddKey \/ \E text \in Bodies : EditBody(text)
    \/ Cancel \/ Submit \/ SubmitThrows \/ EmitModalEvent \/ CodeLoads \/ DisposeEditor

\* What a request that is edited, or shown, is known to have.
Fields == {"url", "queryParams", "body", "b64Body"}

LEMMA ShownRequest ==
    ASSUME NEW o \in Objects, NEW f, NEW t
    PROVE  View(o, f, t).request = Requests[o.id] /\ o.id \in 1..MaxId
BY DEF View, Objects

LEMMA ShowsMovesEditor ==
    ASSUME NEW o, Shows(o), viewed' \in Objects \cup {None}
    PROVE  EditorMoves \/ UNCHANGED editVars
<1>1. viewed' = o
  BY Zenon DEF Shows
<1>2. CASE o = None
  BY <1>2, Zenon DEF Shows, EditorMoves
<1>3. CASE o # None /\ viewed = None
  BY <1>3, Zenon DEF Shows
<1>4. CASE o # None /\ viewed # None
  <2>1. RetargetEditor({View(o, isFetched', timed).request})
    BY <1>4, Zenon DEF Shows
  <2>2. View(o, isFetched', timed).request = Requests[o.id] /\ o.id \in 1..MaxId
    BY <1>1, <1>4, ShownRequest
  <2> QED BY <2>1, <2>2, Zenon DEF EditorMoves
<1> QED BY <1>2, <1>3, <1>4, Zenon

LEMMA ShowRecordMovesEditor ==
    ASSUME NEW o, NEW times, showRecord(o, times), viewed' \in Objects \cup {None}
    PROVE  EditorMoves \/ UNCHANGED editVars
<1>1. CASE o = None \/ o \in isFetched
  BY <1>1, ShowsMovesEditor, Zenon DEF showRecord, onItemSelected
<1>2. CASE ~(o = None \/ o \in isFetched)
  BY <1>2, Zenon DEF showRecord, onItemSelected
<1> QED BY <1>1, <1>2

LEMMA EditorMovesOrNot ==
    ASSUME SelectionShape, SelectionShape', [Next]_vars
    PROVE  EditorMoves \/ UNCHANGED editVars
<1>0. viewed' \in Objects \cup {None} /\ viewed \in Objects \cup {None}
  BY DEF SelectionShape, Current
<1>1. CASE \E o \in ToSet(recordList) : Select(o)
  BY <1>0, <1>1, ShowRecordMovesEditor, Zenon DEF Select
<1>2. CASE DashboardButton \/ \E cleared \in BOOLEAN : StreamStart(cleared)
  <2>1. Deselect
    BY <1>2, Zenon DEF DashboardButton, StreamStart
  <2> QED BY <1>0, <2>1, ShowRecordMovesEditor, Zenon DEF Deselect
<1>3. CASE FetchEnds
  <2>1. PICK i \in DOMAIN fetching, answer \in Answers : FetchAnswered(fetching[i], answer)
    BY <1>3, Zenon DEF FetchEnds
  <2>2. CASE Shows(fetching[i])
    BY <1>0, <2>2, ShowsMovesEditor
  <2>3. CASE UNCHANGED editVars
    BY <2>3
  <2> QED BY <2>1, <2>2, <2>3, Zenon DEF FetchAnswered
<1>4. ASSUME NEW kind, NewRecord(kind) PROVE EditorMoves \/ UNCHANGED editVars
  BY <1>0, <1>4, ShowRecordMovesEditor, Zenon DEF NewRecord
<1>5. CASE \/ \E o \in ToSet(recordList) : UpdateRecord(o)
           \/ Replay \/ ReplayFails \/ FilterRecords \/ UseViewer \/ ViewerTimer
  BY <1>5, Zenon DEF UpdateRecord, Replay, ReplayFails, FilterRecords, UseViewer, ViewerTimer
<1>6. CASE UseEditor
  <2>1. CASE viewed # None /\ ShowEditor("viewer", {Viewed.request})
    <3>1. Viewed.request = Requests[viewed.id] /\ viewed.id \in 1..MaxId
      BY <1>0, <2>1, ShownRequest DEF Viewed
    <3> QED BY <2>1, <3>1, Zenon DEF EditorMoves
  <2>2. CASE ~(viewed # None /\ ShowEditor("viewer", {Viewed.request}))
    BY <1>6, <2>2, Zenon DEF UseEditor, EditorMoves
  <2> QED BY <2>1, <2>2
<1>7. CASE SubmitEditor \/ EditorTimer
  BY <1>7, Zenon DEF SubmitEditor, EditorTimer, EditorMoves
<1>8. CASE UNCHANGED vars
  BY <1>8, Zenon DEF vars
<1> QED BY <1>1, <1>2, <1>3, <1>4, <1>5, <1>6, <1>7, <1>8, Zenon DEF Next

-----------------------------------------------------------------------------
(* The body of what is sent.                                               *)

\* A request from which the dialog starts: its body is not encoded.
PlainRequest(r) == Fields \subseteq DOMAIN r /\ r.body = Plain(r.body.text)

\* Until it is submitted the copy stays plain, and the editor holds the text
\* that is wanted once its timer has ended.
BodyInv ==
    /\ emits \in Seq({"show", "hide"})
    /\ \/ emits = <<"show">> /\ editing = {}
       \/ \A i \in DOMAIN emits : emits[i] = "hide"
    /\ original = {} \/ \E r : original = {r} /\ PlainRequest(r)
    /\ \/ editing = {}
       \/ \E r : /\ editing = {r} /\ Fields \subseteq DOMAIN r
                 /\ emits = <<>> => PlainRequest(r)
                 /\ emits = <<>> /\ ~codeLoading => code = Plain(wanted)

LEMMA OtherTimes ==
    ASSUME NEW t, NEW a, NEW b
    PROVE  [[text |-> t, times |-> a] EXCEPT !.times = b] = [text |-> t, times |-> b]
OBVIOUS

LEMMA CodedText ==
    ASSUME NEW t
    PROVE  /\ t # "" => btoa(Plain(t)) = [text |-> t, times |-> 1]
           /\ atob([text |-> t, times |-> 1]) = Plain(t)
           /\ IsEmpty(Plain(t)) <=> t = ""
           /\ IsEmpty([text |-> t, times |-> 1]) <=> t = ""
<1>1. [Plain(t) EXCEPT !.times = @ + 1] = [text |-> t, times |-> 1]
  <2>1. Plain(t).times + 1 = 1
    BY DEF Plain
  <2> QED BY <2>1, OtherTimes, Zenon DEF Plain
<1>2. [[text |-> t, times |-> 1] EXCEPT !.times = @ - 1] = Plain(t)
  <2>1. [text |-> t, times |-> 1].times - 1 = 0
    OBVIOUS
  <2> QED BY <2>1, OtherTimes, Zenon DEF Plain
<1>3. /\ IsEmpty(Plain(t)) <=> t = ""
      /\ IsEmpty([text |-> t, times |-> 1]) <=> t = ""
  BY DEF IsEmpty, Plain
<1> QED BY <1>1, <1>2, <1>3, Zenon DEF btoa, atob

LEMMA RequestsArePlain ==
    ASSUME NEW id \in 1..MaxId
    PROVE  PlainRequest(Requests[id])
<1> DEFINE d == Data[id]
           raw == [method |-> d.method, path |-> d.path, url |-> d.url, queryParams |-> NoParams,
                   header |-> d.reqHeader, remoteAddr |-> d.remoteAddr,
                   body |-> btoa(Plain(d.reqBody)), b64Body |-> NoBody]
           read == decodeQueryParams(raw)
<1>1. Requests[id] = decodeBody(read)
  BY DEF Requests
<1>2. Fields \subseteq DOMAIN read /\ read.body = btoa(Plain(d.reqBody))
  <2> HIDE DEF d
  <2>1. Fields \subseteq DOMAIN raw /\ raw.body = btoa(Plain(d.reqBody))
    BY DEF Fields
  <2> HIDE DEF raw
  <2> QED BY <2>1 DEF decodeQueryParams, Fields
<1> HIDE DEF read, d
<1>3. CASE IsEmpty(Plain(d.reqBody))
  BY <1>1, <1>2, <1>3 DEF PlainRequest, decodeBody, btoa, IsEmpty, Plain
<1>4. CASE ~IsEmpty(Plain(d.reqBody))
  <2>1. read.body = [text |-> d.reqBody, times |-> 1] /\ d.reqBody # ""
    BY <1>2, <1>4, CodedText, Zenon
  <2>2. Requests[id] = [read EXCEPT !.b64Body = read.body, !.body = atob(read.body)]
    BY <1>1, <2>1, CodedText, Zenon DEF decodeBody
  <2>3. atob(read.body) = Plain(d.reqBody)
    BY <2>1, CodedText, Zenon
  <2>4. Requests[id].body = Plain(d.reqBody) /\ Fields \subseteq DOMAIN Requests[id]
    BY <1>2, <2>2, <2>3 DEF Fields
  <2> QED BY <2>4 DEF PlainRequest, Plain
<1> QED BY <1>3, <1>4

LEMMA EditedIs ==
    ASSUME NEW r, editing = {r}
    PROVE  Edited = r /\ Editing
BY DEF Edited, Editing

\* A submission that was neither the second nor came too early is as wanted.
LEMMA SubmitSends ==
    ASSUME BodyInv, SentBodyIsEdited, Submit
    PROVE  SentBodyIsEdited'
<1>1. PICK r : editing = {r} /\ Fields \subseteq DOMAIN r
               /\ (emits = <<>> /\ ~codeLoading => code = Plain(wanted))
  BY Zenon DEF BodyInv, Submit, Editing
<1>2. Edited = r
  BY <1>1, EditedIs
<1>3. CASE ~CanEncode(Submitted)
  BY <1>3, Zenon DEF Submit, SentBodyIsEdited
<1>4. CASE CanEncode(Submitted)
  <2> DEFINE s == [request |-> encodeBody(Submitted), wanted |-> wanted,
                   again |-> emits # <<>>, early |-> codeLoading]
  <2>1. sent' = {s}
    BY <1>4, Zenon DEF Submit
  <2>2. CASE emits # <<>> \/ codeLoading \/ wanted = ""
    <3>1. s.again \/ s.early \/ s.wanted = ""
      BY <2>2, Zenon
    <3> QED BY <2>1, <3>1, Zenon DEF SentBodyIsEdited
  <2>3. CASE emits = <<>> /\ ~codeLoading /\ wanted # ""
    <3>1. Submitted.b64Body = Plain(wanted)
      BY <1>1, <1>2, <2>3 DEF Submitted, Fields
    <3>2. encodeBody(Submitted) = [Submitted EXCEPT !.body = btoa(Submitted.b64Body), !.b64Body = NoBody]
      BY <2>3, <3>1, CodedText, Zenon DEF encodeBody
    <3>3. {"body", "b64Body"} \subseteq DOMAIN Submitted
      BY <1>1, <1>2 DEF Submitted, Fields
    <3>4. encodeBody(Submitted).body = btoa(Plain(wanted))
      BY <3>1, <3>2, <3>3
    <3>5. s.request.body = [text |-> s.wanted, times |-> 1]
      BY <2>3, <3>4, CodedText, Zenon
    <3> QED BY <2>1, <3>5, Zenon DEF SentBodyIsEdited
  <2> QED BY <2>2, <2>3, Zenon
<1> QED BY <1>3, <1>4

LEMMA SubmitKeepsBody ==
    ASSUME BodyInv, Submit
    PROVE  BodyInv'
<1>1. PICK r : editing = {r} /\ Fields \subseteq DOMAIN r
  BY Zenon DEF BodyInv, Submit, Editing
<1>2. Edited = r
  BY <1>1, EditedIs
<1>3. /\ emits \in Seq({"show", "hide"}) /\ emits' = Append(emits, "hide") /\ original' = original
      /\ \A i \in DOMAIN emits : emits[i] = "hide"
  BY <1>1, Zenon DEF BodyInv, Submit
<1>4. Fields \subseteq DOMAIN Submitted
  BY <1>1, <1>2 DEF Submitted
<1>5. Fields \subseteq DOMAIN encodeBody(Submitted)
  BY <1>4 DEF encodeBody
<1>6. \E q : editing' = {q} /\ Fields \subseteq DOMAIN q
  BY <1>4, <1>5, Zenon DEF Submit
<1>7. /\ emits' \in Seq({"show", "hide"}) /\ emits' # <<>>
      /\ \A i \in DOMAIN emits' : emits'[i] = "hide"
  BY <1>3
<1> QED BY <1>3, <1>6, <1>7, Zenon DEF BodyInv

LEMMA BodyStep ==
    ASSUME BodyInv, SentBodyIsEdited, EditorMoves
    PROVE  BodyInv' /\ SentBodyIsEdited'
<1> USE DEF codeVars
<1>s. ASSUME UNCHANGED sent PROVE SentBodyIsEdited'
  BY <1>s, Zenon DEF SentBodyIsEdited
<1>1. ASSUME NEW id \in 1..MaxId, RetargetEditor({Requests[id]})
      PROVE  BodyInv' /\ SentBodyIsEdited'
  <2>1. \/ original' = original
        \/ original' = {Requests[id]} /\ PlainRequest(Requests[id])
    BY <1>1, RequestsArePlain, Zenon DEF RetargetEditor
  <2> QED BY <1>1, <1>s, <2>1, Zenon DEF BodyInv, RetargetEditor
<1>2. ASSUME NEW from, NEW requests, ShowEditor(from, requests),
             requests = {} \/ \E r : requests = {r} /\ PlainRequest(r)
      PROVE  BodyInv' /\ SentBodyIsEdited'
  <2>1. emits' = <<"show">> /\ editing' = {} /\ original' = requests /\ UNCHANGED sent
    BY <1>2, Zenon DEF ShowEditor, Editing
  <2>2. <<"show">> \in Seq({"show", "hide"})
    OBVIOUS
  <2> QED BY <1>2, <1>s, <2>1, <2>2, Zenon DEF BodyInv
<1>3. ASSUME NEW q, editing' = {q}, Editing, UNCHANGED <<emits, original, codeVars, sent>>,
             \A r : Fields \subseteq DOMAIN r /\ editing = {r}
                     => Fields \subseteq DOMAIN q /\ q.body = r.body
      PROVE  BodyInv' /\ SentBodyIsEdited'
  <2>1. PICK r : editing = {r} /\ Fields \subseteq DOMAIN r
                 /\ (emits = <<>> => PlainRequest(r))
                 /\ (emits = <<>> /\ ~codeLoading => code = Plain(wanted))
    BY <1>3, Zenon DEF BodyInv, Editing
  <2>2. Fields \subseteq DOMAIN q /\ q.body = r.body
    BY <1>3, <2>1, Zenon
  <2>3. emits = <<>> => PlainRequest(q)
    BY <2>1, <2>2, Zenon DEF PlainRequest
  <2>4. editing # {}
    BY <2>1
  <2> QED BY <1>3, <1>s, <2>1, <2>2, <2>3, <2>4, Zenon DEF BodyInv
<1>4. ASSUME NEW url \in Urls, EditUrl(url)
      PROVE  BodyInv' /\ SentBodyIsEdited'
  <2> DEFINE q == decodeQueryParams([Edited EXCEPT !.url = url])
  <2>1. editing' = {q} /\ Editing /\ UNCHANGED <<emits, original, codeVars, sent>>
    BY <1>4, Zenon DEF EditUrl
  <2>2. ASSUME NEW r, Fields \subseteq DOMAIN r, editing = {r}
        PROVE  Fields \subseteq DOMAIN q /\ q.body = r.body
    <3>1. Edited = r
      BY <2>2, EditedIs
    <3> QED BY <2>2, <3>1 DEF decodeQueryParams, Fields
  <2> HIDE DEF q
  <2> QED BY <1>3, <2>1, <2>2
<1>5. ASSUME NEW pairs, updateQueryParams(pairs), Editing, UNCHANGED <<emits, original, codeVars, sent>>
      PROVE  BodyInv' /\ SentBodyIsEdited'
  <2> DEFINE p == [Edited EXCEPT !.queryParams = toMap(pairs)]
             q == encodeQueryParams(p)
  <2>1. editing' = {q}
    BY <1>5, Zenon DEF updateQueryParams
  <2>2. ASSUME NEW r, Fields \subseteq DOMAIN r, editing = {r}
        PROVE  Fields \subseteq DOMAIN q /\ q.body = r.body
    <3>1. Edited = r
      BY <2>2, EditedIs
    <3>2. Fields \subseteq DOMAIN p /\ p.body = r.body
      BY <2>2, <3>1 DEF Fields
    <3> HIDE DEF p
    <3> QED BY <3>2 DEF encodeQueryParams, Fields
  <2> HIDE DEF q
  <2> QED BY <1>3, <1>5, <2>1, <2>2
<1>6. ASSUME NEW i \in DOMAIN keyValuePairs, RemoveKey(i) \/ \E pair \in Pairs : EditPair(i, pair)
      PROVE  BodyInv' /\ SentBodyIsEdited'
  BY <1>5, <1>6, Zenon DEF RemoveKey, EditPair
<1>7. CASE AddKey
  BY <1>7, <1>s, Zenon DEF AddKey, BodyInv
<1>8. ASSUME NEW text \in Bodies, EditBody(text)
      PROVE  BodyInv' /\ SentBodyIsEdited'
  BY <1>8, <1>s, Zenon DEF EditBody, BodyInv
<1>9. CASE Cancel
  <2>1. emits' = <<"hide">> /\ UNCHANGED <<original, editing, codeVars, sent>>
    BY <1>9, Zenon DEF Cancel
  <2>2. /\ <<"hide">> \in Seq({"show", "hide"}) /\ <<"hide">> # <<>>
        /\ \A i \in DOMAIN <<"hide">> : <<"hide">>[i] = "hide"
    OBVIOUS
  <2> QED BY <1>s, <2>1, <2>2, Zenon DEF BodyInv
<1>10. CASE Submit
  BY <1>10, SubmitSends, SubmitKeepsBody
<1>16. CASE SubmitThrows
  <2>1. editing' = {Submitted} /\ Editing /\ UNCHANGED <<emits, original, codeVars, sent>>
    BY <1>16, Zenon DEF SubmitThrows
  <2>2. ASSUME NEW r, Fields \subseteq DOMAIN r, editing = {r}
        PROVE  Fields \subseteq DOMAIN Submitted /\ Submitted.body = r.body
    <3>1. Edited = r
      BY <2>2, EditedIs
    <3> QED BY <2>2, <3>1 DEF Submitted, Fields
  <2> QED BY <1>3, <2>1, <2>2
<1>11. CASE EmitModalEvent
  <2>1. /\ emits \in Seq({"show", "hide"}) /\ emits # <<>> /\ emits' = Tail(emits)
        /\ UNCHANGED <<original, sent>>
    BY <1>11, Zenon DEF EmitModalEvent, BodyInv
  <2>2. CASE Head(emits) = "show"
    <3>1. emits = <<"show">>
      BY <2>1, <2>2 DEF BodyInv
    <3>2. emits' = <<>>
      BY <2>1, <3>1
    <3> DEFINE req == IF original = {} THEN NewRequest ELSE CHOOSE r \in original : TRUE
    <3>3. PlainRequest(req)
      <4>1. PlainRequest(NewRequest)
        BY DEF PlainRequest, NewRequest, Fields, NoBody, Plain
      <4> QED BY <4>1 DEF BodyInv
    <3>4. /\ editing' = {req} /\ wanted' = req.body.text
          /\ codeLoading' = (req.body.text \in LongTexts)
          /\ code' = IF req.body.text \in LongTexts THEN Plain(LoadingText) ELSE req.body
      BY <1>11, <2>2, Zenon DEF EmitModalEvent, prepareRequest
    <3> HIDE DEF req
    <3>5. Fields \subseteq DOMAIN req /\ (~codeLoading' => code' = Plain(wanted'))
      BY <3>3, <3>4, Zenon DEF PlainRequest
    <3>6. <<>> \in Seq({"show", "hide"}) /\ \A i \in DOMAIN <<>> : <<>>[i] = "hide"
      OBVIOUS
    <3> QED BY <1>s, <2>1, <3>2, <3>3, <3>4, <3>5, <3>6, Zenon DEF BodyInv
  <2>3. CASE Head(emits) # "show"
    <3>1. editing' = {}
      BY <1>11, <2>3, Zenon DEF EmitModalEvent, removeRequest
    <3>2. emits # <<"show">>
      BY <2>3
    <3>3. \A i \in DOMAIN emits : emits[i] = "hide"
      BY <3>2, Zenon DEF BodyInv
    <3>4. emits' \in Seq({"show", "hide"}) /\ \A i \in DOMAIN emits' : emits'[i] = "hide"
      BY <2>1, <3>3
    <3> QED BY <1>s, <2>1, <3>1, <3>4, Zenon DEF BodyInv
  <2> QED BY <2>2, <2>3
<1>12. CASE CodeLoads
  <2>1. /\ code' = Edited.body /\ wanted' = Edited.body.text
        /\ UNCHANGED <<emits, original, editing, sent>>
    BY <1>12, Zenon DEF CodeLoads
  <2>2. ASSUME NEW r, editing = {r}, PlainRequest(r) PROVE code' = Plain(wanted')
    <3>1. Edited = r /\ r.body = Plain(r.body.text)
      BY <2>2, EditedIs DEF PlainRequest
    <3> QED BY <2>1, <3>1
  <2> QED BY <1>s, <2>1, <2>2, Zenon DEF BodyInv
<1>13. CASE DisposeEditor
  <2>1. CASE UNCHANGED editVars
    BY <1>s, <2>1, Zenon DEF editVars, BodyInv
  <2>2. CASE emits' = <<>> /\ original' = {} /\ editing' = {} /\ UNCHANGED sent
    <3>1. <<>> \in Seq({"show", "hide"}) /\ \A i \in DOMAIN <<>> : <<>>[i] = "hide"
      OBVIOUS
    <3> QED BY <1>s, <2>2, <3>1, Zenon DEF BodyInv
  <2> QED BY <1>13, <2>1, <2>2, Zenon DEF DisposeEditor, removeRequest
<1>14. ASSUME NEW id \in 1..MaxId, ShowEditor("viewer", {Requests[id]})
       PROVE  BodyInv' /\ SentBodyIsEdited'
  BY <1>2, <1>14, RequestsArePlain
<1>15. CASE ShowEditor("sidebar", {})
  BY <1>2, <1>15
<1> QED BY <1>1, <1>4, <1>6, <1>7, <1>8, <1>9, <1>10, <1>11, <1>12, <1>13, <1>14, <1>15,
        <1>16, Zenon DEF EditorMoves

-----------------------------------------------------------------------------
(* The URL and the parameters of what is edited.                           *)

\* What makes the URL of a request and its parameters comparable.
Readable(r) == Fields \subseteq DOMAIN r /\ "raw" \in DOMAIN r.url /\ IsFiniteSet(DOMAIN r.queryParams)

Agree(r) == WithoutEmpty(Decoded(r.url.raw)) = WithoutEmpty(r.queryParams)

UrlInv ==
    /\ original = {} \/ \E r : original = {r} /\ Readable(r) /\ Agree(r)
    /\ editing = {} \/ \E r : editing = {r} /\ Readable(r) /\ (~stale => Agree(r))
    /\ \E Rows : keyValuePairs \in Seq(Rows)

LEMMA FiniteImage ==
    ASSUME NEW n \in Nat, NEW f, DOMAIN f = 1..n
    PROVE  IsFiniteSet({f[i] : i \in 1..n})
<1> DEFINE T == {f[i] : i \in 1..n}
           g == [i \in 1..n |-> f[i]]
<1>1. g \in Surjection(1..n, T)
  BY DEF Surjection
<1>2. IsFiniteSet(1..n)
  BY FS_Interval
<1> QED BY <1>1, <1>2, FS_Surjection

\* SetToSeq lists every element of a finite set once.
LEMMA Enumerated ==
    ASSUME NEW S, IsFiniteSet(S)
    PROVE  /\ Cardinality(S) \in Nat
           /\ SetToSeq(S) \in [1..Cardinality(S) -> S]
           /\ IsInjective(SetToSeq(S))
           /\ \A x \in S : \E i \in 1..Cardinality(S) : SetToSeq(S)[i] = x
<1>1. Cardinality(S) \in Nat /\ ExistsBijection(1..Cardinality(S), S)
  BY FS_CardinalityType
<1> DEFINE n == Cardinality(S)
<1>2. \E f \in [1..n -> S] : IsInjective(f)
  BY <1>1, Zenon DEF ExistsBijection, Bijection, Injection
<1>3. SetToSeq(S) \in [1..n -> S] /\ IsInjective(SetToSeq(S))
  BY <1>2, Zenon DEF SetToSeq
<1>4. IsFiniteSet(1..n) /\ Cardinality(1..n) = n
  BY <1>1, FS_Interval
<1>5. SetToSeq(S) \in Injection(1..n, S)
  BY <1>3, Zenon DEF Injection
<1>6. SetToSeq(S) \in Surjection(1..n, S)
  BY <1>4, <1>5, FS_Injection
<1> QED BY <1>1, <1>3, <1>6, Zenon DEF Surjection

LEMMA TabulatedIsSequence ==
    ASSUME NEW map, IsFiniteSet(DOMAIN map)
    PROVE  \E Rows : toKeyValuePairs(map) \in Seq(Rows)
<1> DEFINE keys == SetToSeq(DOMAIN map)
           n == Cardinality(DOMAIN map)
           Row(i) == [key |-> keys[i], value |-> map[keys[i]]]
           Rows == {Row(i) : i \in 1..n}
<1>1. n \in Nat /\ DOMAIN keys = 1..n
  BY Enumerated
<1>2. toKeyValuePairs(map) = [i \in 1..n |-> Row(i)]
  BY <1>1, Zenon DEF toKeyValuePairs
<1>3. \A i \in 1..n : Row(i) \in Rows
  OBVIOUS
<1> HIDE DEF keys, n, Row, Rows
<1>4. [i \in 1..n |-> Row(i)] \in Seq(Rows)
  BY <1>1, <1>3
<1> QED BY <1>2, <1>4

LEMMA MapIsFinite ==
    ASSUME NEW Rows, NEW pairs \in Seq(Rows)
    PROVE  IsFiniteSet(DOMAIN toMap(pairs))
<1> DEFINE n == Len(pairs)
           key == [i \in 1..n |-> pairs[i].key]
<1>1. n \in Nat /\ DOMAIN pairs = 1..n
  OBVIOUS
<1>2. DOMAIN toMap(pairs) = {key[i] : i \in 1..n}
  BY <1>1 DEF toMap
<1>3. DOMAIN key = 1..n
  OBVIOUS
<1> HIDE DEF n, key
<1> QED BY <1>1, <1>2, <1>3, FiniteImage

LEMMA DecodedIsFinite ==
    ASSUME NEW raw \in Seq(Seq(STRING))
    PROVE  IsFiniteSet(DOMAIN Decoded(raw))
<1> DEFINE n == Len(raw)
           key == [i \in 1..n |-> raw[i][1]]
<1>1. n \in Nat /\ DOMAIN raw = 1..n
  OBVIOUS
<1>2. DOMAIN Decoded(raw) = {key[i] : i \in 1..n}
  BY <1>1 DEF Decoded
<1>3. DOMAIN key = 1..n
  OBVIOUS
<1> HIDE DEF n, key
<1> QED BY <1>1, <1>2, <1>3, FiniteImage

\* What encodeQueryParams writes decodeQueryParams reads, but for "".
LEMMA EncodedDecodes ==
    ASSUME NEW r, Readable(r)
    PROVE  Agree(encodeQueryParams(r))
<1> DEFINE qp == r.queryParams
           K == DOMAIN qp \ {""}
           keys == SetToSeq(K)
           n == Cardinality(K)
           raw == [i \in DOMAIN keys |-> <<keys[i], qp[keys[i]]>>]
           q == encodeQueryParams(r)
<1>1. IsFiniteSet(K)
  BY FS_Subset DEF Readable
<1>2. /\ n \in Nat /\ keys \in [1..n -> K] /\ IsInjective(keys)
      /\ \A x \in K : \E i \in 1..n : keys[i] = x
  BY <1>1, Enumerated
<1>3. q.url.raw = raw /\ q.queryParams = qp
  BY DEF encodeQueryParams, Readable, Fields
<1> HIDE DEF q, K, keys, n, qp
<1>4. raw = [i \in 1..n |-> <<keys[i], qp[keys[i]]>>] /\ DOMAIN raw = 1..n /\ Len(raw) = n
  BY <1>2
<1>5. \A i \in 1..n : raw[i] = <<keys[i], qp[keys[i]]>>
  BY <1>4
<1> HIDE DEF raw
<1>6. \A i \in 1..n : raw[i][1] = keys[i] /\ raw[i][2] = qp[keys[i]] /\ Len(raw[i]) = 2
  BY <1>5
<1>7. {raw[i][1] : i \in DOMAIN raw} = K
  BY <1>2, <1>4, <1>6
<1>8. ASSUME NEW k \in K
      PROVE  Decoded(raw)[k] = qp[k]
  <2>1. PICK i \in 1..n : keys[i] = k
    BY <1>2
  <2>2. {j \in 1..Len(raw) : raw[j][1] = k} = {i}
    BY <1>2, <1>4, <1>6, <2>1 DEF IsInjective
  <2>3. SelectLastInSeq(raw, LAMBDA p : p[1] = k) = i
    <3>1. SelectLastInSeq(raw, LAMBDA p : p[1] = k) = CHOOSE x \in {i} : \A y \in {i} : x >= y
      BY <2>2 DEF SelectLastInSeq, Max
    <3>2. i >= i
      BY <2>1, <1>2
    <3> QED BY <3>1, <3>2
  <2>4. Decoded(raw)[k] = (LET pair == raw[SelectLastInSeq(raw, LAMBDA p : p[1] = k)]
                           IN  IF Len(pair) > 1 THEN pair[2] ELSE "")
    BY <1>7, Zenon DEF Decoded
  <2>5. Decoded(raw)[k] = IF Len(raw[i]) > 1 THEN raw[i][2] ELSE ""
    BY <2>3, <2>4, Zenon
  <2>6. Len(raw[i]) = 2 /\ raw[i][2] = qp[k]
    BY <1>6, <2>1, Zenon
  <2>7. 2 > 1
    OBVIOUS
  <2> QED BY <2>5, <2>6, <2>7, Zenon
<1>9. DOMAIN Decoded(raw) = K
  BY <1>7 DEF Decoded
<1>10. "" \notin K /\ K = DOMAIN qp \ {""}
  BY DEF K
<1>11. WithoutEmpty(Decoded(raw)) = [k \in K |-> Decoded(raw)[k]] /\ WithoutEmpty(qp) = [k \in K |-> qp[k]]
  BY <1>9, <1>10 DEF WithoutEmpty, Restrict
<1>12. [k \in K |-> Decoded(raw)[k]] = [k \in K |-> qp[k]]
  BY <1>8
<1>13. Agree(q) <=> WithoutEmpty(Decoded(raw)) = WithoutEmpty(qp)
  BY <1>3, Zenon DEF Agree
<1> QED BY <1>11, <1>12, <1>13, Zenon DEF q

LEMMA RequestsAgree ==
    ASSUME NEW id \in 1..MaxId
    PROVE  Readable(Requests[id]) /\ Agree(Requests[id])
<1> DEFINE d == Data[id]
           raw == [method |-> d.method, path |-> d.path, url |-> d.url, queryParams |-> NoParams,
                   header |-> d.reqHeader, remoteAddr |-> d.remoteAddr,
                   body |-> btoa(Plain(d.reqBody)), b64Body |-> NoBody]
           read == decodeQueryParams(raw)
<1>1. Requests[id] = decodeBody(read)
  BY DEF Requests
<1>2. d.url \in Url
  BY ViewsAssumption
<1> HIDE DEF d
<1>3. Fields \subseteq DOMAIN raw /\ raw.url = d.url /\ raw.queryParams = NoParams
  BY DEF Fields
<1> HIDE DEF raw
<1>4. "raw" \in DOMAIN d.url /\ d.url.raw \in Seq(Seq(STRING))
  BY <1>2 DEF Url
<1>5. /\ Fields \subseteq DOMAIN read /\ read.url = d.url
      /\ read.queryParams = IF d.url.raw = <<>> THEN NoParams ELSE Decoded(d.url.raw)
  BY <1>3 DEF decodeQueryParams, Fields
<1>6. DOMAIN NoParams = {} /\ IsFiniteSet({})
  BY FS_EmptySet DEF NoParams
<1>7. IsFiniteSet(DOMAIN read.queryParams)
  BY <1>4, <1>5, <1>6, DecodedIsFinite
<1>8. WithoutEmpty(Decoded(<<>>)) = WithoutEmpty(NoParams)
  <2>1. DOMAIN Decoded(<<>>) = {}
    BY DEF Decoded
  <2> QED BY <1>6, <2>1 DEF WithoutEmpty, Restrict
<1>9. Agree(read)
  BY <1>5, <1>8, Zenon DEF Agree
<1> HIDE DEF read
<1>10. /\ Fields \subseteq DOMAIN decodeBody(read)
       /\ decodeBody(read).url = read.url /\ decodeBody(read).queryParams = read.queryParams
  BY <1>5 DEF decodeBody, Fields
<1> QED BY <1>1, <1>4, <1>5, <1>7, <1>9, <1>10 DEF Readable, Agree

LEMMA NewRequestAgrees == Readable(NewRequest) /\ Agree(NewRequest)
<1>1. /\ Fields \subseteq DOMAIN NewRequest /\ "raw" \in DOMAIN NewRequest.url
      /\ NewRequest.url.raw = <<>> /\ NewRequest.queryParams = NoParams
  BY DEF NewRequest, Fields
<1>2. DOMAIN NoParams = {} /\ IsFiniteSet({})
  BY FS_EmptySet DEF NoParams
<1>3. DOMAIN Decoded(<<>>) = {}
  BY DEF Decoded
<1>4. WithoutEmpty(Decoded(<<>>)) = WithoutEmpty(NoParams)
  BY <1>2, <1>3 DEF WithoutEmpty, Restrict
<1> QED BY <1>1, <1>2, <1>4 DEF Readable, Agree

LEMMA EditUrlAgrees ==
    ASSUME NEW r, Readable(r), NEW url \in Urls
    PROVE  LET q == decodeQueryParams([r EXCEPT !.url = url])
           IN  Readable(q) /\ (url.raw # <<>> => Agree(q))
<1> DEFINE p == [r EXCEPT !.url = url]
           q == decodeQueryParams(p)
<1>1. "raw" \in DOMAIN url /\ url.raw \in Seq(Seq(STRING))
  BY EditorAssumption DEF Url
<1>2. Fields \subseteq DOMAIN p /\ p.url = url /\ p.queryParams = r.queryParams
  BY DEF Readable, Fields
<1> HIDE DEF p
<1>3. /\ Fields \subseteq DOMAIN q /\ q.url = url
      /\ q.queryParams = IF url.raw = <<>> THEN r.queryParams ELSE Decoded(url.raw)
  BY <1>2 DEF decodeQueryParams, Fields
<1> HIDE DEF q
<1>4. IsFiniteSet(DOMAIN q.queryParams)
  BY <1>1, <1>3, DecodedIsFinite DEF Readable
<1>5. Readable(q) /\ (url.raw # <<>> => Agree(q))
  BY <1>1, <1>3, <1>4, Zenon DEF Readable, Agree
<1> QED BY <1>5 DEF p, q

LEMMA EditParamsAgree ==
    ASSUME NEW r, Readable(r), NEW Rows, NEW pairs \in Seq(Rows)
    PROVE  LET q == encodeQueryParams([r EXCEPT !.queryParams = toMap(pairs)])
           IN  Readable(q) /\ Agree(q)
<1> DEFINE p == [r EXCEPT !.queryParams = toMap(pairs)]
           q == encodeQueryParams(p)
<1>1. IsFiniteSet(DOMAIN toMap(pairs))
  BY MapIsFinite
<1>2. Fields \subseteq DOMAIN p /\ p.url = r.url /\ p.queryParams = toMap(pairs)
  BY DEF Readable, Fields
<1> HIDE DEF p
<1>3. Readable(p)
  BY <1>1, <1>2 DEF Readable
<1>4. Fields \subseteq DOMAIN q /\ "raw" \in DOMAIN q.url /\ q.queryParams = p.queryParams
  BY <1>2, <1>3 DEF encodeQueryParams, Readable, Fields
<1>5. Agree(q)
  BY <1>3, EncodedDecodes
<1> HIDE DEF q
<1>6. Readable(q) /\ Agree(q)
  BY <1>1, <1>2, <1>4, <1>5, Zenon DEF Readable
<1> QED BY <1>6 DEF p, q

LEMMA UrlStep ==
    ASSUME UrlInv, EditorMoves
    PROVE  UrlInv'
<1> USE DEF codeVars
<1>1. ASSUME NEW id \in 1..MaxId, RetargetEditor({Requests[id]})
      PROVE  UrlInv'
  <2>1. \/ original' = original
        \/ original' = {Requests[id]} /\ Readable(Requests[id]) /\ Agree(Requests[id])
    BY <1>1, RequestsAgree, Zenon DEF RetargetEditor
  <2> QED BY <1>1, <2>1, Zenon DEF UrlInv, RetargetEditor
<1>2. ASSUME NEW from, NEW requests, ShowEditor(from, requests),
             requests = {} \/ \E r : requests = {r} /\ Readable(r) /\ Agree(r)
      PROVE  UrlInv'
  BY <1>2, Zenon DEF ShowEditor, UrlInv
<1>3. ASSUME NEW url \in Urls, EditUrl(url)
      PROVE  UrlInv'
  <2> DEFINE q == decodeQueryParams([Edited EXCEPT !.url = url])
  <2>1. PICK r : editing = {r} /\ Readable(r)
    BY <1>3, Zenon DEF EditUrl, Editing, UrlInv
  <2>2. Edited = r
    BY <2>1, EditedIs
  <2>3. Readable(q) /\ (url.raw # <<>> => Agree(q))
    BY <2>1, <2>2, EditUrlAgrees
  <2>4. /\ editing' = {q} /\ stale' = (url.raw = <<>>) /\ original' = original
        /\ keyValuePairs' = IF url.raw = <<>> THEN keyValuePairs ELSE toKeyValuePairs(q.queryParams)
    BY <1>3, Zenon DEF EditUrl
  <2> HIDE DEF q
  <2>5. \E Rows : toKeyValuePairs(q.queryParams) \in Seq(Rows)
    BY <2>3, TabulatedIsSequence DEF Readable
  <2>6. \E Rows : keyValuePairs' \in Seq(Rows)
    BY <2>4, <2>5, Zenon DEF UrlInv
  <2> QED BY <2>3, <2>4, <2>6, Zenon DEF UrlInv
<1>4. ASSUME NEW Rows, NEW pairs \in Seq(Rows), Editing, updateQueryParams(pairs), UNCHANGED original
      PROVE  UrlInv'
  <2> DEFINE q == encodeQueryParams([Edited EXCEPT !.queryParams = toMap(pairs)])
  <2>1. PICK r : editing = {r} /\ Readable(r)
    BY <1>4, Zenon DEF Editing, UrlInv
  <2>2. Edited = r
    BY <2>1, EditedIs
  <2>3. Readable(q) /\ Agree(q)
    BY <2>1, <2>2, EditParamsAgree
  <2>4. editing' = {q} /\ keyValuePairs' = toKeyValuePairs(q.queryParams)
    BY <1>4, Zenon DEF updateQueryParams
  <2> HIDE DEF q
  <2>5. \E Set : keyValuePairs' \in Seq(Set)
    BY <2>3, <2>4, TabulatedIsSequence DEF Readable
  <2> QED BY <1>4, <2>3, <2>4, <2>5, Zenon DEF UrlInv
<1>5. ASSUME NEW i \in DOMAIN keyValuePairs, RemoveKey(i) \/ \E pair \in Pairs : EditPair(i, pair)
      PROVE  UrlInv'
  <2>1. PICK Rows : keyValuePairs \in Seq(Rows)
    BY Zenon DEF UrlInv
  <2>2. CASE RemoveKey(i)
    <3>1. RemoveAt(keyValuePairs, i) \in Seq(Rows)
      BY <2>1, RemovedAt
    <3> QED BY <1>4, <2>2, <3>1, Zenon DEF RemoveKey
  <2>3. ASSUME NEW pair \in Pairs, EditPair(i, pair) PROVE UrlInv'
    <3>1. [keyValuePairs EXCEPT ![i] = pair] \in Seq(Rows \cup {pair})
      BY <2>1
    <3> QED BY <1>4, <2>3, <3>1, Zenon DEF EditPair
  <2> QED BY <1>5, <2>2, <2>3, Zenon
<1>6. CASE AddKey
  <2> DEFINE row == [key |-> "", value |-> ""]
  <2>1. PICK Rows : keyValuePairs \in Seq(Rows)
    BY Zenon DEF UrlInv
  <2>2. keyValuePairs' = Append(keyValuePairs, row) /\ UNCHANGED <<original, editing, stale>>
    BY <1>6, Zenon DEF AddKey
  <2> HIDE DEF row
  <2>3. keyValuePairs' \in Seq(Rows \cup {row})
    BY <2>1, <2>2
  <2> QED BY <2>2, <2>3, Zenon DEF UrlInv
<1>7. CASE (\E text \in Bodies : EditBody(text)) \/ Cancel \/ CodeLoads
  BY <1>7, Zenon DEF EditBody, Cancel, CodeLoads, UrlInv
<1>8. CASE Submit
  <2>1. PICK r : editing = {r} /\ Readable(r) /\ (~stale => Agree(r))
    BY <1>8, Zenon DEF Submit, Editing, UrlInv
  <2>2. Edited = r
    BY <2>1, EditedIs
  <2>3. /\ Fields \subseteq DOMAIN Submitted
        /\ Submitted.url = r.url /\ Submitted.queryParams = r.queryParams
    BY <2>1, <2>2 DEF Submitted, Readable, Fields
  <2>4. /\ Fields \subseteq DOMAIN encodeBody(Submitted)
        /\ encodeBody(Submitted).url = r.url /\ encodeBody(Submitted).queryParams = r.queryParams
    BY <2>3 DEF encodeBody, Fields
  <2>5. PICK q \in {Submitted, encodeBody(Submitted)} : editing' = {q}
    BY <1>8, Zenon DEF Submit
  <2>6. Readable(q) /\ (~stale => Agree(q))
    BY <2>1, <2>3, <2>4 DEF Readable, Agree
  <2> QED BY <1>8, <2>5, <2>6, Zenon DEF Submit, UrlInv
<1>9. CASE EmitModalEvent
  <2>1. CASE prepareRequest
    <3> DEFINE req == IF original = {} THEN NewRequest ELSE CHOOSE r \in original : TRUE
    <3>1. Readable(req) /\ Agree(req)
      BY NewRequestAgrees DEF UrlInv
    <3>2. editing' = {req} /\ keyValuePairs' = toKeyValuePairs(req.queryParams)
      BY <2>1, Zenon DEF prepareRequest
    <3> HIDE DEF req
    <3>3. \E Rows : keyValuePairs' \in Seq(Rows)
      BY <3>1, <3>2, TabulatedIsSequence DEF Readable
    <3> QED BY <1>9, <3>1, <3>2, <3>3, Zenon DEF EmitModalEvent, UrlInv
  <2>2. CASE removeRequest
    <3>1. <<>> \in Seq({})
      OBVIOUS
    <3> QED BY <1>9, <2>2, <3>1, Zenon DEF EmitModalEvent, removeRequest, UrlInv
  <2> QED BY <1>9, <2>1, <2>2, Zenon DEF EmitModalEvent
<1>10. CASE DisposeEditor
  <2>1. <<>> \in Seq({})
    OBVIOUS
  <2> QED BY <1>10, <2>1, Zenon DEF DisposeEditor, removeRequest, editVars, UrlInv
<1>13. CASE SubmitThrows
  <2>1. PICK r : editing = {r} /\ Readable(r) /\ (~stale => Agree(r))
    BY <1>13, Zenon DEF SubmitThrows, Editing, UrlInv
  <2>2. Edited = r
    BY <2>1, EditedIs
  <2>3. /\ Fields \subseteq DOMAIN Submitted
        /\ Submitted.url = r.url /\ Submitted.queryParams = r.queryParams
    BY <2>1, <2>2 DEF Submitted, Readable, Fields
  <2>4. Readable(Submitted) /\ (~stale => Agree(Submitted))
    BY <2>1, <2>3 DEF Readable, Agree
  <2> QED BY <1>13, <2>4, Zenon DEF SubmitThrows, UrlInv
<1>11. ASSUME NEW id \in 1..MaxId, ShowEditor("viewer", {Requests[id]})
       PROVE  UrlInv'
  BY <1>2, <1>11, RequestsAgree
<1>12. CASE ShowEditor("sidebar", {})
  BY <1>2, <1>12
<1> QED BY <1>1, <1>3, <1>5, <1>6, <1>7, <1>8, <1>9, <1>10, <1>11, <1>12, <1>13,
        Zenon DEF EditorMoves

-----------------------------------------------------------------------------
DialogInv == BodyInv /\ SentBodyIsEdited /\ UrlInv

LEMMA DialogInit == Init => DialogInv
<1> SUFFICES ASSUME EditorInit PROVE DialogInv
  BY Zenon DEF Init
<1>1. <<>> \in Seq({}) /\ <<>> \in Seq({"show", "hide"}) /\ \A i \in DOMAIN <<>> : <<>>[i] = "hide"
  OBVIOUS
<1> QED BY <1>1, Zenon DEF EditorInit, DialogInv, BodyInv, SentBodyIsEdited, UrlInv

LEMMA DialogStep ==
    ASSUME DialogInv, SelectionShape, SelectionShape', [Next]_vars
    PROVE  DialogInv'
<1>1. CASE EditorMoves
  BY <1>1, BodyStep, UrlStep DEF DialogInv
<1>2. CASE UNCHANGED editVars
  BY <1>2, Zenon DEF editVars, codeVars, DialogInv, BodyInv, SentBodyIsEdited, UrlInv
<1> QED BY <1>1, <1>2, EditorMovesOrNot

LEMMA DialogHolds == Spec => []DialogInv
BY SelectionHolds, DialogInit, DialogStep, PTL DEF Spec

(* Whatever the user types, shows and cancels in the dialogs, the body that *)
(* is sent is the one left in the editor, encoded once, but for a second    *)
(* submission, one before a long body was loaded, and an emptied body.      *)
THEOREM SentBodyHolds == Spec => []SentBodyIsEdited
BY DialogHolds, PTL DEF DialogInv

(* The URL that is edited and the table of its parameters say the same,     *)
(* whichever of them is changed, but for empty keys and for a URL from      *)
(* which the "?" was taken: what Woole.js encodes it decodes.               *)
THEOREM UrlAndParamsHold == Spec => []UrlAndParamsAgree
<1>1. UrlInv => UrlAndParamsAgree
  <2> SUFFICES ASSUME UrlInv, Editing, ~stale
               PROVE  WithoutEmpty(Decoded(Edited.url.raw)) = WithoutEmpty(Edited.queryParams)
    BY Zenon DEF UrlAndParamsAgree
  <2>1. PICK r : editing = {r} /\ Agree(r)
    BY Zenon DEF UrlInv, Editing
  <2>2. Edited = r
    BY <2>1, EditedIs
  <2> QED BY <2>1, <2>2 DEF Agree
<1> QED BY <1>1, DialogHolds, PTL DEF DialogInv

-----------------------------------------------------------------------------
(* The viewer.                                                             *)

\* What the editor of the body may hold: text or the placeholder.
CodesOf(text) == UNION {{Raw(t), beautify(Raw(t))} : t \in {text, LoadingText}}

\* It shows text, or will when its timer ends, and what was beautified is
\* text, unless Pretty was asked for while the timer ran.
CodeShown(text) ==
    /\ editorValue \in CodesOf(text) /\ prettyCode \subseteq CodesOf(text)
    /\ ~prettyEarly =>
           /\ prettyCode \subseteq {beautify(Raw(text))}
           /\ loading => editorTab = "raw"
           /\ ~loading => editorValue = IF editorTab = "raw" THEN Raw(text) ELSE beautify(Raw(text))

ViewerInv ==
    /\ DOMAIN tabs = Halves /\ touched \subseteq Halves
    /\ viewed # None => TabAvailable /\ CodeShown(Viewed.response.body.text)

LEMMA BeautifyTwice ==
    ASSUME NEW text
    PROVE  beautify(beautify(Raw(text))) = beautify(Raw(text))
BY DEF beautify, Raw

LEMMA CodesAre ==
    ASSUME NEW text
    PROVE  /\ Raw(text) \in CodesOf(text) /\ Raw(LoadingText) \in CodesOf(text)
           /\ \A v \in CodesOf(text) : /\ beautify(v) \in CodesOf(text)
                                        /\ v.text \in {text, LoadingText}
<1>1. \A v : v \in CodesOf(text) <=> v \in {Raw(text), beautify(Raw(text)),
                                           Raw(LoadingText), beautify(Raw(LoadingText))}
  BY DEF CodesOf
<1>2. \A t : Raw(t).text = t /\ beautify(Raw(t)).text = t
  BY DEF beautify, Raw
<1> QED BY <1>1, <1>2, BeautifyTwice

LEMMA Pushed ==
    ASSUME NEW S, NEW t \in S, NEW has
    PROVE  PushIf(has, t) \in Seq(S)
<1>1. <<t>> \in Seq(S) /\ <<>> \in Seq(S)
  OBVIOUS
<1> QED BY <1>1, Zenon DEF PushIf

\* The tab fallen back on is one the item has: "raw" always is.
LEMMA SelectedIsAvailable ==
    ASSUME NEW tab, NEW item
    PROVE  Contains(availableTabs(item), selectAvailableTab(tab, item))
<1> DEFINE Names == {"preview", "body", "param", "header", "raw"}
           some == PushIf(isPreviewSupported(item), "preview") \o PushIf(hasBody(item), "body")
                       \o PushIf(hasParam(item), "param") \o PushIf(hasHeader(item), "header")
<1>1. {"preview", "body", "param", "header"} \subseteq Names
  OBVIOUS
<1>2. some \in Seq(Names)
  <2>1. /\ PushIf(isPreviewSupported(item), "preview") \in Seq(Names)
        /\ PushIf(hasBody(item), "body") \in Seq(Names)
        /\ PushIf(hasParam(item), "param") \in Seq(Names)
        /\ PushIf(hasHeader(item), "header") \in Seq(Names)
    BY <1>1, Pushed, Zenon
  <2> HIDE DEF Names
  <2> QED BY <2>1
<1>3. availableTabs(item) = some \o <<"raw">>
  BY DEF availableTabs
<1> HIDE DEF some
<1>4. some \o <<"raw">> \in Seq(Names) /\ Len(some \o <<"raw">>) > 0
  BY <1>2
<1>5. 1 \in 1..Len(availableTabs(item)) /\ Head(availableTabs(item)) = availableTabs(item)[1]
  BY <1>3, <1>4
<1> QED BY <1>5, Zenon DEF selectAvailableTab, Contains

LEMMA SetCodeShows ==
    ASSUME NEW code1, setCode(code1)
    PROVE  CodeShown(code1)'
BY CodesAre DEF setCode, CodeShown

LEMMA CreatedShows ==
    ASSUME NEW code1, createEditor(code1)
    PROVE  CodeShown(code1)'
BY CodesAre DEF createEditor, CodeShown

LEMMA LoadingEndsShows ==
    ASSUME NEW code1, CodeShown(code1), LoadingEnds(code1)
    PROVE  CodeShown(code1)'
BY CodesAre DEF LoadingEnds, CodeShown

LEMMA ChangeTabShows ==
    ASSUME NEW code1, NEW tab \in {"raw", "pretty"}, CodeShown(code1), changeTab(tab, code1)
    PROVE  CodeShown(code1)'
<1>1. CASE tab = "raw"
  <2>1. /\ editorTab' = "raw" /\ editorValue' = Raw(code1) /\ UNCHANGED <<prettyCode, loading>>
        /\ ~prettyEarly' => ~prettyEarly
    BY <1>1, Zenon DEF changeTab
  <2> QED BY <2>1, CodesAre DEF CodeShown
<1>2. CASE tab = "pretty"
  <2>0. editorValue' \in CodesOf(code1) /\ prettyCode' \subseteq CodesOf(code1)
    <3>1. /\ prettyCode' = IF prettyCode = {} THEN {beautify(editorValue)} ELSE prettyCode
          /\ editorValue' = CHOOSE v \in prettyCode' : TRUE
      BY <1>2, Zenon DEF changeTab
    <3>2. prettyCode' \subseteq CodesOf(code1) /\ prettyCode' # {}
      BY <3>1, CodesAre DEF CodeShown
    <3> QED BY <3>1, <3>2
  <2> SUFFICES ASSUME ~prettyEarly'
               PROVE  /\ prettyCode' \subseteq {beautify(Raw(code1))}
                      /\ ~loading' /\ editorTab' = "pretty"
                      /\ editorValue' = beautify(Raw(code1))
    BY <2>0 DEF CodeShown
  <2>1. /\ editorTab' = "pretty" /\ loading' = loading /\ ~prettyEarly /\ ~loading
        /\ prettyCode' = IF prettyCode = {} THEN {beautify(editorValue)} ELSE prettyCode
        /\ editorValue' = CHOOSE v \in prettyCode' : TRUE
    BY <1>2, Zenon DEF changeTab
  <2>2. prettyCode \subseteq {beautify(Raw(code1))} /\ editorValue \in {Raw(code1), beautify(Raw(code1))}
    BY <2>1 DEF CodeShown
  <2>3. prettyCode' = {beautify(Raw(code1))}
    BY <2>1, <2>2, BeautifyTwice
  <2> QED BY <2>1, <2>3
<1> QED BY <1>1, <1>2

\* The watchers keep both halves right, whatever is shown next.
LEMMA ItemsChangeShows ==
    ASSUME NEW old, NEW rec, DOMAIN tabs = Halves, touched \subseteq Halves,
           \A half \in touched : Contains(availableTabs(old[half]), tabs[half]),
           CodeShown(old.response.body.text), ItemsChange(old, rec)
    PROVE  /\ DOMAIN tabs' = Halves /\ touched' \subseteq Halves
           /\ \A half \in touched' : Contains(availableTabs(rec[half]), tabs'[half])
           /\ CodeShown(rec.response.body.text)'
<1> DEFINE changed == {half \in Halves : rec[half] # old[half] \/ rec.id # old.id}
<1>1. /\ tabs' = [half \in Halves |-> IF half \in changed
                                       THEN selectAvailableTab(tabs[half], rec[half])
                                       ELSE tabs[half]]
      /\ touched' = touched \cup changed
      /\ \/ setCode(rec.response.body.text)
         \/ rec.response.body.text = old.response.body.text /\ UNCHANGED editorVars
  BY Zenon DEF ItemsChange, CodeChanges
<1>2. changed \subseteq Halves /\ \A half \in Halves \ changed : rec[half] = old[half]
  OBVIOUS
<1> HIDE DEF changed
<1>3. \A half \in touched' : Contains(availableTabs(rec[half]), tabs'[half])
  BY <1>1, <1>2, SelectedIsAvailable
<1>4. CodeShown(rec.response.body.text)'
  <2>1. CASE setCode(rec.response.body.text)
    BY <2>1, SetCodeShows
  <2>2. CASE rec.response.body.text = old.response.body.text /\ UNCHANGED editorVars
    BY <2>2, Zenon DEF editorVars, CodeShown
  <2> QED BY <1>1, <2>1, <2>2
<1> QED BY <1>1, <1>2, <1>3, <1>4

\* A page that goes on showing an object of which no more is known.
LEMMA StillViewed ==
    ASSUME ViewerInv, UNCHANGED <<itemVars, viewed, isFetched>>,
           (viewed \in timed') <=> (viewed \in timed)
    PROVE  ViewerInv'
<1>1. (viewed \in timed') = (viewed \in timed)
  OBVIOUS
<1>2. Viewed' = Viewed
  BY <1>1, Zenon DEF Viewed, View
<1> QED BY <1>2, Zenon DEF ViewerInv, itemVars, editorVars, TabAvailable, CodeShown

\* The page shows o from now on, of which it may know more than before.
LEMMA ViewedChanges ==
    ASSUME ViewerInv, viewed # None, NEW rec, ItemsChange(Viewed, rec), Viewed' = rec
    PROVE  ViewerInv'
<1>1. \A half \in touched : Contains(availableTabs(Viewed[half]), tabs[half])
  BY DEF ViewerInv, TabAvailable
<1>2. DOMAIN tabs = Halves /\ touched \subseteq Halves /\ CodeShown(Viewed.response.body.text)
  BY DEF ViewerInv
<1>3. PICK old : old = Viewed
  OBVIOUS
<1>4. /\ DOMAIN tabs' = Halves /\ touched' \subseteq Halves
      /\ \A half \in touched' : Contains(availableTabs(rec[half]), tabs'[half])
      /\ CodeShown(rec.response.body.text)'
  BY <1>1, <1>2, <1>3, ItemsChangeShows
<1> QED BY <1>4 DEF ViewerInv, TabAvailable

LEMMA ShowsViewer ==
    ASSUME ViewerInv, NEW o, Shows(o), timed' = timed \/ o = None
    PROVE  ViewerInv'
<1>1. CASE o = None
  <2>1. viewed' = None
    BY <1>1, Zenon DEF Shows
  <2>2. DOMAIN tabs' = Halves /\ touched' \subseteq Halves
    <3>1. CASE UNCHANGED itemVars
      BY <3>1 DEF itemVars, ViewerInv
    <3>2. CASE UnmountItems
      BY <3>2 DEF UnmountItems
    <3> QED BY <1>1, <3>1, <3>2, Zenon DEF Shows
  <2> QED BY <2>1, <2>2, Zenon DEF ViewerInv
<1>2. CASE o # None
  <2>1. PICK rec : rec = View(o, isFetched', timed)
    OBVIOUS
  <2>2. Viewed' = rec
    BY <1>2, <2>1, Zenon DEF Shows, Viewed
  <2>3. CASE viewed = None
    <3>1. MountItems(rec)
      BY <1>2, <2>1, <2>3, Zenon DEF Shows
    <3>2. tabs' = [half \in Halves |-> "header"] /\ touched' = {} /\ createEditor(rec.response.body.text)
      BY <3>1, Zenon DEF MountItems
    <3>3. CodeShown(rec.response.body.text)'
      BY <3>2, CreatedShows
    <3> QED BY <2>2, <3>2, <3>3 DEF ViewerInv, TabAvailable
  <2>4. CASE viewed # None
    <3>1. ItemsChange(Viewed, rec)
      BY <1>2, <2>1, <2>4, Zenon DEF Shows
    <3> QED BY <2>2, <2>4, <3>1, ViewedChanges
  <2> QED BY <2>3, <2>4
<1> QED BY <1>1, <1>2

LEMMA ShowRecordViewer ==
    ASSUME ViewerInv, NEW o, NEW times, showRecord(o, times), timed' = timed \/ o = None,
           (viewed \in timed') <=> (viewed \in timed)
    PROVE  ViewerInv'
<1>1. CASE o = None \/ o \in isFetched
  BY <1>1, ShowsViewer, Zenon DEF showRecord, onItemSelected
<1>2. CASE ~(o = None \/ o \in isFetched)
  BY <1>2, StillViewed, Zenon DEF showRecord, onItemSelected
<1> QED BY <1>1, <1>2

LEMMA ViewerStep ==
    ASSUME ViewerInv, SelectionShape, [Next]_vars
    PROVE  ViewerInv'
<1> USE DEF listVars, selectVars, replayVars, worldVars
<1>0. ASSUME UNCHANGED <<itemVars, viewed, isFetched, timed>> PROVE ViewerInv'
  BY <1>0, StillViewed, Zenon
<1>1. CASE \E o \in ToSet(recordList) : Select(o)
  BY <1>1, ShowRecordViewer, Zenon DEF Select
<1>2. ASSUME Deselect, (viewed \in timed') <=> (viewed \in timed) PROVE ViewerInv'
  <2>1. CASE selectedRecord = None
    BY <1>2, <2>1, StillViewed, Zenon DEF Deselect
  <2>2. CASE selectedRecord # None
    BY <1>2, <2>2, ShowRecordViewer, Zenon DEF Deselect
  <2> QED BY <2>1, <2>2
<1>3. CASE DashboardButton
  BY <1>2, <1>3, Zenon DEF DashboardButton
<1>4. ASSUME NEW cleared \in BOOLEAN, StreamStart(cleared) PROVE ViewerInv'
  <2>1. gen' = gen + 1 /\ gen \in Nat /\ viewed \in Current \cup {None} /\ recordList \in Seq(Current)
    BY <1>4 DEF StreamStart, SelectionShape
  <2> DEFINE anew == {[o EXCEPT !.gen = gen + 1] : o \in timed \cap ToSet(recordList)}
  <2>2. timed' = timed \cup (IF cleared THEN {} ELSE anew)
    BY <1>4, Zenon DEF StreamStart
  <2>3. viewed \notin anew
    <3>1. \A o \in ToSet(recordList) : o \in Objects
      BY <2>1 DEF ToSet, Current
    <3>2. \A o \in Objects : [o EXCEPT !.gen = gen + 1].gen = gen + 1
      BY DEF Objects
    <3>3. viewed.gen # gen + 1
      BY <2>1 DEF Current, Objects, None
    <3> QED BY <3>1, <3>2, <3>3
  <2> HIDE DEF anew
  <2>4. (viewed \in timed') <=> (viewed \in timed)
    BY <2>2, <2>3
  <2> QED BY <1>2, <1>4, <2>4, Zenon DEF StreamStart
<1>5. CASE FetchEnds
  <2>1. PICK i \in DOMAIN fetching, answer \in Answers : FetchAnswered(fetching[i], answer)
    BY <1>5, Zenon DEF FetchEnds
  <2>2. UNCHANGED timed
    BY <1>5, Zenon DEF FetchEnds
  <2>3. CASE Shows(fetching[i])
    BY <2>2, <2>3, ShowsViewer
  <2>4. CASE UNCHANGED <<itemVars, viewed, isFetched>>
    BY <1>0, <2>2, <2>4
  <2> QED BY <2>1, <2>3, <2>4, Zenon DEF FetchAnswered
<1>6. ASSUME NEW kind, NewRecord(kind) PROVE ViewerInv'
  <2>1. CASE kind # "request" /\ listeners > 0
    BY <1>6, <2>1, ShowRecordViewer, Zenon DEF NewRecord
  <2>2. CASE ~(kind # "request" /\ listeners > 0)
    BY <1>0, <1>6, <2>2, Zenon DEF NewRecord
  <2> QED BY <2>1, <2>2
<1>7. ASSUME NEW o \in ToSet(recordList), UpdateRecord(o) PROVE ViewerInv'
  <2>1. timed' = timed \cup {o} /\ UNCHANGED <<viewed, isFetched>>
    BY <1>7, Zenon DEF UpdateRecord
  <2>2. CASE viewed = None
    BY <1>7, <2>1, <2>2, Zenon DEF UpdateRecord, ViewerInv, itemVars
  <2>3. CASE viewed # None /\ o = viewed
    <3>1. PICK rec : rec = View(o, isFetched, timed')
      OBVIOUS
    <3>2. ItemsChange(Viewed, rec)
      BY <1>7, <2>3, <3>1, Zenon DEF UpdateRecord
    <3>3. Viewed' = rec
      BY <2>1, <2>3, <3>1, Zenon DEF Viewed
    <3> QED BY <2>3, <3>2, <3>3, ViewedChanges
  <2>4. CASE viewed # None /\ o # viewed
    <3>1. UNCHANGED itemVars
      BY <1>7, <2>4, Zenon DEF UpdateRecord
    <3>2. (viewed \in timed') <=> (viewed \in timed)
      BY <2>1, <2>4
    <3> QED BY <2>1, <3>1, <3>2, StillViewed, Zenon
  <2> QED BY <2>2, <2>3, <2>4
<1>8. CASE Replay \/ ReplayFails \/ FilterRecords \/ UseEditor \/ SubmitEditor \/ EditorTimer
  BY <1>0, <1>8, Zenon DEF Replay, ReplayFails, FilterRecords, UseEditor, SubmitEditor, EditorTimer
<1>9. CASE UseViewer \/ ViewerTimer
  <2>0. viewed # None /\ UNCHANGED <<viewed, isFetched, timed>>
    BY <1>9, Zenon DEF UseViewer, ViewerTimer
  <2>1. PICK rec : rec = Viewed
    OBVIOUS
  <2>2. Viewed' = rec
    BY <2>0, <2>1, Zenon DEF Viewed
  <2>3. /\ DOMAIN tabs = Halves /\ touched \subseteq Halves /\ CodeShown(rec.response.body.text)
        /\ \A half \in touched : Contains(availableTabs(rec[half]), tabs[half])
    BY <2>0, <2>1 DEF ViewerInv, TabAvailable
  <2>4. ASSUME NEW half \in Halves, NEW tab, ClickTab(half, tab, rec[half])
        PROVE  ViewerInv'
    <3>1. /\ tabs' = [tabs EXCEPT ![half] = tab] /\ UNCHANGED <<touched, editorVars>>
          /\ Contains(availableTabs(rec[half]), tab)
      BY <2>4, Zenon DEF ClickTab
    <3>2. CodeShown(rec.response.body.text)'
      BY <2>3, <3>1, Zenon DEF CodeShown, editorVars
    <3> QED BY <2>2, <2>3, <3>1, <3>2 DEF ViewerInv, TabAvailable
  <2>5. ASSUME UNCHANGED <<tabs, touched>>, CodeShown(rec.response.body.text)'
        PROVE  ViewerInv'
    BY <2>2, <2>3, <2>5 DEF ViewerInv, TabAvailable
  <2>6. CASE LoadingEnds(rec.response.body.text)
    BY <2>3, <2>5, <2>6, LoadingEndsShows DEF LoadingEnds
  <2>7. ASSUME NEW tab \in {"raw", "pretty"}, changeTab(tab, rec.response.body.text)
        PROVE  ViewerInv'
    BY <2>3, <2>5, <2>7, ChangeTabShows DEF changeTab
  <2> QED BY <1>9, <2>1, <2>4, <2>6, <2>7, Zenon DEF UseViewer, ViewerTimer
<1>10. CASE UNCHANGED vars
  BY <1>0, <1>10, Zenon DEF vars
<1> QED BY <1>1, <1>3, <1>4, <1>5, <1>6, <1>7, <1>8, <1>9, <1>10, Zenon DEF Next

LEMMA ViewerInit == Init => ViewerInv
BY DEF Init, ViewerInv, Halves

(* Whichever records are selected, and whatever comes late, the viewer's    *)
(* editor shows the body of the record that is shown or the placeholder,    *)
(* never the body of another one.  Once it is loaded it is the body, raw or *)
(* beautified as its tab says, but for a placeholder that was beautified;   *)
(* and no half stays on a tab that its item has not.                        *)
THEOREM ViewerHolds == Spec => []ViewerCurrent
<1>1. ViewerInv => ViewerCurrent
  <2> SUFFICES ASSUME ViewerInv, viewed # None PROVE EditorShowsCode /\ TabAvailable
    BY DEF ViewerCurrent
  <2>1. PICK text : text = Viewed.response.body.text
    OBVIOUS
  <2>2. CodeShown(text) /\ TabAvailable
    BY <2>1 DEF ViewerInv
  <2>3. Raw(text).text = text
    BY DEF Raw
  <2> QED BY <2>1, <2>2, <2>3, CodesAre DEF EditorShowsCode, CodeShown
<1> QED BY <1>1, ViewerInit, ViewerStep, SelectionHolds, PTL DEF Spec

-----------------------------------------------------------------------------
(* The panels of the dashboard.                                            *)

\* Only the serverElapsed of a response depends on whether there is one.
LEMMA OtherColumns ==
    ASSUME NEW o, o.id \in 1..MaxId, NEW F, NEW S
    PROVE  LET r == View(o, F, S)
               d == Data[o.id]
           IN  /\ r.request = Requests[o.id]
               /\ r.response.code = d.code /\ r.response.header = d.header
               /\ r.response.elapsed = d.elapsed
<1>1. ASSUME NEW f \in BOOLEAN, NEW s \in BOOLEAN
      PROVE  LET r == Responses[o.id][f][s]
                 d == Data[o.id]
             IN  r.code = d.code /\ r.header = d.header /\ r.elapsed = d.elapsed
  <2> DEFINE item == [code |-> Data[o.id].code, header |-> Data[o.id].header, queryParams |-> NoParams,
                      elapsed |-> Data[o.id].elapsed, serverElapsed |-> IF s THEN 1 ELSE 0,
                      body |-> IF f THEN btoa(Plain(Data[o.id].body)) ELSE NoBody, b64Body |-> NoBody]
  <2>1. Responses[o.id][f][s] = decodeBody(item)
    BY DEF Responses
  <2>2. /\ item.code = Data[o.id].code /\ item.header = Data[o.id].header
        /\ item.elapsed = Data[o.id].elapsed
    OBVIOUS
  <2>3. LET r == decodeBody(item)
        IN  r.code = item.code /\ r.header = item.header /\ r.elapsed = item.elapsed
    BY DEF decodeBody
  <2> QED BY <2>1, <2>2, <2>3
<1>2. /\ View(o, F, S).request = Requests[o.id]
      /\ View(o, F, S).response = Responses[o.id][(o \in F)][(o \in S)]
  BY DEF View
<1>3. (o \in F) \in BOOLEAN /\ (o \in S) \in BOOLEAN
  OBVIOUS
<1>4. PICK f \in BOOLEAN, s \in BOOLEAN : f = (o \in F) /\ s = (o \in S)
  BY <1>3, Zenon
<1> QED BY <1>1, <1>2, <1>3, <1>4

\* list, with a serverElapsed where an object is in timedObjects.
TimedViews(list, timedObjects) == [i \in DOMAIN list |-> View(list[i], isFetched, timedObjects)]

\* Where another record has its serverElapsed, only the averages and the
\* table of the addresses show something else.
LEMMA OnlyTwoPanelsChange ==
    ASSUME NEW list, \A i \in DOMAIN list : list[i].id \in 1..MaxId, NEW S, NEW T
    PROVE  PanelsOf(TimedViews(list, T)) =
               [PanelsOf(TimedViews(list, S)) EXCEPT
                   !.averages = processRecordsData(TimedViews(list, T)),
                   !.remoteAddresses = RemoteAddresses(TimedViews(list, T))]
<1> DEFINE a == TimedViews(list, S)
           b == TimedViews(list, T)
<1>1. DOMAIN a = DOMAIN list /\ DOMAIN b = DOMAIN list
  BY DEF TimedViews
<1>2. ASSUME NEW i \in DOMAIN list
      PROVE  /\ a[i].request = b[i].request
             /\ a[i].response.code = b[i].response.code
             /\ a[i].response.header = b[i].response.header
             /\ a[i].response.elapsed = b[i].response.elapsed
  <2>1. list[i].id \in 1..MaxId
    OBVIOUS
  <2>2. a[i] = View(list[i], isFetched, S) /\ b[i] = View(list[i], isFetched, T)
    BY DEF TimedViews
  <2> QED BY <2>1, <2>2, OtherColumns
<1> HIDE DEF a, b
<1>3. ContentTypes(a) = ContentTypes(b)
  <2>1. \A i \in DOMAIN list : ContentType(a[i]) = ContentType(b[i])
    BY <1>2 DEF ContentType, getHeader
  <2>2. [i \in DOMAIN a |-> ContentType(a[i])] = [i \in DOMAIN b |-> ContentType(b[i])]
    BY <1>1, <2>1
  <2> QED BY <2>2 DEF ContentTypes, Column
<1>4. EncodingTypes(a) = EncodingTypes(b)
  <2>1. \A i \in DOMAIN list : Encoding(a[i]) = Encoding(b[i])
    BY <1>2 DEF Encoding, getHeader
  <2>2. [i \in DOMAIN a |-> Encoding(a[i])] = [i \in DOMAIN b |-> Encoding(b[i])]
    BY <1>1, <2>1
  <2> QED BY <2>2 DEF EncodingTypes, Column
<1>5. Methods(a) = Methods(b)
  <2>1. [i \in DOMAIN a |-> Method(a[i])] = [i \in DOMAIN b |-> Method(b[i])]
    BY <1>1, <1>2 DEF Method
  <2> QED BY <2>1 DEF Methods, Column
<1>6. Statuses(a) = Statuses(b)
  <2>1. [i \in DOMAIN a |-> CodeGroup(a[i])] = [i \in DOMAIN b |-> CodeGroup(b[i])]
    BY <1>1, <1>2 DEF CodeGroup
  <2> QED BY <2>1 DEF Statuses, Column
<1>7. ResponseTimes(a) = ResponseTimes(b)
  <2>1. \A i \in DOMAIN list : Slice(a[i]) = Slice(b[i])
    BY <1>2 DEF Slice
  <2>2. [i \in DOMAIN a |-> Slice(a[i])] = [i \in DOMAIN b |-> Slice(b[i])]
    BY <1>1, <2>1
  <2> QED BY <2>2 DEF ResponseTimes, Column
<1>8. TopRemoteAddrs(a) = TopRemoteAddrs(b)
  <2>1. \A i \in DOMAIN list : Ip(a[i]) = Ip(b[i]) /\ (HasIp(a[i]) <=> HasIp(b[i]))
    BY <1>2, Zenon DEF HasIp, HasAddress, Ip
  <2>2. {i \in DOMAIN a : HasIp(a[i])} = {i \in DOMAIN b : HasIp(b[i])}
    BY <1>1, <2>1
  <2>3. [i \in {j \in DOMAIN a : HasIp(a[j])} |-> Ip(a[i])]
            = [i \in {j \in DOMAIN b : HasIp(b[j])} |-> Ip(b[i])]
    BY <1>1, <2>1, <2>2
  <2> QED BY <2>3 DEF TopRemoteAddrs, ColumnWhere
<1>9. TopPaths(a) = TopPaths(b)
  <2>1. [i \in DOMAIN a |-> Path(a[i])] = [i \in DOMAIN b |-> Path(b[i])]
    BY <1>1, <1>2 DEF Path
  <2>2. [i \in DOMAIN a |-> Elapsed(a[i])] = [i \in DOMAIN b |-> Elapsed(b[i])]
    BY <1>1, <1>2 DEF Elapsed
  <2> QED BY <2>1, <2>2 DEF TopPaths, Column
<1>10. PanelsOf(b) = [PanelsOf(a) EXCEPT !.averages = processRecordsData(b),
                                         !.remoteAddresses = RemoteAddresses(b)]
  <2> DEFINE D == {"averages", "contentTypes", "encodingTypes", "methods", "statuses", "responseTimes",
                   "topRemoteAddrs", "topPaths", "remoteAddresses"}
             old == PanelsOf(a)
             new == PanelsOf(b)
  <2>1. DOMAIN old = D
    BY DEF PanelsOf
  <2>2. new = [x \in D |-> new[x]]
    BY DEF PanelsOf
  <2>3. \A x \in D : new[x] = IF x = "remoteAddresses" THEN RemoteAddresses(b)
                              ELSE IF x = "averages" THEN processRecordsData(b) ELSE old[x]
    BY <1>3, <1>4, <1>5, <1>6, <1>7, <1>8, <1>9 DEF PanelsOf
  <2> HIDE DEF D, old, new
  <2>4. new = [old EXCEPT !.averages = processRecordsData(b), !.remoteAddresses = RemoteAddresses(b)]
    BY <2>1, <2>2, <2>3
  <2> QED BY <2>4, Zenon DEF old, new
<1> QED BY <1>10, Zenon DEF a, b

PanelsInv == sidebarRecords \in Seq(Current) /\ PanelsCurrent

\* The dashboard's objects, and what is known of them, are the same.
LEMMA SameViews ==
    ASSUME UNCHANGED <<sidebarRecords, isFetched>>,
           \A i \in DOMAIN sidebarRecords : (sidebarRecords[i] \in timed') <=> (sidebarRecords[i] \in timed)
    PROVE  Views(sidebarRecords)' = Views(sidebarRecords)
<1>1. \A i \in DOMAIN sidebarRecords :
          (sidebarRecords[i] \in timed') = (sidebarRecords[i] \in timed)
  OBVIOUS
<1>2. \A i \in DOMAIN sidebarRecords : View(sidebarRecords[i], isFetched', timed')
                                       = View(sidebarRecords[i], isFetched, timed)
  BY <1>1, Zenon DEF View
<1>3. Views(sidebarRecords)' = [i \in DOMAIN sidebarRecords' |-> View(sidebarRecords'[i], isFetched', timed')]
  BY DEF Views
<1>4. Views(sidebarRecords) = [i \in DOMAIN sidebarRecords |-> View(sidebarRecords[i], isFetched, timed)]
  BY DEF Views
<1> QED BY <1>2, <1>3, <1>4

LEMMA PanelsStill ==
    ASSUME PanelsInv, UNCHANGED <<gen, viewed, sidebarRecords, isFetched, panels>>,
           \A i \in DOMAIN sidebarRecords : (sidebarRecords[i] \in timed') <=> (sidebarRecords[i] \in timed)
    PROVE  PanelsInv'
<1>1. Views(sidebarRecords)' = Views(sidebarRecords)
  BY SameViews
<1>2. sidebarRecords' \in Seq(Current')
  BY Zenon DEF PanelsInv, Current
<1> QED BY <1>1, <1>2, Zenon DEF PanelsInv, PanelsCurrent

\* The page goes on with o, or with the dashboard.
LEMMA ShowsPanels ==
    ASSUME PanelsCurrent, NEW o, Shows(o), UNCHANGED sidebarRecords,
           o = None => isFetched' = isFetched,
           o = None => \A i \in DOMAIN sidebarRecords :
                           (sidebarRecords[i] \in timed') <=> (sidebarRecords[i] \in timed)
    PROVE  PanelsCurrent'
<1>1. CASE o # None
  BY <1>1, Zenon DEF Shows, PanelsCurrent
<1>2. CASE o = None
  <2>1. Views(sidebarRecords)' = Views(sidebarRecords)
    BY <1>2, SameViews
  <2>2. CASE viewed = None
    BY <1>2, <2>1, <2>2, Zenon DEF Shows, PanelsCurrent, panelVars
  <2>3. CASE viewed # None
    <3>1. panels' = PanelsOf(Views(sidebarRecords))
      BY <1>2, <2>3, Zenon DEF Shows, MountPanels, ShowPanels
    <3> QED BY <2>1, <3>1, Zenon DEF PanelsCurrent
  <2> QED BY <2>2, <2>3
<1> QED BY <1>1, <1>2

LEMMA ShowRecordPanels ==
    ASSUME PanelsCurrent, NEW o, NEW times, showRecord(o, times), UNCHANGED sidebarRecords,
           \A i \in DOMAIN sidebarRecords : (sidebarRecords[i] \in timed') <=> (sidebarRecords[i] \in timed)
    PROVE  PanelsCurrent'
<1>1. CASE o = None \/ o \in isFetched
  BY <1>1, ShowsPanels, Zenon DEF showRecord, onItemSelected
<1>2. CASE ~(o = None \/ o \in isFetched)
  <2>1. Views(sidebarRecords)' = Views(sidebarRecords)
    BY <1>2, SameViews, Zenon DEF showRecord, onItemSelected
  <2> QED BY <1>2, <2>1, Zenon DEF showRecord, onItemSelected, PanelsCurrent, panelVars
<1> QED BY <1>1, <1>2

LEMMA PanelsStep ==
    ASSUME PanelsInv, SelectionShape, [Next]_vars
    PROVE  PanelsInv'
<1> USE DEF listVars, selectVars, replayVars, worldVars
<1>0. ASSUME UNCHANGED <<gen, viewed, sidebarRecords, isFetched, timed, panels>> PROVE PanelsInv'
  BY <1>0, PanelsStill, Zenon
<1>a. ASSUME gen' = gen \/ gen' = gen + 1, sidebarRecords' = sidebarRecords \/ sidebarRecords' = recordList
      PROVE  sidebarRecords' \in Seq(Current')
  BY <1>a, CurrentGrows DEF SelectionShape, PanelsInv
<1>b. ASSUME NEW o, NEW times, showRecord(o, times), UNCHANGED <<gen, sidebarRecords, timed>>
      PROVE  PanelsInv'
  BY <1>a, <1>b, ShowRecordPanels, Zenon DEF PanelsInv
<1>1. CASE \E o \in ToSet(recordList) : Select(o)
  BY <1>1, <1>b, Zenon DEF Select
<1>2. CASE DashboardButton
  BY <1>b, <1>2, Zenon DEF DashboardButton, Deselect
<1>3. ASSUME NEW cleared \in BOOLEAN, StreamStart(cleared) PROVE PanelsInv'
  <2>1. gen' = gen + 1 /\ gen \in Nat /\ recordList \in Seq(Current) /\ UNCHANGED sidebarRecords
    BY <1>3 DEF StreamStart, SelectionShape
  <2> DEFINE anew == {[o EXCEPT !.gen = gen + 1] : o \in timed \cap ToSet(recordList)}
  <2>2. timed' = timed \cup (IF cleared THEN {} ELSE anew)
    BY <1>3, Zenon DEF StreamStart
  <2>3. \A i \in DOMAIN sidebarRecords : sidebarRecords[i] \notin anew
    <3>1. \A o \in ToSet(recordList) : o \in Objects
      BY <2>1 DEF ToSet, Current
    <3>2. \A o \in Objects : [o EXCEPT !.gen = gen + 1].gen = gen + 1
      BY DEF Objects
    <3>3. \A i \in DOMAIN sidebarRecords : sidebarRecords[i].gen # gen + 1
      BY <2>1 DEF Current, Objects, PanelsInv
    <3> QED BY <3>1, <3>2, <3>3
  <2> HIDE DEF anew
  <2>4. \A i \in DOMAIN sidebarRecords : (sidebarRecords[i] \in timed') <=> (sidebarRecords[i] \in timed)
    BY <2>2, <2>3
  <2>5. sidebarRecords' \in Seq(Current')
    BY <1>a, <2>1
  <2>6. CASE selectedRecord = None
    <3>1. UNCHANGED <<viewed, isFetched, panels>>
      BY <1>3, <2>6, Zenon DEF StreamStart, Deselect, panelVars
    <3>2. Views(sidebarRecords)' = Views(sidebarRecords)
      BY <2>1, <2>4, <3>1, SameViews
    <3> QED BY <2>5, <3>1, <3>2, Zenon DEF PanelsInv, PanelsCurrent
  <2>7. CASE selectedRecord # None
    BY <1>3, <2>1, <2>4, <2>5, <2>7, ShowRecordPanels, Zenon DEF StreamStart, Deselect, PanelsInv
  <2> QED BY <2>6, <2>7
<1>4. CASE FetchEnds
  <2>1. PICK i \in DOMAIN fetching, answer \in Answers : FetchAnswered(fetching[i], answer)
    BY <1>4, Zenon DEF FetchEnds
  <2>2. UNCHANGED <<gen, sidebarRecords, timed>>
    BY <1>4, Zenon DEF FetchEnds
  <2>3. fetching[i] # None
    BY DEF SelectionShape, Current, Objects, None
  <2>4. CASE Shows(fetching[i])
    BY <1>a, <2>2, <2>3, <2>4, ShowsPanels, Zenon DEF PanelsInv
  <2>5. CASE UNCHANGED <<viewed, isFetched, panels>>
    BY <1>0, <2>2, <2>5
  <2> QED BY <2>1, <2>4, <2>5, Zenon DEF FetchAnswered, panelVars
<1>5. ASSUME NEW kind, NewRecord(kind) PROVE PanelsInv'
  <2>1. CASE kind # "request" /\ listeners > 0
    BY <1>5, <1>b, <2>1, Zenon DEF NewRecord
  <2>2. CASE ~(kind # "request" /\ listeners > 0)
    BY <1>0, <1>5, <2>2, Zenon DEF NewRecord, panelVars
  <2> QED BY <2>1, <2>2
<1>6. ASSUME NEW o \in ToSet(recordList), UpdateRecord(o) PROVE PanelsInv'
  <2>1. timed' = timed \cup {o} /\ UNCHANGED <<viewed, isFetched, gen, sidebarRecords>>
    BY <1>6, Zenon DEF UpdateRecord
  <2>2. sidebarRecords' \in Seq(Current')
    BY <1>a, <2>1
  <2>3. CASE viewed # None
    BY <2>1, <2>2, <2>3, Zenon DEF PanelsInv, PanelsCurrent
  <2>4. CASE viewed = None /\ o \notin ToSet(sidebarRecords)
    <3>1. panels' = panels
      BY <1>6, <2>4, Zenon DEF UpdateRecord, panelVars
    <3>2. \A i \in DOMAIN sidebarRecords : sidebarRecords[i] # o
      BY <2>4 DEF ToSet
    <3>3. \A i \in DOMAIN sidebarRecords : (sidebarRecords[i] \in timed') <=> (sidebarRecords[i] \in timed)
      BY <2>1, <3>2
    <3> QED BY <2>1, <3>1, <3>3, PanelsStill
  <2>5. CASE viewed = None /\ o \in ToSet(sidebarRecords)
    <3> DEFINE rs == TimedViews(sidebarRecords, timed')
    <3>1. UpdatePanels(rs)
      BY <1>6, <2>5, Zenon DEF UpdateRecord, TimedViews
    <3>2. panels = PanelsOf(TimedViews(sidebarRecords, timed))
      BY <2>5, Zenon DEF PanelsInv, PanelsCurrent, Views, TimedViews
    <3>3. \A i \in DOMAIN sidebarRecords : sidebarRecords[i].id \in 1..MaxId
      BY DEF PanelsInv, Current, Objects
    <3>4. panels' = [panels EXCEPT !.averages = processRecordsData(rs),
                                   !.remoteAddresses = RemoteAddresses(rs)]
      BY <3>1, Zenon DEF UpdatePanels
    <3> HIDE DEF rs
    <3>5. panels' = PanelsOf(rs)
      BY <3>2, <3>3, <3>4, OnlyTwoPanelsChange, Zenon DEF rs
    <3>6. Views(sidebarRecords)' = rs
      BY <2>1, Zenon DEF rs, Views, TimedViews
    <3> QED BY <2>2, <3>5, <3>6, Zenon DEF PanelsInv, PanelsCurrent
  <2> QED BY <2>3, <2>4, <2>5
<1>7. CASE FilterRecords
  <2>1. sidebarRecords' = recordList /\ UNCHANGED <<viewed, isFetched, timed, gen>>
    BY <1>7, Zenon DEF FilterRecords
  <2>2. sidebarRecords' \in Seq(Current')
    BY <1>a, <2>1
  <2>3. viewed = None => panels' = PanelsOf(Views(recordList))
    BY <1>7, Zenon DEF FilterRecords, ReplacePanels, ShowPanels
  <2>4. Views(sidebarRecords)' = Views(recordList)
    BY <2>1, Zenon DEF Views
  <2> QED BY <2>1, <2>2, <2>3, <2>4, Zenon DEF PanelsInv, PanelsCurrent
<1>8. CASE Replay \/ ReplayFails \/ UseViewer \/ ViewerTimer \/ UseEditor \/ SubmitEditor \/ EditorTimer
  BY <1>0, <1>8, Zenon DEF Replay, ReplayFails, UseViewer, ViewerTimer, UseEditor, SubmitEditor,
                           EditorTimer, panelVars
<1>9. CASE UNCHANGED vars
  BY <1>0, <1>9, Zenon DEF vars, panelVars
<1> QED BY <1>1, <1>2, <1>3, <1>4, <1>5, <1>6, <1>7, <1>8, <1>9, Zenon DEF Next

LEMMA PanelsInit == Init => PanelsInv
<1> SUFFICES ASSUME Init PROVE PanelsInv
  OBVIOUS
<1>1. sidebarRecords = <<>>
  BY Zenon DEF Init
<1>2. Views(sidebarRecords) = <<>>
  BY <1>1 DEF Views
<1>3. sidebarRecords \in Seq(Current)
  BY <1>1
<1> QED BY <1>2, <1>3, Zenon DEF Init, PanelsInv, PanelsCurrent

(* Whatever is listed, copied, updated or shown in between, the dashboard's *)
(* panels show what they would show if they were made anew: those that are  *)
(* not told of a change within a record do not depend on it.                *)
THEOREM PanelsHold == Spec => []PanelsCurrent
<1>1. PanelsInv => PanelsCurrent
  BY DEF PanelsInv
<1> QED BY <1>1, PanelsInit, PanelsStep, SelectionHolds, PTL DEF Spec

-----------------------------------------------------------------------------
(* The colours of the charts.                                              *)

\* Chart.js has a colour for each label so far, the next one for the next
\* label, as long as there are enough.
ColorsGiven(colors) ==
    /\ IsFiniteSet(DOMAIN colors)
    /\ Cardinality(DOMAIN colors) <= PaletteSize =>
           /\ \A l \in DOMAIN colors : colors[l] \in 0..Cardinality(DOMAIN colors) - 1
           /\ \A l, m \in DOMAIN colors : colors[l] = colors[m] => l = m

\* A listing in which no label comes twice.
LabelledOnce(s) ==
    /\ \E n \in Nat : DOMAIN s = 1..n
    /\ \A i, j \in DOMAIN s : s[i].label = s[j].label => i = j

\* How many of a set of numbers are smaller than one of them.
LEMMA SmallerOnes ==
    ASSUME NEW S \in SUBSET Nat, IsFiniteSet(S)
    PROVE  LET before(i) == Cardinality({j \in S : j < i})
           IN  /\ Cardinality(S) \in Nat
               /\ \A i \in S : before(i) \in 0..Cardinality(S) - 1
               /\ \A i, j \in S : before(i) = before(j) => i = j
<1> DEFINE R == {p \in S \X S : p[1] < p[2]}
           before(i) == Cardinality({j \in S : j < i})
<1>1. \A x, y : <<x, y>> \in R <=> x \in S /\ y \in S /\ x < y
  OBVIOUS
<1>2. Orders(R, S)
  <2>1. S \subseteq Nat
    OBVIOUS
  <2> QED BY <1>1, <2>1 DEF Orders
<1>3. \A i \in S : before(i) = Cardinality(Before(i, S, R))
  BY <1>1, Zenon DEF Before
<1> HIDE DEF R
<1>4. Cardinality(S) \in Nat /\ \A i \in S : before(i) \in 0..Cardinality(S) - 1
  <2>1. /\ Cardinality(S) \in Nat
        /\ \A i \in S : Cardinality(Before(i, S, R)) \in 0..Cardinality(S) - 1
    BY <1>2, PlaceTaken
  <2> HIDE DEF before
  <2> QED BY <1>3, <2>1
<1>5. \A i, j \in S : i < j => before(i) < before(j)
  <2> SUFFICES ASSUME NEW i \in S, NEW j \in S, i < j PROVE before(i) < before(j)
    OBVIOUS
  <2>1. Cardinality(Before(i, S, R)) < Cardinality(Before(j, S, R))
    BY <1>1, <1>2, BeforeGrows
  <2> HIDE DEF before
  <2> QED BY <1>3, <2>1
<1> HIDE DEF before
<1>6. \A i, j \in S : before(i) = before(j) => i = j
  BY <1>4, <1>5
<1> QED BY <1>4, <1>6 DEF before

LEMMA SmallRemainder ==
    ASSUME NEW P \in Nat \ {0}, NEW a \in 0..P - 1
    PROVE  a % P = a
OBVIOUS

\* colorfy goes on where it was.
LEMMA ColorfyGives ==
    ASSUME NEW colors, ColorsGiven(colors), NEW labels, NEW n \in Nat, DOMAIN labels = 1..n,
           \A i, j \in 1..n : labels[i] = labels[j] => i = j
    PROVE  LET new == colorfy(colors, labels)
           IN  /\ ColorsGiven(new)
               /\ \A l \in DOMAIN colors : l \in DOMAIN new /\ new[l] = colors[l]
<1> DEFINE D == DOMAIN colors
           d == Cardinality(D)
           fresh == {i \in DOMAIN labels : labels[i] \notin D}
           before(i) == Cardinality({j \in fresh : j < i})
           new == colorfy(colors, labels)
           All == D \cup ToSet(labels)
           P == PaletteSize
<1>1. ToSet(labels) = {labels[i] : i \in 1..n}
  BY DEF ToSet
<1>2. P \in Nat \ {0} /\ IsFiniteSet(D) /\ d \in Nat
  BY PanelsAssumption, FS_CardinalityType DEF ColorsGiven
<1>3. fresh \in SUBSET Nat /\ IsFiniteSet(fresh) /\ fresh \subseteq 1..n
  BY FS_Interval, FS_Subset
<1>4. /\ Cardinality(fresh) \in Nat
      /\ \A i \in fresh : before(i) \in 0..Cardinality(fresh) - 1
      /\ \A i, j \in fresh : before(i) = before(j) => i = j
  BY <1>3, SmallerOnes
<1>5. /\ DOMAIN new = All
      /\ \A l \in D : new[l] = colors[l]
      /\ \A i \in fresh : new[labels[i]] = (d + before(i)) % P
  <2>1. \A i \in fresh : (CHOOSE j \in DOMAIN labels : labels[j] = labels[i]) = i
    OBVIOUS
  <2>2. \A i \in fresh : labels[i] \in All \ D
    BY <1>1
  <2> DEFINE Place(l) == CHOOSE i \in DOMAIN labels : labels[i] = l
  <2>3. new = [l \in All |-> IF l \in D THEN colors[l] ELSE (d + before(Place(l))) % P]
    BY Zenon DEF colorfy
  <2> HIDE DEF new, fresh, D, d, before, All, P, Place
  <2>4. \A i \in fresh : Place(labels[i]) = i
    BY <2>1, Zenon DEF Place
  <2>5. \A i \in fresh : new[labels[i]] = (d + before(i)) % P
    BY <2>2, <2>3, <2>4
  <2> QED BY <2>3, <2>5 DEF All
<1>6. IsFiniteSet(All) /\ Cardinality(All) = d + Cardinality(fresh)
  <2> DEFINE N == {labels[i] : i \in fresh}
             f == [i \in fresh |-> labels[i]]
  <2>1. f \in Bijection(fresh, N)
    BY DEF Bijection, Injection, Surjection, IsInjective
  <2>2. IsFiniteSet(N) /\ Cardinality(N) = Cardinality(fresh)
    BY <1>3, <2>1, FS_Bijection DEF ExistsBijection
  <2>3. All = D \cup N /\ D \cap N = {}
    BY <1>1
  <2> HIDE DEF D, N, d, All, fresh
  <2>4. IsFiniteSet(All) /\ Cardinality(All) = Cardinality(D) + Cardinality(N) - Cardinality({})
    BY <1>2, <2>2, <2>3, FS_Union
  <2> QED BY <1>2, <1>4, <2>2, <2>4, FS_EmptySet DEF d
<1>7. \A l \in All : l \in D \/ \E i \in fresh : l = labels[i]
  BY <1>1
<1>8. d <= P => /\ \A l \in D : colors[l] \in 0..d - 1
                /\ \A l, m \in D : colors[l] = colors[m] => l = m
  BY DEF ColorsGiven
<1> HIDE DEF D, d, fresh, before, new, All, P
<1>9. ASSUME Cardinality(All) <= P
      PROVE  /\ \A l \in All : new[l] \in 0..Cardinality(All) - 1
             /\ \A l, m \in All : new[l] = new[m] => l = m
  <2>1. d <= P
    BY <1>2, <1>4, <1>6, <1>9
  <2>2. \A l \in D : new[l] \in 0..d - 1
    BY <1>5, <1>8, <2>1
  <2>3. \A i \in fresh : new[labels[i]] = d + before(i)
    <3> SUFFICES ASSUME NEW i \in fresh PROVE new[labels[i]] = d + before(i)
      OBVIOUS
    <3>1. d + before(i) \in 0..P - 1
      BY <1>2, <1>4, <1>6, <1>9
    <3> QED BY <1>2, <1>5, <3>1, SmallRemainder
  <2>4. \A l \in All : new[l] \in 0..Cardinality(All) - 1
    BY <1>2, <1>4, <1>6, <1>7, <2>2, <2>3
  <2>5. ASSUME NEW l \in All, NEW m \in All, new[l] = new[m] PROVE l = m
    <3>1. CASE l \in D /\ m \in D
      BY <1>5, <1>8, <2>1, <2>5, <3>1
    <3>2. ASSUME NEW x \in D, NEW i \in fresh PROVE new[x] # new[labels[i]]
      BY <1>2, <1>4, <2>2, <2>3
    <3>3. CASE l \notin D /\ m \notin D
      <4>1. PICK i \in fresh, j \in fresh : l = labels[i] /\ m = labels[j]
        BY <1>7, <3>3
      <4>2. before(i) = before(j)
        BY <1>2, <1>4, <2>3, <2>5, <4>1
      <4> QED BY <1>4, <4>1, <4>2
    <3> QED BY <1>7, <2>5, <3>1, <3>2, <3>3
  <2> QED BY <2>4, <2>5
<1>10. ColorsGiven(new)
  BY <1>5, <1>6, <1>9 DEF ColorsGiven, P
<1>11. \A l \in D : l \in DOMAIN new /\ new[l] = colors[l]
  BY <1>5 DEF All
<1> QED BY <1>10, <1>11, Zenon DEF D, new

\* The values of a column come once, each with its count.
LEMMA TalliedOnce ==
    ASSUME NEW column, IsFiniteSet(DOMAIN column), DOMAIN column \subseteq Nat
    PROVE  /\ LabelledOnce(Tally(column))
           /\ \A i \in DOMAIN Tally(column) : Tally(column)[i].count \in Nat
<1> DEFINE first == {i \in DOMAIN column : \A j \in DOMAIN column : j < i => column[j] # column[i]}
           firsts == Ascending(first)
           values == Distinct(column)
           m == Cardinality(first)
<1>1. first \in SUBSET Nat /\ first \subseteq DOMAIN column /\ IsFiniteSet(first)
  BY FS_Subset
<1>2. m \in Nat /\ firsts \in [1..m -> first] /\ \A i, j \in 1..m : i < j => firsts[i] < firsts[j]
  BY <1>1, AscendingSorts
<1>3. values = [k \in DOMAIN firsts |-> column[firsts[k]]]
  BY Zenon DEF Distinct
<1>4. \A i \in first, j \in DOMAIN column : j < i => column[j] # column[i]
  OBVIOUS
<1> HIDE DEF first, firsts, values, m
<1>5. DOMAIN values = 1..m /\ \A i, j \in 1..m : i < j => values[i] # values[j]
  BY <1>1, <1>2, <1>3, <1>4
<1>6. \A i, j \in 1..m : values[i] = values[j] => i = j
  BY <1>2, <1>5
<1>7. Tally(column) = [i \in 1..m |-> [label |-> values[i], count |-> Cardinality(Places(column, values[i]))]]
  BY <1>5 DEF Tally, Counted, values
<1>8. \A v : Cardinality(Places(column, v)) \in Nat
  <2> SUFFICES ASSUME NEW v PROVE Cardinality(Places(column, v)) \in Nat
    OBVIOUS
  <2>1. Places(column, v) \subseteq DOMAIN column
    BY DEF Places
  <2> QED BY <2>1, FS_Subset, FS_CardinalityType
<1>9. DOMAIN Tally(column) = 1..m
  BY <1>7
<1>10. ASSUME NEW i \in 1..m
       PROVE  Tally(column)[i].label = values[i] /\ Tally(column)[i].count \in Nat
  BY <1>7, <1>8
<1>11. LabelledOnce(Tally(column))
  BY <1>2, <1>6, <1>9, <1>10 DEF LabelledOnce
<1> QED BY <1>9, <1>10, <1>11

LEMMA TopOnce ==
    ASSUME NEW s, LabelledOnce(s), \A i \in DOMAIN s : s[i].count \in Nat, NEW size \in Nat
    PROVE  LabelledOnce(Top(s, size))
<1> DEFINE rows == DOMAIN s
           R == {p \in rows \X rows :
                    \/ s[p[1]].count > s[p[2]].count
                    \/ s[p[1]].count = s[p[2]].count /\ p[1] < p[2]}
           order == Listing(rows, R)
           sorted == [k \in DOMAIN order |-> s[order[k]]]
<1>1. PICK n \in Nat : rows = 1..n
  BY DEF LabelledOnce
<1>2. IsFiniteSet(rows) /\ Cardinality(rows) = n
  BY <1>1, FS_Interval
<1>3. \A i, j : <<i, j>> \in R <=> /\ i \in rows /\ j \in rows
                                   /\ \/ s[i].count > s[j].count
                                      \/ s[i].count = s[j].count /\ i < j
  OBVIOUS
<1>4. Top(s, size) = FirstOf(sorted, size)
  BY Zenon DEF Top
<1>5. \A i, j \in rows : s[i].label = s[j].label => i = j
  BY DEF LabelledOnce
<1> HIDE DEF R
<1>6. Orders(R, rows)
  <2> DEFINE count(i) == s[i].count
  <2>1. \A i \in rows : i \in Nat /\ count(i) \in Nat
    BY <1>1
  <2>2. \A i, j : <<i, j>> \in R <=> /\ i \in rows /\ j \in rows
                                     /\ \/ count(i) > count(j)
                                        \/ count(i) = count(j) /\ i < j
    BY <1>3
  <2> HIDE DEF count, rows
  <2> QED BY <2>1, <2>2 DEF Orders
<1>7. IsListing(order, rows, R)
  BY <1>2, <1>6, ListingSorts
<1> HIDE DEF order
<1>8. order \in [1..n -> 1..n] /\ \A i, j \in 1..n : order[i] = order[j] => i = j
  <2>1. order \in [1..n -> rows] /\ \A i, j \in 1..n : i < j => <<order[i], order[j]>> \in R
    BY <1>2, <1>7, Zenon DEF IsListing
  <2>2. \A i \in rows : <<i, i>> \notin R
    BY <1>6 DEF Orders
  <2>3. \A i, j \in 1..n : i < j => order[i] # order[j]
    BY <2>1, <2>2
  <2> QED BY <1>1, <2>1, <2>3
<1>9. sorted \in Seq({s[i] : i \in 1..n}) /\ Len(sorted) = n /\ \A k \in 1..n : sorted[k] = s[order[k]]
  BY <1>8
<1> HIDE DEF sorted
<1>10. PICK m \in 0..n : FirstOf(sorted, size) = SubSeq(sorted, 1, m)
  <2> DEFINE shorter == IF Len(sorted) < size THEN Len(sorted) ELSE size
  <2>1. shorter \in 0..n
    BY <1>9
  <2>2. FirstOf(sorted, size) = SubSeq(sorted, 1, shorter)
    BY Zenon DEF FirstOf
  <2> HIDE DEF shorter
  <2> QED BY <2>1, <2>2, Zenon
<1>11. DOMAIN SubSeq(sorted, 1, m) = 1..m /\ \A k \in 1..m : SubSeq(sorted, 1, m)[k] = s[order[k]]
  BY <1>9
<1>12. \A i, j \in 1..m : s[order[i]].label = s[order[j]].label => i = j
  BY <1>1, <1>5, <1>8
<1> DEFINE top == SubSeq(sorted, 1, m)
<1>13. DOMAIN top = 1..m /\ m \in Nat
  BY <1>11
<1>14. \A i, j \in 1..m : top[i].label = top[j].label => i = j
  BY <1>11, <1>12
<1> HIDE DEF top
<1>15. LabelledOnce(top)
  BY <1>13, <1>14 DEF LabelledOnce
<1> QED BY <1>4, <1>10, <1>15, Zenon DEF top

LEMMA ChartsLabelOnce ==
    ASSUME NEW rs, NEW n \in Nat, DOMAIN rs = 1..n, NEW chart \in Charts
    PROVE  LabelledOnce(PanelsOf(rs)[chart])
<1>1. PanelsOf(rs)["contentTypes"] = Tally([i \in DOMAIN rs |-> ContentType(rs[i])])
  BY DEF PanelsOf, ContentTypes, Column
<1>2. PanelsOf(rs)["encodingTypes"] = Tally([i \in DOMAIN rs |-> Encoding(rs[i])])
  BY DEF PanelsOf, EncodingTypes, Column
<1> DEFINE addressed == {i \in DOMAIN rs : HasIp(rs[i])}
<1>3. PanelsOf(rs)["topRemoteAddrs"] = Top(Tally([i \in addressed |-> Ip(rs[i])]), TopSize)
  BY DEF PanelsOf, TopRemoteAddrs, ColumnWhere
<1>a. IsFiniteSet(DOMAIN rs) /\ DOMAIN rs \subseteq Nat
  BY FS_Interval
<1>b. IsFiniteSet(addressed) /\ addressed \subseteq Nat
  BY <1>a, FS_Subset
<1>4. LabelledOnce(Tally([i \in DOMAIN rs |-> ContentType(rs[i])]))
  BY <1>a, TalliedOnce
<1>5. LabelledOnce(Tally([i \in DOMAIN rs |-> Encoding(rs[i])]))
  BY <1>a, TalliedOnce
<1> HIDE DEF addressed
<1>6. LabelledOnce(Top(Tally([i \in addressed |-> Ip(rs[i])]), TopSize))
  BY <1>b, TalliedOnce, TopOnce, PanelsAssumption
<1> QED BY <1>1, <1>2, <1>3, <1>4, <1>5, <1>6 DEF Charts

\* The charts go on from the colours given.
LEMMA PanelsColored ==
    ASSUME NEW colors, \A chart \in Charts : ColorsGiven(colors[chart]),
           NEW rs, NEW n \in Nat, DOMAIN rs = 1..n, ShowPanels(PanelsOf(rs), colors),
           NEW chart \in Charts
    PROVE  /\ ColorsGiven(labelColors'[chart])
           /\ \A l \in DOMAIN colors[chart] : /\ l \in DOMAIN labelColors'[chart]
                                              /\ labelColors'[chart][l] = colors[chart][l]
<1> DEFINE s == PanelsOf(rs)[chart]
           labels == [i \in DOMAIN s |-> s[i].label]
<1>1. labelColors'[chart] = colorfy(colors[chart], labels)
  BY DEF ShowPanels
<1>2. LabelledOnce(s)
  BY ChartsLabelOnce
<1> HIDE DEF s
<1>3. PICK m \in Nat : DOMAIN s = 1..m /\ \A i, j \in 1..m : s[i].label = s[j].label => i = j
  BY <1>2 DEF LabelledOnce
<1>4. DOMAIN labels = 1..m /\ \A i, j \in 1..m : labels[i] = labels[j] => i = j
  BY <1>3
<1> HIDE DEF labels
<1> QED BY <1>1, <1>4, ColorfyGives

ColorsInv == viewed = None => \A chart \in Charts : ColorsGiven(labelColors[chart])

\* What may happen to the colours: the dashboard is left, stays as it is, is
\* made anew or told of another list.
LEMMA ShowsMovesColors ==
    ASSUME NEW o, Shows(o)
    PROVE  \/ viewed' # None
           \/ viewed = None /\ UNCHANGED labelColors
           \/ viewed # None /\ MountPanels(Views(sidebarRecords))
BY Zenon DEF Shows, panelVars

LEMMA ShowRecordMovesColors ==
    ASSUME NEW o, NEW times, showRecord(o, times)
    PROVE  \/ viewed' # None
           \/ viewed = None /\ UNCHANGED labelColors
           \/ viewed # None /\ MountPanels(Views(sidebarRecords))
<1>1. CASE o = None \/ o \in isFetched
  BY <1>1, ShowsMovesColors, Zenon DEF showRecord, onItemSelected
<1>2. CASE ~(o = None \/ o \in isFetched)
  <2>1. UNCHANGED <<viewed, labelColors>>
    BY <1>2, Zenon DEF showRecord, onItemSelected, panelVars
  <2> QED BY <2>1
<1> QED BY <1>1, <1>2

LEMMA ColorsMove ==
    ASSUME [Next]_vars
    PROVE  \/ viewed' # None
           \/ viewed = None /\ UNCHANGED labelColors
           \/ viewed # None /\ MountPanels(Views(sidebarRecords))
           \/ viewed = None /\ ReplacePanels(Views(recordList))
<1> DEFINE Moves == \/ viewed' # None
                    \/ viewed = None /\ UNCHANGED labelColors
                    \/ viewed # None /\ MountPanels(Views(sidebarRecords))
                    \/ viewed = None /\ ReplacePanels(Views(recordList))
<1> USE DEF listVars, selectVars, replayVars, worldVars
<1>0. ASSUME UNCHANGED <<viewed, labelColors>> PROVE Moves
  <2>1. CASE viewed = None
    BY <1>0, <2>1, Zenon
  <2>2. CASE viewed # None
    <3>1. viewed' # None
      BY <1>0, <2>2
    <3> QED BY <3>1, Zenon
  <2> QED BY <2>1, <2>2
<1>s. ASSUME NEW o, NEW times, showRecord(o, times) PROVE Moves
  <2>1. \/ viewed' # None
        \/ viewed = None /\ UNCHANGED labelColors
        \/ viewed # None /\ MountPanels(Views(sidebarRecords))
    BY <1>s, ShowRecordMovesColors
  <2> QED BY <2>1, Zenon
<1>d. ASSUME Deselect PROVE Moves
  BY <1>0, <1>d, <1>s, Zenon DEF Deselect, panelVars
<1> HIDE DEF Moves
<1> SUFFICES Moves
  BY Zenon DEF Moves
<1>1. CASE \E o \in ToSet(recordList) : Select(o)
  BY <1>1, <1>s, Zenon DEF Select
<1>2. CASE DashboardButton \/ \E cleared \in BOOLEAN : StreamStart(cleared)
  BY <1>2, <1>d, Zenon DEF DashboardButton, StreamStart
<1>3. CASE FetchEnds
  <2>1. PICK i \in DOMAIN fetching, answer \in Answers : FetchAnswered(fetching[i], answer)
    BY <1>3, Zenon DEF FetchEnds
  <2>2. CASE Shows(fetching[i])
    BY <2>2, ShowsMovesColors, Zenon DEF Moves
  <2>3. CASE UNCHANGED <<viewed, panelVars>>
    BY <1>0, <2>3, Zenon DEF panelVars
  <2> QED BY <2>1, <2>2, <2>3, Zenon DEF FetchAnswered
<1>4. ASSUME NEW kind, NewRecord(kind) PROVE Moves
  <2>1. CASE kind # "request" /\ listeners > 0
    BY <1>4, <1>s, <2>1, Zenon DEF NewRecord
  <2>2. CASE ~(kind # "request" /\ listeners > 0)
    BY <1>0, <1>4, <2>2, Zenon DEF NewRecord, panelVars
  <2> QED BY <2>1, <2>2
<1>5. ASSUME NEW o, UpdateRecord(o) PROVE Moves
  <2>1. viewed' = viewed
    BY <1>5, Zenon DEF UpdateRecord
  <2>2. ASSUME NEW rs, UpdatePanels(rs) PROVE labelColors' = labelColors
    BY <2>2, Zenon DEF UpdatePanels
  <2>3. labelColors' = labelColors
    BY <1>5, <2>2, Zenon DEF UpdateRecord, panelVars
  <2> QED BY <1>0, <2>1, <2>3
<1>6. CASE FilterRecords
  <2>1. viewed' = viewed
    BY <1>6, Zenon DEF FilterRecords
  <2>2. IF viewed = None THEN ReplacePanels(Views(recordList)) ELSE UNCHANGED panelVars
    BY <1>6, Zenon DEF FilterRecords
  <2>3. CASE viewed = None
    BY <2>2, <2>3, Zenon DEF Moves
  <2>4. CASE viewed # None
    <3>1. viewed' # None
      BY <2>1, <2>4
    <3> QED BY <3>1, Zenon DEF Moves
  <2> QED BY <2>3, <2>4
<1>7. CASE Replay \/ ReplayFails \/ UseViewer \/ ViewerTimer \/ UseEditor \/ SubmitEditor \/ EditorTimer
  BY <1>0, <1>7, Zenon DEF Replay, ReplayFails, UseViewer, ViewerTimer, UseEditor, SubmitEditor,
                           EditorTimer, panelVars
<1>8. CASE UNCHANGED vars
  BY <1>0, <1>8, Zenon DEF vars, panelVars
<1> QED BY <1>1, <1>2, <1>3, <1>4, <1>5, <1>6, <1>7, <1>8, Zenon DEF Next

LEMMA NoColors == ColorsGiven(<<>>)
<1>1. DOMAIN <<>> = {}
  OBVIOUS
<1> QED BY <1>1, FS_EmptySet DEF ColorsGiven

LEMMA ColorsStep ==
    ASSUME ColorsInv, SelectionShape, PanelsInv, [Next]_vars
    PROVE  /\ ColorsInv'
           /\ viewed = None /\ viewed' = None =>
                  \A chart \in Charts :
                      \A l \in DOMAIN labelColors[chart] : labelColors'[chart][l] = labelColors[chart][l]
<1> SUFFICES ASSUME viewed' = None
             PROVE  /\ \A chart \in Charts : ColorsGiven(labelColors'[chart])
                    /\ viewed = None =>
                           \A chart \in Charts :
                               \A l \in DOMAIN labelColors[chart] :
                                   labelColors'[chart][l] = labelColors[chart][l]
  BY Zenon DEF ColorsInv
<1>1. CASE viewed = None /\ UNCHANGED labelColors
  BY <1>1, Zenon DEF ColorsInv
<1>2. CASE viewed # None /\ MountPanels(Views(sidebarRecords))
  <2> DEFINE none == [chart \in Charts |-> <<>>]
             rs == Views(sidebarRecords)
  <2>1. \A chart \in Charts : ColorsGiven(none[chart])
    BY NoColors
  <2>2. ShowPanels(PanelsOf(rs), none)
    BY <1>2, Zenon DEF MountPanels
  <2>3. PICK n \in Nat : DOMAIN rs = 1..n
    BY DEF PanelsInv, Views
  <2> HIDE DEF none, rs
  <2> QED BY <1>2, <2>1, <2>2, <2>3, PanelsColored
<1>3. CASE viewed = None /\ ReplacePanels(Views(recordList))
  <2> DEFINE rs == Views(recordList)
  <2>1. \A chart \in Charts : ColorsGiven(labelColors[chart])
    BY <1>3, Zenon DEF ColorsInv
  <2>2. ShowPanels(PanelsOf(rs), labelColors)
    BY <1>3, Zenon DEF ReplacePanels
  <2>3. PICK n \in Nat : DOMAIN rs = 1..n
    BY DEF SelectionShape, Views
  <2> HIDE DEF rs
  <2> QED BY <2>1, <2>2, <2>3, PanelsColored
<1> QED BY <1>1, <1>2, <1>3, ColorsMove, Zenon

LEMMA ColorsInit == Init => ColorsInv
<1> SUFFICES ASSUME Init PROVE ColorsInv
  OBVIOUS
<1>1. labelColors = [chart \in Charts |-> <<>>]
  BY Zenon DEF Init
<1> QED BY <1>1, NoColors DEF ColorsInv

(* As long as the dashboard is shown a label keeps its colour, whatever the *)
(* list becomes, and while a chart has no more labels than there are        *)
(* colours no two of them share one: the colours given so far are as many   *)
(* as the labels, so the next one is a new one.                             *)
THEOREM ColorsHold == Spec => ColorsKept
<1>1. ColorsInv /\ SelectionShape /\ PanelsInv /\ [Next]_vars => ColorsInv'
  BY ColorsStep
<1>2. ColorsInv /\ SelectionShape /\ PanelsInv /\ [Next]_vars =>
          [viewed = None /\ viewed' = None =>
              \A chart \in Charts :
                  /\ \A l \in DOMAIN labelColors[chart] : labelColors'[chart][l] = labelColors[chart][l]
                  /\ Cardinality(DOMAIN labelColors'[chart]) <= PaletteSize => IsInjective(labelColors'[chart])
            ]_vars
  <2> SUFFICES ASSUME ColorsInv, SelectionShape, PanelsInv, [Next]_vars, viewed = None, viewed' = None,
                      NEW chart \in Charts
               PROVE  /\ \A l \in DOMAIN labelColors[chart] : labelColors'[chart][l] = labelColors[chart][l]
                      /\ Cardinality(DOMAIN labelColors'[chart]) <= PaletteSize => IsInjective(labelColors'[chart])
    OBVIOUS
  <2>1. ColorsGiven(labelColors'[chart])
    BY ColorsStep, Zenon DEF ColorsInv
  <2>2. Cardinality(DOMAIN labelColors'[chart]) <= PaletteSize => IsInjective(labelColors'[chart])
    BY <2>1, Zenon DEF ColorsGiven, IsInjective
  <2> QED BY <2>2, ColorsStep, Zenon
<1> QED BY <1>1, <1>2, ColorsInit, PanelsInit, PanelsStep, SelectionHolds, PTL DEF Spec, ColorsKept
=============================================================================
