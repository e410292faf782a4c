----------------------------- MODULE RecordItems -----------------------------
(***************************************************************************)
(* The two halves of the record viewer (RecordItem.js): the request and    *)
(* the response, each with its tabs, and the code editor (CodeEditor.js)   *)
(* that shows the response's body raw or beautified.  The request's body   *)
(* has another one, the same component, which is left out here.  The       *)
(* viewer stays when another record is selected; only what it is given     *)
(* changes.                                                                *)
(***************************************************************************)
EXTENDS RequestCodec

CONSTANT
    PrettyTypes     \* the content types $beautifier.supports

VARIABLES
    tabs,           \* the tab of each half
    touched,        \* history: halves whose item has changed since mounted()
    editorTab, prettyCode, editorValue, \* the code editor
    loading,        \* its timer of two seconds runs
    prettyEarly     \* history: Pretty was asked for while it ran

editorVars == <<editorTab, prettyCode, editorValue, loading, prettyEarly>>
itemVars == <<tabs, touched, editorVars>>

Halves == {"request", "response"}

-----------------------------------------------------------------------------
hasHeader(item) == DOMAIN item.header # {}
hasParam(item) == DOMAIN item.queryParams # {}
hasBody(item) == ~IsEmpty(item.body)

\* Only the header in exactly this case tells the type.
content(item) ==
    parseContentType(IF "Content-Type" \in DOMAIN item.header THEN item.header["Content-Type"] ELSE {})

isPreviewSupported(item) ==
    hasBody(item) /\ content(item).category \in {"image", "video", "audio"}

PushIf(has, tab) == IF has THEN <<tab>> ELSE <<>>

\* The tabs an item has, the one to fall back on first.
availableTabs(item) ==
    PushIf(isPreviewSupported(item), "preview") \o PushIf(hasBody(item), "body")
        \o PushIf(hasParam(item), "param") \o PushIf(hasHeader(item), "header") \o <<"raw">>

selectAvailableTab(tab, item) ==
    IF Contains(availableTabs(item), tab) THEN tab ELSE Head(availableTabs(item))

-----------------------------------------------------------------------------
Raw(text) == [text |-> text, pretty |-> FALSE]

beautify(value) == [value EXCEPT !.pretty = TRUE]

isPrettyEnabled(item) == content(item).type \in PrettyTypes

\* createEditor: a long text is shown two seconds later, after a placeholder.
createEditor(code) ==
    /\ editorTab' = "raw" /\ prettyCode' = {} /\ prettyEarly' = FALSE
    /\ loading' = (code \in LongTexts)
    /\ editorValue' = IF code \in LongTexts THEN Raw(LoadingText) ELSE Raw(code)

\* Mutant: the beautified code of the text before is kept.
setCodeKeeping(code) ==
    /\ editorValue' = Raw(code)
    /\ UNCHANGED <<editorTab, prettyCode, loading, prettyEarly>>

\* setCode, which the watcher of the code calls: also for a long text, and
\* whether or not the timer runs.
setCode(code) ==
    /\ editorTab' = "raw" /\ prettyCode' = {} /\ prettyEarly' = FALSE
    /\ editorValue' = Raw(code)
    /\ UNCHANGED loading

\* The timer shows what the code is by now, whatever tab is shown.
LoadingEnds(code) ==
    /\ loading
    /\ loading' = FALSE
    /\ editorValue' = Raw(code)
    /\ UNCHANGED <<editorTab, prettyCode, prettyEarly, tabs, touched>>

\* changeTab beautifies what the editor holds, the first time.
changeTab(tab, code) ==
    /\ editorTab' = tab
    /\ \/ tab = "raw" /\ editorValue' = Raw(code) /\ UNCHANGED prettyCode
       \/ /\ tab = "pretty"
          /\ prettyCode' = IF prettyCode = {} THEN {beautify(editorValue)} ELSE prettyCode
          /\ editorValue' = CHOOSE v \in prettyCode' : TRUE
    /\ prettyEarly' = (prettyEarly \/ (tab = "pretty" /\ loading))
    /\ UNCHANGED <<loading, tabs, touched>>

-----------------------------------------------------------------------------
\* mounted
MountItems(rec) ==
    /\ tabs' = [half \in Halves |-> "header"]
    /\ touched' = {}
    /\ createEditor(rec.response.body.text)

\* What a viewer that is gone had is nowhere.
UnmountItems ==
    /\ tabs' = [half \in Halves |-> "header"]
    /\ touched' = {}
    /\ editorTab' = "raw" /\ prettyCode' = {} /\ prettyEarly' = FALSE
    /\ loading' = FALSE /\ editorValue' = Raw("")

\* The watcher of the editor's code.
CodeChanges(old, code) == IF code # old THEN setCode(code) ELSE UNCHANGED editorVars

\* The watchers of both items, in depth, when the viewer is given rec in old's
\* place, or rec is what old has become; and that of the editor within.
ItemsChange(old, rec) ==
    LET changed == {half \in Halves : rec[half] # old[half] \/ rec.id # old.id}
    IN  /\ tabs' = [half \in Halves |-> IF half \in changed
                                         THEN selectAvailableTab(tabs[half], rec[half])
                                         ELSE tabs[half]]
        /\ touched' = touched \cup changed
        /\ CodeChanges(old.response.body.text, rec.response.body.text)

\* A click on one of the tabs an item has.
ClickTab(half, tab, item) ==
    /\ Contains(availableTabs(item), tab) /\ tabs[half] # tab
    /\ tabs' = [tabs EXCEPT ![half] = tab]
    /\ UNCHANGED <<touched, editorVars>>
=============================================================================
