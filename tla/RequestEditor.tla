---------------------------- MODULE RequestEditor ----------------------------
(***************************************************************************)
(* The dialog in which a request is written or changed and sent            *)
(* (RequestEditor.js, BootstrapModal.js and its MapTable): the sidebar has *)
(* one for new requests and the viewer one for the record it shows.  What  *)
(* is edited is a copy, made and dropped 100 ms after the dialog is shown  *)
(* and hidden.                                                             *)
(***************************************************************************)
EXTENDS RequestCodec

CONSTANTS
    Urls,           \* what may be typed as the URL
    BadPaths,       \* paths that new URL(...) does not take
    Bodies,         \* and as the body
    Pairs           \* and as a row of the parameters

ASSUME EditorAssumption == Urls \subseteq Url

VARIABLES
    emits,          \* the modal's timers: the events they will emit
    origin,         \* whose dialog it is: "sidebar" or "viewer"
    original,       \* its originalRequest, if any
    editing,        \* request, if there is one
    keyValuePairs,  \* the rows of the parameters
    code,           \* what the body's editor holds
    codeLoading,    \* the editor's timer of two seconds runs
    wanted,         \* history: the body as it was, or as it was typed
    stale,          \* history: the URL lost its "?" and not the parameters
    sent            \* history: the last request sent, and from what

codeVars == <<code, codeLoading, wanted>>
editVars == <<emits, origin, original, editing, keyValuePairs, codeVars, stale, sent>>

EditorInit ==
    /\ emits = <<>>
    /\ origin = "sidebar" /\ original = {} /\ editing = {}
    /\ keyValuePairs = <<>> /\ code = NoBody
    /\ codeLoading = FALSE /\ wanted = ""
    /\ stale = FALSE /\ sent = {}

Editing == editing # {}

Edited == CHOOSE r \in editing : TRUE

\* The request of a dialog that has none to start from.
NewRequest ==
    [method |-> "GET", url |-> [path |-> "", raw |-> <<>>], queryParams |-> NoParams,
     header |-> <<>>, body |-> NoBody, b64Body |-> NoBody]

-----------------------------------------------------------------------------
\* The modal's show().  A dialog that is open covers the other one.
ShowEditor(from, requests) ==
    /\ ~Editing /\ emits = <<>>
    /\ emits' = <<"show">>
    /\ origin' = from
    /\ original' = requests
    /\ UNCHANGED <<editing, keyValuePairs, codeVars, stale, sent>>

\* prepareRequest, and what the new request mounts.
prepareRequest ==
    LET req == IF original = {} THEN NewRequest ELSE CHOOSE r \in original : TRUE
    IN  /\ editing' = {req}
        /\ keyValuePairs' = toKeyValuePairs(req.queryParams)
        /\ codeLoading' = (req.body.text \in LongTexts)
        /\ code' = IF req.body.text \in LongTexts THEN Plain(LoadingText) ELSE req.body
        /\ wanted' = req.body.text
        /\ stale' = FALSE

removeRequest ==
    /\ editing' = {} /\ keyValuePairs' = <<>> /\ stale' = FALSE
    /\ code' = NoBody /\ codeLoading' = FALSE /\ wanted' = ""

\* The first of the modal's timers.
EmitModalEvent ==
    /\ emits # <<>>
    /\ IF Head(emits) = "show" THEN prepareRequest ELSE removeRequest
    /\ emits' = Tail(emits)
    /\ UNCHANGED <<origin, original, sent>>

\* The dialog's component is gone, and the page's selection with it.
DisposeEditor ==
    IF origin = "viewer"
    THEN removeRequest /\ emits' = <<>> /\ original' = {} /\ UNCHANGED <<origin, sent>>
    ELSE UNCHANGED editVars

\* The viewer is given another record: the copy stays.
RetargetEditor(requests) ==
    /\ original' = IF origin = "viewer" /\ (Editing \/ emits # <<>>) THEN requests ELSE original
    /\ UNCHANGED <<emits, origin, editing, keyValuePairs, codeVars, stale, sent>>

-----------------------------------------------------------------------------
\* The URL's field loses the focus: updateUrl.  The table is told of another
\* map, not of the one it has.
EditUrl(url) ==
    /\ Editing /\ Edited.url # url
    /\ LET req == decodeQueryParams([Edited EXCEPT !.url = url])
       IN  /\ editing' = {req}
           /\ keyValuePairs' = IF url.raw = <<>> THEN keyValuePairs ELSE toKeyValuePairs(req.queryParams)
           /\ stale' = (url.raw = <<>>)
    /\ UNCHANGED <<emits, origin, original, codeVars, sent>>

\* Mutant: the URL is left to the next change of it.
updateQueryParamsOnly(pairs) ==
    LET req == [Edited EXCEPT !.queryParams = toMap(pairs)]
    IN  /\ editing' = {req}
        /\ keyValuePairs' = toKeyValuePairs(req.queryParams)
        /\ stale' = FALSE

\* updateQueryParams, and the table when it is given the map it was made of.
updateQueryParams(pairs) ==
    LET req == encodeQueryParams([Edited EXCEPT !.queryParams = toMap(pairs)])
    IN  /\ editing' = {req}
        /\ keyValuePairs' = toKeyValuePairs(req.queryParams)
        /\ stale' = FALSE

EditPair(i, pair) ==
    /\ Editing /\ i \in DOMAIN keyValuePairs /\ keyValuePairs[i] # pair
    /\ updateQueryParams([keyValuePairs EXCEPT ![i] = pair])
    /\ UNCHANGED <<emits, origin, original, codeVars, sent>>

RemoveKey(i) ==
    /\ Editing /\ i \in DOMAIN keyValuePairs
    /\ updateQueryParams(RemoveAt(keyValuePairs, i))
    /\ UNCHANGED <<emits, origin, original, codeVars, sent>>

\* An empty row, which only the table knows.
AddKey ==
    /\ Editing
    /\ ~\E i \in DOMAIN keyValuePairs : keyValuePairs[i].key = ""
    /\ keyValuePairs' = Append(keyValuePairs, [key |-> "", value |-> ""])
    /\ UNCHANGED <<emits, origin, original, editing, codeVars, stale, sent>>

EditBody(text) ==
    /\ Editing /\ code # Plain(text)
    /\ code' = Plain(text)
    /\ wanted' = text
    /\ UNCHANGED <<emits, origin, original, editing, keyValuePairs, codeLoading, stale, sent>>

\* The editor's timer shows the body the request has by now, whatever was
\* typed in the meantime.
CodeLoads ==
    /\ codeLoading
    /\ codeLoading' = FALSE
    /\ code' = Edited.body /\ wanted' = Edited.body.text
    /\ UNCHANGED <<emits, origin, original, editing, keyValuePairs, stale, sent>>

Cancel ==
    /\ Editing /\ emits = <<>>
    /\ emits' = <<"hide">>
    /\ UNCHANGED <<origin, original, editing, keyValuePairs, codeVars, stale, sent>>

-----------------------------------------------------------------------------
\* submit: what it hands to 'record.new'.
Submitted == [Edited EXCEPT !.b64Body = code]

\* new URL(...) throws when the body has been taken from its editor, before
\* anything is sent: the dialog stays.
SubmitThrows ==
    /\ Editing /\ Edited.url.path \in BadPaths
    /\ editing' = {Submitted}
    /\ UNCHANGED <<emits, origin, original, keyValuePairs, codeVars, stale, sent>>

\* sendRecord encodes it before it is sent, and sends nothing where it cannot.
\* The dialog's own request is the one that is encoded, and its editor is
\* given the encoded body; it can be submitted again until it is gone.
Submit ==
    /\ Editing /\ Edited.url.path \notin BadPaths
    /\ IF CanEncode(Submitted)
       THEN LET req == encodeBody(Submitted)
            IN  /\ editing' = {req}
                /\ code' = IF req.body # Edited.body THEN req.body ELSE code
                /\ sent' = {[request |-> req, wanted |-> wanted,
                             again |-> emits # <<>>, early |-> codeLoading]}
       ELSE editing' = {Submitted} /\ UNCHANGED <<code, sent>>
    /\ emits' = Append(emits, "hide")
    /\ UNCHANGED <<origin, original, keyValuePairs, codeLoading, wanted, stale>>

-----------------------------------------------------------------------------
WithoutEmpty(map) == Restrict(map, DOMAIN map \ {""})

\* The URL and the parameters of a request that is edited say the same, but
\* for keys that are empty, and for a URL from which the "?" was taken: the
\* old parameters are then still listed, and come back with the next change
\* of one.
UrlAndParamsAgree ==
    Editing /\ ~stale =>
        WithoutEmpty(Decoded(Edited.url.raw)) = WithoutEmpty(Edited.queryParams)

\* What is sent is the body the user left in the editor, encoded once, unless
\* it was submitted a second time (it is then encoded twice), before a long
\* body was loaded (the placeholder is sent), or emptied (the body from before
\* is sent, decoded).
SentBodyIsEdited ==
    \A s \in sent :
        s.again \/ s.early \/ s.wanted = "" \/ s.request.body = [text |-> s.wanted, times |-> 1]
=============================================================================
