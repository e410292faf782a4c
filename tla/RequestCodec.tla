---------------------------- MODULE RequestCodec ----------------------------
(***************************************************************************)
(* How the page takes requests and responses apart and puts them together  *)
(* again: Woole.js, and the table of pairs of Map.js and MapTable.js.      *)
(*                                                                         *)
(* A URL is its path and its raw parameters, none where it has no "?"; a   *)
(* raw parameter is what stands between its "=", already percent-decoded.  *)
(* A body is a text and how often it is base64-encoded; the empty text     *)
(* stands for no body as well, which the page treats alike.                *)
(***************************************************************************)
EXTENDS Integers, Sequences, SequencesExt, Functions

CONSTANTS
    Latin1,         \* the texts btoa can encode
    LongTexts       \* those an editor shows later, of over 10000 characters

Plain(text) == [text |-> text, times |-> 0]

NoBody == Plain("")

Url == [path : STRING, raw : Seq(Seq(STRING))]

\* What an editor holds while a long text waits.
LoadingText == "Loading code..."

NoParams == [key \in {} |-> ""]

\* What decodeQueryParams makes of the parameters: a value ends at its second
\* "=", and of two with the same key the later one counts.
Decoded(raw) ==
    [key \in {raw[i][1] : i \in DOMAIN raw} |->
        LET pair == raw[SelectLastInSeq(raw, LAMBDA p : p[1] = key)]
        IN  IF Len(pair) > 1 THEN pair[2] ELSE ""]

\* A URL without "?" leaves the parameters as they were.
decodeQueryParams(req) ==
    IF req.url.raw = <<>> THEN req ELSE [req EXCEPT !.queryParams = Decoded(req.url.raw)]

encodeQueryParams(req) ==
    LET keys == SetToSeq(DOMAIN req.queryParams \ {""})
    IN  [req EXCEPT !.url.raw = [i \in DOMAIN keys |-> <<keys[i], req.queryParams[keys[i]]>>]]

IsEmpty(body) == body.text = ""

atob(body) == [body EXCEPT !.times = @ - 1]
btoa(body) == IF IsEmpty(body) THEN body ELSE [body EXCEPT !.times = @ + 1]

decodeBody(item) ==
    IF IsEmpty(item.body) THEN item
    ELSE [item EXCEPT !.b64Body = item.body, !.body = atob(item.body)]

\* btoa throws where a character has no single byte.
CanEncode(item) == item.b64Body.times > 0 \/ item.b64Body.text \in Latin1 \cup {LoadingText}

\* Mutant: what is encoded is what the item came with.
encodeBodyAsCame(item) ==
    IF IsEmpty(item.body) THEN item
    ELSE [item EXCEPT !.body = btoa(item.body), !.b64Body = NoBody]

\* Without a b64Body the body is left as it is.
encodeBody(item) ==
    IF IsEmpty(item.b64Body) THEN item
    ELSE [item EXCEPT !.body = btoa(item.b64Body), !.b64Body = NoBody]

\* The header's parameters are dropped, a charset too: the loop that looks for
\* it goes over the indices of the tokens.
parseContentType(value) ==
    IF value = {} THEN [category |-> "none", type |-> "none"]
    ELSE LET v == CHOOSE x \in value : TRUE IN [category |-> v.category, type |-> v.type]

\* An item's header, or its lower-case form, or the default.
getHeader(item, header, lower, defaultValue) ==
    IF header \in DOMAIN item.header THEN item.header[header]
    ELSE IF lower \in DOMAIN item.header THEN item.header[lower]
    ELSE defaultValue

\* An address that is left out of the JSON.
NoAddress == [bracketed |-> FALSE, dotted |-> FALSE, parts |-> <<>>]

\* The address without its port: parts are what its ":" separate, the port
\* with them.  An address in brackets has a port; another one with neither
\* dots nor port loses its last group.
parseAddress(address) ==
    LET cut == Len(address.parts) > 1 /\ ~address.dotted
    IN  IF address.bracketed \/ cut THEN Front(address.parts) ELSE <<Head(address.parts)>>

-----------------------------------------------------------------------------
\* toKeyValuePairs and MapTable's toMap, where the later of two pairs counts.
toKeyValuePairs(map) ==
    LET keys == SetToSeq(DOMAIN map)
    IN  [i \in DOMAIN keys |-> [key |-> keys[i], value |-> map[keys[i]]]]

toMap(pairs) ==
    [key \in {pairs[i].key : i \in DOMAIN pairs} |->
        pairs[SelectLastInSeq(pairs, LAMBDA p : p.key = key)].value]
=============================================================================
