----------------------------- MODULE MCPageViews -----------------------------
(* Small instances of PageViews for TLC.                                   *)
EXTENDS PageViews

Html == {[category |-> "text", type |-> "html"]}
Png == {[category |-> "image", type |-> "png"]}

Loopback == [bracketed |-> TRUE, dotted |-> FALSE, parts |-> <<"", "", "1", "80">>]

\* A long page with a parameter whose value has a "=", and the answer to a
\* request with a long body that the page made, an image that comes at once.
TwoRecords ==
    <<[method |-> "GET", path |-> "/a", url |-> [path |-> "/a", raw |-> <<<<"q", "1", "2">>>>],
       reqHeader |-> [Accept |-> "*"], remoteAddr |-> Loopback, reqBody |-> "",
       code |-> 200, header |-> [c \in {"Content-Type"} |-> Html], elapsed |-> 1000, body |-> "long"],
      [method |-> "POST", path |-> "/b", url |-> [path |-> "/b", raw |-> <<<<"q">>, <<"p", "1">>>>],
       reqHeader |-> [Accept |-> "*"], remoteAddr |-> NoAddress, reqBody |-> "long",
       code |-> 404, header |-> [c \in {"Content-Type"} |-> Png], elapsed |-> 500, body |-> "x"]>>

SomeUrls == {[path |-> "//", raw |-> <<>>], [path |-> "/a", raw |-> <<<<"p", "2">>, <<"p">>>>]}
NoHost == {"//"}
SomePairs == {[key |-> "p", value |-> "2"]}
SomeBodies == {"", "x", "euro"}
InLatin1 == {"", "x", "long"}
LongOnes == {"long"}
HtmlOnly == {"html"}
=============================================================================
