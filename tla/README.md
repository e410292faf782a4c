# Woole: a verification project

Woole publishes a local HTTP service through a tunnel. A *server* receives the
HTTP requests of the public, hands each to the *client* that owns the host name
over a gRPC stream, and waits for the response; the client forwards the request
to the local service, sends the response back and keeps a record of both, which
a web page, the *sniffer*, shows, replays and clears. This directory holds TLA+
models of Woole's own logic, the TLC configurations that check them and proofs
that TLAPS checks. Paths below are relative to the repository (`src/`).

## 1. The system

| Part | State | Operations | Talks to |
|---|---|---|---|
| Session registry, `internal/app/server/recorder/adt/sessionmanager.go`, `session.go` | `clients` map; per session `Id`, `Bearer`, `IsIdle`, `IdleTimeout`, `RecordChannel` | `Register`, `RecoverSession`, `Deregister`, `DeregisterOnTimeout`, `SetIdleTimeout`, `StopIdleTimeout`, `Close` | called by every `Tunnel` handler; one goroutine per registration waits for its timer |
| Record exchange, `server/recorder/controller.go`, `service.go`, `adt/session.go`, `pkg/signal` | per session `RecordChannel` (32 places), `records`, `seq`; per record `Response`, `OnResponse` | `recorderHandler`, `getRecordWhenReady`, `sendServerMessage`, `receiveClientMessage`, `SetRecordResponse`, `RemoveRecord` | HTTP handlers, one sender and one receiver goroutine per stream, the client |
| Client record store, `client/recorder/adt/records.go` | `records` map, `lastDeleted`, package-wide `seqId` | `NewRecord`, `EnhanceRecord`, `AddRecord`, `RemoveAll`, `GetByServerId`, `ResetServerIds` | goroutines of requests and replays; sniffer handlers |
| Broker, `pkg/channel/broker.go` | subscribers, four channels, `running` | `start`, `Stop`, `Subscribe`, `Unsubscribe`, `Publish` | record store, status changes, sniffer streams |
| Sniffer stream, `client/sniffer/controller.go` | two subscriptions per page | `connHandler`, `clearHandler`, `replayHandler`, `newRequestHandler` | broker, record store, the page |
| Connection loop, `client/recorder/connection.go`, `client/app/settings.go` | attempt, last error, session, status | `startConnectionWithServer`, `connectClient`, `isRetriable`, `onTunnelStart`, `SetSession`, `ChangeStatusAndPublish` | server, status broker |
| Session expiry, `controller.go` (`Tunnel`), `settings.go` (`GetHandshake`) | `ExpireAt` on both sides | deadline of each `Tunnel` call | registry, connection loop |
| Reverse proxy, `client/recorder/service.go` | `config.ProxyUrl`, `proxyHandler`, `proxyReplayHandler` (package variables) | `Replay`, `doRequest`, `updateReverseProxy`, `blockSelfRedirection` | local service |
| Page, stream and list: `web/client/app/main.js`, `Sidebar.js`, `Timer.js` | `EventSource`, `recordList`, the filtered list, main's copy of it, two debounce timers | handlers of `start`, `new-record`, `update-record`; search, sort, trim, clear | sniffer stream; every other part of the page, over `$bus` |
| Page, session: `main.js`, `Dashboard.js` | `sessionDetails`, the cards' data, one interval timer | `session` event, `onerror`, `loadSessionDetails`, `setExpireAt`, mount and unmount | status broker through the stream |
| Page, panels: `components/dashboard/panel*.js`, `Chart.js` | what each panel has computed, a colour per label | watchers of `records`, deep or shallow; `colorfy`; a click on a slice | main's copy of the list, the sidebar's search |
| Page, viewer: `RecordViewer.js`, `RecordItem.js`, `CodeEditor.js`, `EventBus.js` | selected record, tabs, the editor's text and timer, listeners of replays | select, fetch of a body, replay, tabs, raw and pretty | sidebar, `sendRecord`, the client's HTTP handlers |
| Page, request editor: `RequestEditor.js`, `BootstrapModal.js`, `MapTable.js`, `Woole.js` | a copy of a request, its table of parameters, the body's editor | show, edit, submit, hide; `decode...`, `encode...` | `sendRecord` |
| Parser, `pkg/parser/text.go` | none | sizes and durations | configuration |

The rest is configuration, HTTP/protobuf conversion, start-up, formatting and
presentation; `PROJECT.json` lists each part with its status.

What is hard in this code:

* *Check, then act.* `generateClientId` looks an id up, `put` stores it later;
  `hasClient` asks `Exists` and `recorderHandler` calls `Get` after it; the
  lock of `SessionManager` covers the map write only.
* *Attach and detach are not synchronised.* A tunnel stops the idle timer when
  it attaches and arms it when its own context ends, whoever else is attached.
  The server may learn of a broken stream long after the client is back.
* *A timer that has fired cannot be stopped*; its goroutine closes the session.
* *One channel, many readers.* The sender of a dead stream still ranges over
  `RecordChannel` next to the sender of the new one.
* *Timeouts race late answers.* The handler replaces `record.Response` while a
  receiver that has looked the record up stores the answer.
* *Blocking with no timeout.* Putting a record on a full channel happens before
  the response timeout starts.
* *Records are added out of order*, and eviction goes by a counter.
* *A snapshot next to a subscription.* A page subscribes, then gets a snapshot,
  and the broker takes the subscription some time in between or after; its
  buffers drop what does not fit.
* *A pointer is published, not a value*: which event a record becomes is
  decided when it is forwarded, by the step it has then.
* *Reconnections count.* Attempts, the expiry that each handshake carries and a
  status that is published at other moments than it changes.
* *Watchers and copies.* The page keeps several copies of a record or of the
  session, each refreshed by a watcher or by a timer of its own.
* *A fetch, a timer or a listener that outlives its purpose*: the body of a
  record no longer selected, a delayed text after a click on Pretty, a replay's
  listener whose replay failed.

What makes each part correct, in a sentence: the registry hands out distinct
ids, gives a session only to its own client, and frees it once no tunnel uses
it; the exchange ends every request, with its own response or a 504, and never
panics or leaks; the store keeps the newest records within its limit; the
broker delivers in order or drops, and never takes the client down; the page
lists every stored record once and with its final state, but for named losses;
the connection loop keeps trying as long as it is told to and publishes the
status it is in; the expiry never moves past what the server allows; the cards
show the client's session; the panels show the list; the viewer shows what is
selected; the dialog sends what was edited.

## 2. Modules

| Module | What it holds |
|---|---|
| `SessionRegistry` | registry, idle timers, the `Tunnel` handler up to and after its stream, deregistering goroutines |
| `SessionRegistryProofs` | inductive invariants and theorems for any interleaving, and where registrations for one id do not overlap |
| `RecordExchange` | one session's requests, channel, streams, client, and its end |
| `RecordExchangeProofs` | its inductive invariant and safety theorems |
| `RecordStore` | the client's record store with its eviction |
| `RecordStoreProofs` | its invariants and theorems |
| `LossyFeed` | abstract: what a subscriber of the broker may rely on |
| `Broker` | the broker's goroutine, its channels and subscribers; implements `LossyFeed` |
| `BrokerProofs` | that it does, and why it may send on a closed channel |
| `SnifferStream` | `RecordStore` and `Broker` composed with the goroutines of requests and of pages' connections |
| `Listings` | sorting and filtering as JavaScript's arrays do it: the elements of a set in the place that counting gives them |
| `ListingProofs` | that every element comes once, and in order |
| `SnifferPage` | `SnifferStream` with the page's list, its timers and reconnections |
| `SnifferProofs` | its invariants: the broker's, the list's, and where a record and its time are on their way |
| `TunnelClient` | the connection loop, its session, the server it dials and the expiry they agree on |
| `SessionStatus` | `TunnelClient` with the stream's `session` events and the cards of the page |
| `SessionStatusProofs` | theorems about the loop, the page that follows it, the cards and their timer |
| `RequestCodec` | pure: parameters, bodies, headers, addresses and tables of pairs (`Woole.js`, `Map.js`, `MapTable.js`) |
| `DashboardPanels` | what each panel computes, what it is told of, and the colours |
| `RecordItems` | the two halves of the viewer, their tabs and the code editor |
| `RequestEditor` | the dialog that edits and sends a request |
| `PageViews` | `RecordItems`, `RequestEditor` and `DashboardPanels` composed with selection, fetches and replays |
| `PageProofs` | theorems about selection, replays, the dialog, the viewer, the panels and their colours |
| `MC...` | model values, initial states and symmetry for TLC |

Names follow the code. An operator whose comment begins with "Mutant" is a
plausible bug of the operator below it; it is used only to test the properties:
with the mutant in place of the operator, the property named in `PROJECT.json`
must fail.

### SessionRegistry

A call of the `Tunnel` RPC is a process with the steps

    start -> recover -> generate -> put -> watch -> busy -> stop -> attached -> arm -> done

one per access to shared state: `ReceiveHandshake` (version and shared key
checked), `RecoverSession`, `GenerateClientId` (the first half of `Register`,
which reads the map), `PutSession` (the second, which writes it),
`DeregisterOnTimeout` (which reads it again by id and starts a goroutine),
`ClearIdle` and `StopTimer` (the two halves of `StopIdleTimeout`), `Disconnect`
and `ArmTimer` (those of `SetIdleTimeout`). A registration's goroutine goes
through `TimerFires`, `DeregisterGet`, `DeregisterClose` and `DeregisterPut`. A
nil session or a channel closed twice sets `crashed`: the panic is in a
goroutine of the process (or, as every goroutine that can hit it belongs to no
RPC or HTTP recovery, ends it).

Handshakes are those a client program sends (`GetHandshake`): the configured id
and no bearer, or the id and bearer of a session it was given, which may stem
from an earlier server process with the same seed or with another.

Left out: contents of sessions, IP addresses, logging, and how long a timer
runs. Random hashes never collide. Map and field accesses are atomic: the
unlocked reads of `clients` and of session fields are data races in Go, and a
torn read is not modelled.

### RecordExchange

One session from its first tunnel on. A request is an HTTP handler with the
steps

    new -> lookup -> add -> publish -> wait -> elapsed -> reply -> replied
                                         \--> gaveUp -> reply504 -> replied504

and the ends `help` (no such client), `refused` (idle session) and `aborted`
(the handler panics: nil session, or a send on the closed channel). Every
stream has a sender and a receiver goroutine with the message or record in
hand, and a queue in each direction. A stream is `up`, `cut` (lost, unnoticed by
the server, messages vanish) or `down` (context done). The client answers on
the stream the request came on, panics (`catchAllErrors`) or never answers. The
session may expire, close and leave the registry at any moment after its last
stream ended, with requests in every step.

A reply is written in `Parts` parts, each of which reads `record.Response`
again, as `recorderHandler` does for headers, status and body: this is where a
late answer could tear a reply.

Left out: the contents and sizes of messages but for being over the maximum
(`BigRequests`, `BigResponses`), `ServerElapsed`, and new sessions under the
same id (`SessionRegistry`).

### RecordStore

Records are their ids. `pending` are the requests being answered; `AddRecord`
stores one of them and evicts `lastDeleted + 1`, stored or not; `missed` is a
history variable that remembers the evictions that removed nothing.

### Broker, LossyFeed, SnifferStream

`Broker` has one action per case of the goroutine's `select` (`TakeSub`,
`TakeUnsub`, `TakeMessage`), which Go may choose from in any order, and one per
operation of its users. Messages are numbered as they are published; the
histories `last` and `got` say which was received last and how many were.
`LossyFeed` has only these and the number published: a listener is given a
message later than all it had. `Stop` is called nowhere in the repository.

`SnifferStream` takes each goroutine apart where it shares state:
`AddRecordAndPublish` is `AddRecord` and `PublishRecord`, `handleServerElapsed`
is `ServerElapsed` (which marks the stored record) and `PublishUpdate`,
`connHandler` is `Subscribe`, `SendStart`, `Forward` and `Leave`. As the broker
carries pointers, `IsUpdate` looks at the step the record has when it is
forwarded.

### SnifferPage

The handlers of the stream's events, the watcher of the search, the timers
(`SortAndTrim`, `EmitFilterRecords`), clearing in three steps (asked, served,
answered) and the `EventSource` that connects again. What a page cannot know is
kept in histories: `unseen` are the stored records it was not told of or could
not use, `untold` those whose update it missed, `overlap` those that were in a
snapshot and still to be announced. The search engine is an external library,
modelled for the searches that tell the models apart: none, and one that finds
the records with a server time, written with and without the capital letter.
Sorting is `Listing`: `ById` orders a snapshot by its ids alone, `Sorted` keeps
the order of equal ids, as `Array.prototype.sort` does.

### TunnelClient, SessionStatus

The loop's variable `pc` is

    head -> wait -> dial -> open -> session -> tunnel -> head ...
       \--> ended -> sniffing | exited

with one action per step of the code that others can see: `isRetriable` sleeps
before the status is published (`StartWaiting`, `Waited`), `TestConn` falls back
from TLS for good (`Dial`), `SetSession` comes before `CONNECTED` is published
(`OpenTunnel`, `Connected`). The server goes, returns with a session limit and a
transport chosen anew (`ServerReturns`), resets the stream, refuses, and ends a
tunnel at its deadline. `ServerExpireAt` is the computation
in `Tunnel`, of its own limit and the handshake's `ExpireAt`; 0 is "never" and
the clock starts at 1.

`SessionStatus` adds the page: `SendSession` and `SubscribeStatus` are the two
moments of `connHandler` between which a status is missed; `OnError` counts
errors; `SetExpireAt`, `IntervalFires` and `Unmount` are the expiry card's. A
zone name that the browser's `Date` does not know makes an expiry unparseable:
`dateParses` is chosen at the start. There are three ids for
timers, so that one left behind can run next to another.

### RequestCodec, DashboardPanels, RecordItems, RequestEditor, PageViews

A URL is a path and its raw parameters, a body a text and how often it is
base64-encoded, a header a function, an address its parts or nothing
(`NoAddress`, which `HasIp` and `HasRow` guard as the panels do): what the page's decoding and encoding do
to them is kept (the value that ends at a second `=`, the URL without `?` that
leaves the old parameters, `btoa` that throws), their characters are not.
`DashboardPanels` computes each panel from a list, by columns: what the records
hold of one thing, at which places and in which order (`Column`, `Places`,
`Distinct`). `ShowPanels`, `MountPanels`, `UnmountPanels`, `ReplacePanels` and
`UpdatePanels` stand for the dashboard with all its panels at once, as one event
reaches them all; `UpdatePanels` says which of them watch in depth. In
`RecordItems` the viewer's components stay while their record changes, so that
tabs, editor and timer of one record meet the next. Both halves have their tabs;
of the code editor there is the response's, as the request's is the same
component over a text that never changes while a record is shown.
`RequestEditor` has the modal's delayed events, a dialog that can be submitted
again while it hides, the encoded body that comes back into its editor, and the
URL that does not parse, at which `submit` stops halfway (`SubmitThrows`).

`PageViews` composes them. A fetch has three ends (`Answers`): the body is read,
there is none (a status that is not ok, or nobody answers), or the connection
breaks while the body is read. After the first two `FetchAnswered` shows the
record whatever was selected in between; after the third `onItemSelected` does
not get to the line that shows it. `ListenersLeft` is what is left of an array
whose elements remove themselves while `forEach` walks it. Histories: `outcome`
says what became of the last selection (nothing yet, shown, shown and then
overtaken by the body of another, failed), `orphans` counts the requests that
failed and whose listener stays, `astray` remembers that a listener met a replay
of another page, or two others.

## 3. What the runs check

| Run | Instance | Shows |
|---|---|---|
| `registry_any` | 3 calls, 2 clients, 1 name, 3 hashes, symmetric | `NoForgottenSession`, `OwnSession` in every interleaving |
| `registry_serial` | 3 calls, 1 client, 1 name, 2 hashes, fair | `RegistryExact`, `ServerStaysUp`, `ClosedByOwnTimer`, `DetachedIdFreed` if no two registrations for one id overlap |
| `registry_shared_id` | as `registry_any` | `DistinctIds` fails (finding) |
| `registry_idle_in_use` | as `registry_any`, registrations serial | `IdleMeansUnused` fails (finding) |
| `store_any` | limit 3, 8 ids | `BoundWithMisses`, `EscapeesMissed`, `EvictsOldestWhenFull` for every order of responses, with clearing |
| `store_limit` | limit 2, 6 ids | `MaxRecordsKept` fails (finding) |
| `exchange_safety` | 2 requests, 2 streams, replies of 3 parts | `OwnReply`, `WholeReply`, `SignalledOnce`, `DeadStreamTakesOne`, `RecordsAreAwaited` |
| `exchange_live` | 3 requests (2 oversized, 1 with an oversized response), 1 stream, channel of 1 | `EveryRequestEnds` |
| `exchange_oversized` | as `exchange_safety`, 1 oversized response | `OversizedDiscarded` fails (finding) |
| `sniffer_page` | 2 connections, 2 records (one a replay), store, channel and listeners of 1, 1 turn of clear, search or reconnection | `ShownUnlessMissed`, `TimedUnlessMissed`, `TwiceOnlyAroundSnapshot`, `ViewsAgree`, `PanicsOnlyOnEarlyLeave`, `InOrder` |
| `session_status` | limits -1, 0, 1; session limits 0 and 1, which a returning server may change, or its transport; time to 4; 1 failure of the server or tunnel, 1 of the stream | `StatusTellsPhase`, `DialsAsOftenAsTold`, `ExpiryNeverExtended`, `PageFollows`, `CardsCurrent`, `OneInterval`, `Settles` |
| `page_views` | 2 records, 4 gestures | `ViewFollowsSelection`, `ListenersMatch`, `ViewerCurrent`, `UrlAndParamsAgree`, `SentBodyIsEdited`, `PanelsCurrent`, `ColorsKept` |

*Bounds.* Three calls are what it takes for a session to be recovered by a
second call while a third registers its id anew, and for two sessions to share
an id with both timers running. Two hashes with one client make a call that
needs a third hash wait; `registry_any` has one for every call. In the store,
eight ids fill a store of three more than twice, so an eviction can miss,
`lastDeleted` can catch up and the list can be cleared in between. Two streams
make one reconnection, with the old sender alive next to the new one. A channel
of one place instead of 32 makes "full" happen with three requests; two
oversized requests make the sender discard twice in a row.

In `sniffer_page` (about 1.3 million states) two records are what it takes for one
to overtake the other, to trim a list of one and to fill a buffer of one place
where the code has eight; a second connection makes a reconnection with the old
listener still subscribed. Record 2 is a replay, which the server never times,
record 1 is not; none of them, or either, has a query string that does not decode.

In `session_status` (about 1.3 million) the limits are one that ends the loop at
once, 0, at which the code gives up at the first broken tunnel and which the docs
call infinite (`DialsAsOftenAsTold` leaves it out, see *Findings*), and one that
allows one retry; time 4
lets a session of one time unit expire, its card's timer fire twice and a
reconnection fall before, on and after the deadline. One failure of the server
or its tunnel leads through every step of the loop. Whether the server still
knows the session or has forgotten it makes no difference to the expiry, which
it takes from the handshake, so one reconnection covers both. A returning
server has changed in one respect at most, its session limit or its transport.
Where sessions expire only servers with TLS are taken, as the fallback has
nothing to do with time.

In `page_views` (about 1.8 million) one of the records has a long HTML body with
a parameter whose value has an `=`, the other, which has no address, a long
request body and an image as its answer: they differ in every tab and chart. Of
the two URLs that are typed one does not parse. Four gestures are enough for a
selection during a fetch of another, for three replays of a viewed record, and
for show, edit, submit and submit again.

*Deadlock* is not checked where calls, streams and requests are finitely many
and have all ended (`registry_*`, `exchange_*`), nor where the bounded turns,
records and gestures are used up (`sniffer_page`, `page_views`). It is checked
in `session_status`.

*Fairness.* `SessionRegistry!Fairness`: handlers and goroutines, once enabled,
run, as the Go scheduler does, and an armed timer runs out. No client is asked
to connect or to leave. `RecordExchange!Fairness`: the HTTP handler runs on and
its timeout expires; senders and receivers run; keepalive ends a cut stream;
the idle timer and `Deregister` run. Nothing is asked of the client: it may
keep a stream open and never read or answer (a stream's flow-control window is
not modelled: a send on a live stream does not block). Weak fairness is enough, as no
step is disabled by others for good while it is awaited, a full channel apart,
which `EveryRequestEnds` is about.

`SessionStatus!Fairness`, of which only `Settles` makes use: the loop's
goroutine runs, a tunnel to a server that is gone breaks (keepalive), and the
goroutines of the stream and the browser's handlers run. A page whose stream
broke connects again (`SendSession` is one of these steps) unless it has closed
its `EventSource`: retrying is what an `EventSource` does by itself. Nothing is
asked of the server, of the user or of the clock. Each step is enabled until it
is taken, or leads nowhere else, so weak fairness is enough. At the limit 0 that
the loop comes to rest is because the code gives up there; a client that retried
without end, as the docs have it, would not settle while its server is away.

*Environments.* `SerialSpec` is `Spec` where no two calls that ask for the same
id are between `generateClientId` and `DeregisterOnTimeout` at once. It is what
the registry silently relies on: with it, everything holds that is claimed of
it; without it, `registry_shared_id` shows two open sessions under one id, and
the model also reaches a panic of the second `Deregister`.

### Findings

1. `registry_shared_id`: two clients that ask for the same free id at the same
   moment both get it, though `docs/server.md:59` gives it to the first and a
   suffix to later ones.
2. `registry_idle_in_use`: the late end of a broken stream marks a session idle
   and arms its timer although a new tunnel uses it; its requests are then
   refused as "Session started but not in use".
3. `store_limit`: the store keeps more than `-records` records (`docs/client.md:75`)
   after an eviction whose id is not stored: a slow request, or a cleared list.
4. `exchange_oversized`: a response over the maximum size, announced in the log
   as discarded, is a nil record whose use panics and ends the server.

A further disagreement has no run of its own: `-reconnect-attempts 0` is
"infinite" in `docs/client.md:81` and in the flag's own text
(`internal/app/client/app/settings.go:106`), but `isRetriable`
(`internal/app/client/recorder/connection.go:177`, called in line 32) finds the
first attempt after a broken tunnel already at the limit, and the loop ends. The
model does what the code does; `DialsAsOftenAsTold` speaks of positive limits
only.

What the properties leave out, as the code does not promise it: a 504 may be
torn by the late answer to the same request (`OwnReply` and `WholeReply` allow
it); a handler that panics because its session was removed or closed has ended
(`EveryRequestEnds`); and the cases that the histories `outcome`, `astray`,
`prettyEarly`, `stale`, `again` and `early` name, each described with the hazard
it belongs to in `PROJECT.json`.

## 4. What is proved

All theorems hold for every value of the constants under the modules' named
assumptions: `ConstantsAssumption` (names and hashes are disjoint sets, the
special values belong to none) and `BoundsAssumption` (limits are naturals).
The loop and the page have `LimitsAssumption` and `PageAssumption` (limits are
integers, times and bounds naturals, the period and the clock's bound not 0).
The stream and the list have `SizesAssumption` (the store's limit, the sizes of
the channels and the number of records are naturals) and `PageAssumption` (the
connections are numbered from 1, and the searches are the three above).
The exchange has finitely many requests, as the proof counts them. The views
have `ViewsAssumption` and `EditorAssumption`, which only say what a record's
data and a URL are made of (a path and pairs of strings) and name the bounds;
parameters, bodies, types and record contents are arbitrary. The theorems about
the broker and the slices assume nothing. Nothing else is assumed; TLC evaluates
the assumptions on every run of their modules.

* `SessionRegistryProofs`, for `Spec`:
  * `TypeCorrect`, from the inductive invariant `Shape`. The type alone is not
    inductive: that a map lookup in `DeregisterGet` or an update in `ArmTimer`
    is within its domain needs to know which step implies a session
    (`HandlerShape`), an id (`RegistryShape`) or a goroutine's target
    (`WatchShape`).
  * `OwnSessionHolds`: inductive next to `Shape`, as handshakes only carry the
    sender's bearer, no bearer or one of another seed (`HandshakeShape`), and a
    session is put once (`EarlyShape`).
  * `NoForgottenHolds`: inductive next to `Shape` and `FoundOwn`: what
    `Deregister` found is the session whose timer fired, if that one can still
    be found. Without it `DeregisterClose` might close another session and
    leave this one with neither user nor timer.
  * `IdleMeansUnusedHolds`, under `OneHolderSpec` (a client returns only after
    the server saw its last tunnel end): finding 2 has no other cause.
* The same module, for `SerialSpec`: `RegistryExactHolds`,
  `ServerStaysUpHolds`, `ClosedByOwnTimerHolds` and `DistinctIdsHolds`, all from
  `SerialInv`. Its core is `PutAlone` (a session about to be put has its id for
  itself) and `WatchOwn` (a goroutine waits on its own handler's session, which
  stays open until this goroutine closes it). `PutAlone` is only inductive with
  `PutFresh` and `HashesKnown`: a generated hash is one that nobody presents,
  because clients only present ids of sessions that were made. That
  `DistinctIds` follows shows that overlap is the only cause of finding 1.
* `RecordStoreProofs`, for `Spec`: `TypeCorrect`; `BoundHolds`, by counting
  (`BoundInv`, with the cardinality lemmas `AddOne` and `RemoveOne`);
  `EscapeesHold`, which needs that evictions never overtake the ids handed out
  (`lastDeleted + Cardinality(pending) <= seqId`); `EvictsHold` from it; and
  `LimitKeptInOrder`, for responses in order and no clearing: finding 3 has no
  cause but missed evictions.

* `BrokerProofs`, for `Broker!Spec` and channels of every size:
  * `BrokerImplementsFeed`: every step of the broker is one of `LossyFeed` or
    none. The inductive invariant `OrderInv` says that what a listener received,
    what it holds and what waits in `publishCh` have growing numbers, one after
    the other (`Within`, `Precedes`); that a received number is later than the
    last one follows from it and from nothing weaker.
  * `PanicsHold`: a subscriber that is closed was closed before it subscribed.
    `EarlyInv` needs that a waiting subscription is no subscriber yet.
* `SnifferProofs`, for `SnifferPage!Spec`, any number of records, connections and
  places in the channels:
  * `InOrderHolds` and `PanicsHold`. Every step of the client and the page is one
    of the broker's or leaves its variables alone (`BrokerOrNot`), so
    `BrokerProofs`, instantiated with the page's connections as listeners,
    carries over.
  * `TypeCorrect`, from `Base`: next to the types, what is on the wire has the
    shape its event has (`EventShape`), a snapshot comes first or not at all and
    holds each record once (`OneEach`), and a handler's state fits its
    subscription. From the bodies of the handlers only `CHOOSE` over a set of
    one is left, which the shapes make the record that was sent.
  * `ViewsHold`, from `Views`: what is filtered is what the search finds in the
    list, or the sort's timer runs and will search again; the dashboard's copy is
    that, or the copy's timer runs. A time that comes changes what is found for
    one search only, and that one Sidebar repeats or spells otherwise.
  * For the rest every step is reduced to what it means to the page's own
    connection (`StepCases`: fifteen forms, from `Stores` to `Reconnects`); each
    invariant is then shown against the forms, for one record at a time.
  * `TwiceHolds`, from `OnceInv`: a record that is still to be announced is in
    one of four places, once: with its goroutine (`adding`), in `publishCh`, in
    the listener, on the wire. Outside `overlap` none of them holds while it is
    listed or in a snapshot.
  * `ShownHolds`, from `ShownInv`: on a streaming connection a stored record is
    in `unseen`, in one of these places, in a snapshot on the wire, listed, or
    older than a full list. "Older" must be said of a list that is not sorted
    yet (`Newer`: as many newer entries as the list may hold), or no step
    between two runs of the timer keeps it. That trimming keeps it is a
    pigeonhole argument (`Pigeons`, `CutOff`).
  * `TimedHolds`, from `TimedInv`: a known time is in `untold`, has its update on
    the way, or is where the record is (`Settled`). It needs two orders: no
    announcement of a record comes after its time on the wire (`NotAfter`), and
    of two copies it is the first that has the time (`FirstIn`), also after a
    stable sort and a trim (`TrimFirst`).

  TLC checked `OnceInv`, `ShownInv` and `TimedInv` first, exhaustively on the
  instance of `sniffer_page` and by simulation on a larger one. The attempt to
  prove `TimedHolds` showed an exception its property did not have, in no
  instance of the run's size: an update lost with a connection is not made up
  for if the page drops the next connection's snapshot. `Reconnect` now counts
  it (`TimesOnTheWay`).
* `SessionStatusProofs`, for `SessionStatus!Spec`: `TunnelTypeCorrect`;
  `DialsHold`, for positive limits, and `StatusHolds` from `LoopInv`, which ties `attempt`, `err` and
  `dials` to each step of the loop; `ExpiryHolds`; and `PageFollowsHolds`, from
  `Told`: the last event on the wire, or what the page knows if there is none,
  is the client's session, from the first event of a stream on. The property
  itself is not inductive, as it says nothing of a wire that is not empty.
  The cards' part, in the same module: `CardsHold`, `OneIntervalHolds` and the
  composed `TypeCorrect`, from `CardsInv`: either one timer runs, held by
  the card, for the expiry the page knows and due within a `PERIOD` of the
  moment the shown rest was computed at (`Counting`), or none runs and the card
  shows why (`Resting`).
* `RecordExchangeProofs`, for `RecordExchange!Spec`: `TypeCorrect`,
  `OwnReplyHolds`, `WholeReplyHolds`, `SignalledOnceHolds`, `DeadStreamHolds` and
  `RecordsHold`, from one inductive invariant `IInv` (TLC checked it on the run
  `exchange_safety` first). None of the properties is inductive. What carries
  them is `OnePlace`: a published request is in exactly one place, once (the
  session's channel, a sender's hand, the wire to or from the client, the
  client, a receiver's hand), and nowhere from its answer on; so no response is
  taken twice, and no signal is closed twice. `Labels` and `RecordsNumbered` say
  that an id is one request's and that `records` holds it exactly while it is
  awaited: a response found under an id is that request's own. `Replies` says
  what the response and the reply are at each step of the handler, the late
  response racing the 504 included.
* `PageProofs`, for `PageViews!Spec`:
  * `ViewFollowsHolds`: a selection of which nothing came yet is shown, or its
    body is on its way; one that was shown stays shown until another body
    overtakes it (`SelectionInv`). A fetch that breaks off leaves the sequence of
    fetches without one element, any other (`RemovedAt`).
  * `ListenersHold`: as many listeners wait as requests are to be answered or
    have failed, and at most two as long as nothing went astray
    (`ListenersInv`); with three, `forEach` over a shrinking array would skip one.
  * `SentBodyHolds`: until it is submitted, the dialog's copy stays plain and its
    editor holds what is wanted once its timer has ended (`BodyInv`).
  * `UrlAndParamsHold`: a URL made from parameters spells them again
    (`EncodedDecodes`, for maps and lists of any size), and the form's table of
    rows is one; `UrlInv` carries both from the original to the copy.
  * `ViewerHolds`: what the editor shows and what it keeps beautified is made of
    the text of the record that is shown or of the placeholder (`CodesOf`), and
    the timer only runs under the Raw tab unless Pretty was asked for early.
  * `SliceFindsItsOwn` and `SliceFindsNoOther`: a click on a slice of the response
    times finds the records it counts, and beyond these only those at the one
    time two ranges share (the search takes both ends in).
  * `PanelsHold`: of a record that is listed only its server time still changes,
    and only the averages and the table of addresses, which watch in depth,
    depend on that (`OnlyTwoPanelsChange`). Next to the property the invariant
    needs that the dashboard's objects are of a list made by now, so that a
    stream that starts anew is about others.
  * `ColorsHold`, from `ColorsInv`: the colours given so far are the first ones
    of the palette, as many as there are labels, so that the next is a new one
    (`ColorfyGives`). That needs that no chart names a label twice
    (`LabelledOnce`), whichever way its labels are picked and sorted
    (`TalliedOnce`, `TopOnce`).

Only model-checked: the liveness properties (`DetachedIdFreed`,
`EveryRequestEnds`, `Settles`), which are beyond the prover. Of the panels it is
proved that they are up to date, not what a sum or an average of them comes to:
those are folds, and a statement about every list would need induction over data.

## 5. Not modelled

* *Reverse proxy.* Which host a request reaches is decided inside
  `net/http/httputil` while other goroutines replace the variables it reads, in
  `src/internal/app/client/recorder/service.go`; without a model of that library
  there is nothing to state. It is the first candidate for what comes next.
* *Server ids after a reconnection.* `GetByServerId` may find a record of an
  earlier session with the same id; nothing says which record is meant.
* *Torn reads* of maps and fields that are not locked: undefined in Go.
* *The parser of sizes and durations and the URL helpers*: text, read once.
* *HTTP and protobuf conversion, TLS, flags, start-up*: no shared state.
* *Presentation*: dates, labels, images, base64 views, clipboard, theme, the
  drawing of charts, the editor widget and the beautifier.

## 6. Plan

1. *Done*: registry, exchange, store; broker, stream and list; loop, expiry and
   cards; viewer, dialog and panels; the proofs above.
2. `ReverseProxy`: the package variables that redirections and replays replace
   under requests in flight.
