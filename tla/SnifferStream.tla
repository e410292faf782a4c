---------------------------- MODULE SnifferStream ----------------------------
(***************************************************************************)
(* How the client tells the sniffer's pages of its records.                *)
(*                                                                         *)
(* Every request has a goroutine that stores its record and then publishes *)
(* it (AddRecordAndPublish).  The server's later message with the elapsed  *)
(* time has another, which marks the stored record and publishes an update *)
(* (handleServerElapsed); it may come before the record is stored.  Every  *)
(* page has a connection (connHandler) that subscribes to the broker,      *)
(* sends a snapshot of the store and then forwards what its listener       *)
(* receives.  RecordStore is the store and Broker the broker; connections  *)
(* stand for their listeners.                                              *)
(***************************************************************************)
EXTENDS Naturals, Sequences, FiniteSets

CONSTANTS
    Conns,          \* the connections of pages, each with one listener
    maxRecords,     \* Records.maxRecords, 0 for no limit
    MaxId,          \* bound: the ids that are handed out
    Replays,        \* ids of replayed requests: the server does not time them
    WireSize,       \* bound: events on their way to one page
    PublishSize,    \* capacity of the broker's publishCh
    ListenerSize    \* capacity of a listener

ASSUME SizesAssumption ==
    /\ maxRecords \in Nat /\ MaxId \in Nat /\ WireSize \in Nat
    /\ PublishSize \in Nat \ {0} /\ ListenerSize \in Nat \ {0}

VARIABLES
    seqId, pending, records, lastDeleted, missed,           \* of RecordStore
    sent, publishCh, subCh, unsubCh, subs, made, ended,     \* of Broker
    listener, closed, last, got, left, panicked,
    adding,         \* records stored and not yet published
    timing,         \* records marked whose update is not yet published
    timed,          \* stored records with Step POST_RESPONSE and their time
    answered,       \* records whose elapsed time has come from the server
    conn,           \* conn[c]: where its handler is
    wire            \* wire[c]: the events sent to the page and not yet handled

storeVars == <<seqId, pending, records, lastDeleted, missed>>
brokerVars == <<sent, publishCh, subCh, unsubCh, subs, made, ended, listener, closed, last,
                got, left, panicked>>
handlerVars == <<adding, timing, timed, answered, conn, wire>>
streamVars == <<storeVars, brokerVars, handlerVars>>

Ids == 1..MaxId

\* What is published: a stored record, or the update with its elapsed time.
Messages == [id : Ids, kind : {"record", "update"}]

Store == INSTANCE RecordStore
Events == INSTANCE Broker WITH Listeners <- Conns

-----------------------------------------------------------------------------
StreamInit ==
    /\ Store!Init
    /\ Events!Init
    /\ adding = {}
    /\ timing = {}
    /\ timed = {}
    /\ answered = {}
    /\ conn = [c \in Conns |-> "new"]
    /\ wire = [c \in Conns |-> <<>>]

\* A request arrives; one whose goroutine ends without a record stays pending.
Request ==
    /\ Store!NewRecord
    /\ UNCHANGED <<brokerVars, handlerVars>>

\* AddRecordAndPublish stores first ...
AddRecord(id) ==
    /\ Store!AddRecord(id)
    /\ adding' = adding \cup {id}
    /\ UNCHANGED <<brokerVars, timing, timed, answered, conn, wire>>

\* ... and publishes a pointer to the record afterwards.
PublishRecord(id) ==
    /\ id \in adding
    /\ Events!Publish([id |-> id, kind |-> "record"])
    /\ adding' = adding \ {id}
    /\ UNCHANGED <<storeVars, timing, timed, answered, conn, wire>>

\* handleServerElapsed: a record that is not, or no longer, stored is not found.
ServerElapsed(id) ==
    /\ id \in 1..seqId \ (answered \cup Replays)
    /\ answered' = answered \cup {id}
    /\ IF id \in records
       THEN timed' = timed \cup {id} /\ timing' = timing \cup {id}
       ELSE UNCHANGED <<timed, timing>>
    /\ UNCHANGED <<storeVars, brokerVars, adding, conn, wire>>

PublishUpdate(id) ==
    /\ id \in timing
    /\ Events!Publish([id |-> id, kind |-> "update"])
    /\ timing' = timing \ {id}
    /\ UNCHANGED <<storeVars, adding, timed, answered, conn, wire>>

\* The broker's goroutine.
Broke ==
    /\ Events!Serve
    /\ UNCHANGED <<storeVars, handlerVars>>

-----------------------------------------------------------------------------
\* connHandler starts: the subscription, which may still wait in subCh.
Subscribe(c) ==
    /\ conn[c] = "new"
    /\ Events!Subscribe(c)
    /\ conn' = [conn EXCEPT ![c] = "subscribed"]
    /\ UNCHANGED <<storeVars, adding, timing, timed, answered, wire>>

\* Mutant: the clones leave the server's time out.
CloneWithoutServerElapsed == {[id |-> id, timed |-> FALSE] : id \in records}

\* Thin clones of what is stored, each with its server time if it has one.
ThinCloneWithoutResponseBody == {[id |-> id, timed |-> id \in timed] : id \in records}

\* The "start" event; from here on the listener is read.
SendStart(c) ==
    /\ conn[c] = "subscribed"
    /\ conn' = [conn EXCEPT ![c] = "streaming"]
    /\ wire' = [wire EXCEPT ![c] = Append(@, [event |-> "start",
                                              recs |-> ThinCloneWithoutResponseBody])]
    /\ UNCHANGED <<storeVars, brokerVars, adding, timing, timed, answered>>

\* The event is chosen by the step the record has now, not by what was published.
IsUpdate(msg) == msg.kind = "update" \/ msg.id \in timed

\* The goroutine that forwards what the listener receives; what it writes
\* after the page has left goes nowhere.
Forward(c) ==
    /\ conn[c] \in {"streaming", "left"}
    /\ Len(wire[c]) < WireSize
    /\ Events!Receive(c)
    /\ LET msg == Head(listener[c]).msg IN
        wire' = IF conn[c] = "left" THEN wire
                ELSE [wire EXCEPT ![c] =
                        Append(@, [event |-> IF IsUpdate(msg) THEN "update-record" ELSE "new-record",
                                   recs |-> {[id |-> msg.id, timed |-> IsUpdate(msg)]}])]
    /\ UNCHANGED <<storeVars, adding, timing, timed, answered, conn>>

\* The request's context is done: the deferred Unsubscribe.
Leave(c) ==
    /\ conn[c] = "streaming"
    /\ Events!Unsubscribe(c)
    /\ conn' = [conn EXCEPT ![c] = "left"]
    /\ wire' = [wire EXCEPT ![c] = <<>>]
    /\ UNCHANGED <<storeVars, adding, timing, timed, answered>>

\* clearHandler.
RemoveAll ==
    /\ Store!RemoveAll
    /\ UNCHANGED <<brokerVars, handlerVars>>

-----------------------------------------------------------------------------
\* The ids of the records on their way from the store to the page of c.
OnTheWay(c) ==
    adding
    \cup {publishCh[i].msg.id : i \in {j \in DOMAIN publishCh : publishCh[j].msg.kind = "record"}}
    \cup {listener[c][i].msg.id : i \in {j \in DOMAIN listener[c] : listener[c][j].msg.kind = "record"}}
    \cup UNION {{r.id : r \in wire[c][i].recs} :
                   i \in {j \in DOMAIN wire[c] : wire[c][j].event # "update-record"}}

\* Nothing more will be sent on connection c unless something happens.
StreamQuiet(c) ==
    /\ adding = {} /\ timing = {}
    /\ publishCh = <<>> /\ subCh = <<>>
    /\ conn[c] = "streaming"
    /\ listener[c] = <<>> /\ wire[c] = <<>>
    /\ ~panicked
=============================================================================
