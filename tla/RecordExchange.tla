--------------------------- MODULE RecordExchange ---------------------------
(***************************************************************************)
(* One server session at work: the HTTP handlers that put requests on the  *)
(* session's RecordChannel and wait for their responses, the goroutines    *)
(* that carry records between the session and its tunnel streams, and the  *)
(* client at the other end, over connections that break and come back.     *)
(*                                                                         *)
(* A stream is "up", or "cut" (the client has lost it, the server does not *)
(* know yet: what is sent is lost), or "down" (its context is done: sends  *)
(* and receives fail).  Losing a stream loses what is in flight on it.     *)
(*                                                                         *)
(* A request stands for its HTTP handler, for the Record made for it and   *)
(* for the response the proxied server gives to it.                        *)
(***************************************************************************)
EXTENDS Naturals, Sequences, FiniteSets

CONSTANTS
    Requests,       \* HTTP requests for the session's host
    Streams,        \* Tunnel calls on the session
    ChannelSize,    \* capacity of RecordChannel, 32 in NewSession
    BigRequests,    \* requests over the tunnel's request size
    BigResponses,   \* requests whose response is over the response size
    Parts,          \* parts a reply is written in: headers, status and body
    GatewayTimeout, \* the 504 response
    None            \* nil

ASSUME ConstantsAssumption ==
    /\ ChannelSize \in Nat \ {0}
    /\ Parts \in Nat \ {0}
    /\ BigRequests \subseteq Requests
    /\ BigResponses \subseteq Requests
    /\ IsFiniteSet(Requests)
    /\ {GatewayTimeout, None} \cap Requests = {}
    /\ None \notin Streams
    /\ GatewayTimeout # None

VARIABLES
    registered,     \* the session manager knows the session
    isIdle,         \* Session.IsIdle; while it is, the idle timer runs
    expiring,       \* the timer has fired and Deregister is on its way
    channel,        \* Session.RecordChannel: what is buffered ...
    isOpen,         \* ... and whether it is still open
    seq,            \* Session.seq
    records,        \* Session.records: the record of every id
    recordId, response, signalled,  \* Record.Id, .Response, .OnResponse closed
    pc, reply,      \* HTTP handlers: step, and the parts of the reply written
    stream,         \* state of every stream
    toClient, toServer,             \* messages in flight on every stream
    sender,         \* sendServerMessage: step and message in hand
    receiver,       \* receiveClientMessage: step, record and response in hand
    work,           \* the client's goroutines: the stream a request came on
    wasted,         \* history: messages a sender took off the channel after
                    \* its stream was down
    crashed         \* what goroutine's panic ended the process

session == <<registered, isIdle, expiring>>
queue == <<channel, isOpen>>
record == <<seq, records, recordId, response, signalled>>
handler == <<pc, reply>>
wire == <<toClient, toServer>>
tunnel == <<stream, wire, sender, receiver, wasted>>
vars == <<session, queue, record, handler, tunnel, work, crashed>>

Ids == 1..Cardinality(Requests)

Ended == {"replied", "replied504", "help", "refused", "aborted"}

Message == [step : {"REQUEST", "POST_RESPONSE"}, id : Ids, req : Requests]
Values == Requests \cup {GatewayTimeout, None}
Steps == {"new", "lookup", "add", "publish", "wait", "gaveUp", "elapsed", "reply",
          "reply504"} \cup Ended
Senders == [at : {"none", "take", "ended"}, msg : {None}] \cup [at : {"send"}, msg : Message]
Receivers == [at : {"none", "recv", "ended"}, rec : {None}, res : {None}]
             \cup [at : {"set", "signal"}, rec : Requests, res : Requests]

\* Every variable has its type, the channel holds no more than its buffer, and
\* a goroutine that is to send or to store has something to.
TypeOK ==
    /\ registered \in BOOLEAN /\ isIdle \in BOOLEAN /\ expiring \in BOOLEAN
    /\ channel \in Seq(Message) /\ Len(channel) <= ChannelSize
    /\ isOpen \in BOOLEAN
    /\ seq \in 0..Cardinality(Requests)
    /\ records \in [Ids -> Requests \cup {None}]
    /\ recordId \in [Requests -> Ids \cup {0}]
    /\ response \in [Requests -> Values]
    /\ signalled \in [Requests -> BOOLEAN]
    /\ pc \in [Requests -> Steps]
    /\ reply \in [Requests -> Seq(Values)]
    /\ stream \in [Streams -> {"none", "up", "cut", "down"}]
    /\ toClient \in [Streams -> Seq(Message)]
    /\ toServer \in [Streams -> Seq([id : Ids, res : Requests])]
    /\ sender \in [Streams -> Senders]
    /\ receiver \in [Streams -> Receivers]
    /\ work \in [Requests -> Streams \cup {None}]
    /\ wasted \in [Streams -> Nat]
    /\ crashed \in {"no", "nil record", "closed signal"}

\* The session has just been made and its first tunnel attached.
Init ==
    /\ registered = TRUE
    /\ isIdle = FALSE
    /\ expiring = FALSE
    /\ channel = <<>>
    /\ isOpen = TRUE
    /\ seq = 0
    /\ records = [i \in Ids |-> None]
    /\ recordId = [r \in Requests |-> 0]
    /\ response = [r \in Requests |-> None]
    /\ signalled = [r \in Requests |-> FALSE]
    /\ pc = [r \in Requests |-> "new"]
    /\ reply = [r \in Requests |-> <<>>]
    /\ \E first \in Streams :
          /\ stream = [s \in Streams |-> IF s = first THEN "up" ELSE "none"]
          /\ sender = [s \in Streams |-> [at |-> IF s = first THEN "take" ELSE "none",
                                           msg |-> None]]
          /\ receiver = [s \in Streams |-> [at |-> IF s = first THEN "recv" ELSE "none",
                                             rec |-> None, res |-> None]]
    /\ toClient = [s \in Streams |-> <<>>]
    /\ toServer = [s \in Streams |-> <<>>]
    /\ work = [r \in Requests |-> None]
    /\ wasted = [s \in Streams |-> 0]
    /\ crashed = "no"

Step(r, from, to) ==
    /\ pc[r] = from
    /\ pc' = [pc EXCEPT ![r] = to]

-----------------------------------------------------------------------------
(* The HTTP handler of a request: recorderHandler, getRecordWhenReady.     *)

HasClient(r) ==
    /\ \/ registered /\ Step(r, "new", "lookup")
       \/ ~registered /\ Step(r, "new", "help")
    /\ UNCHANGED <<session, queue, record, reply, tunnel, work, crashed>>

\* Get after Exists: a session deregistered in between is nil, and the panic
\* ends the connection.
GetClient(r) ==
    /\ \/ registered /\ ~isIdle /\ Step(r, "lookup", "add")
       \/ registered /\ isIdle /\ Step(r, "lookup", "refused")
       \/ ~registered /\ Step(r, "lookup", "aborted")
    /\ UNCHANGED <<session, queue, record, reply, tunnel, work, crashed>>

\* Mutant: the id is the one after the records still waiting.
AddRecordByCount(r) ==
    LET id == Cardinality({i \in Ids : records[i] # None}) + 1 IN
    /\ Step(r, "add", "publish")
    /\ recordId' = [recordId EXCEPT ![r] = id]
    /\ records' = [records EXCEPT ![id] = r]
    /\ UNCHANGED <<session, queue, seq, response, signalled, reply, tunnel, work, crashed>>

\* AddRecordAndPublish up to the channel send.
AddRecord(r) ==
    /\ Step(r, "add", "publish")
    /\ seq' = seq + 1
    /\ recordId' = [recordId EXCEPT ![r] = seq + 1]
    /\ records' = [records EXCEPT ![seq + 1] = r]
    /\ UNCHANGED <<session, queue, response, signalled, reply, tunnel, work, crashed>>

\* Sending on RecordChannel: it blocks while the buffer is full, with no
\* timeout running, and panics once the channel is closed.
ChannelSend(r, step, from, to) ==
    \/ /\ isOpen /\ Len(channel) < ChannelSize
       /\ Step(r, from, to)
       /\ channel' = Append(channel, [step |-> step, id |-> recordId[r], req |-> r])
    \/ /\ ~isOpen
       /\ Step(r, from, "aborted")
       /\ UNCHANGED channel

Publish(r) ==
    /\ ChannelSend(r, "REQUEST", "publish", "wait")
    /\ UNCHANGED <<session, isOpen, record, reply, tunnel, work, crashed>>

RemoveRecord(r) == records' = [records EXCEPT ![recordId[r]] = None]

\* The select: the response is there, or the timeout ran out or the caller is
\* gone; RemoveRecord is deferred to its end.
OnResponse(r) ==
    /\ signalled[r]
    /\ Step(r, "wait", "elapsed")
    /\ RemoveRecord(r)
    /\ UNCHANGED <<session, queue, seq, recordId, response, signalled, reply, tunnel, work, crashed>>

\* Mutant: the record is removed only when its response came.
GiveUpKeeping(r) ==
    /\ Step(r, "wait", "gaveUp")
    /\ UNCHANGED <<session, queue, record, reply, tunnel, work, crashed>>

GiveUp(r) ==
    /\ Step(r, "wait", "gaveUp")
    /\ RemoveRecord(r)
    /\ UNCHANGED <<session, queue, seq, recordId, response, signalled, reply, tunnel, work, crashed>>

SetGatewayTimeout(r) ==
    /\ Step(r, "gaveUp", "reply504")
    /\ response' = [response EXCEPT ![r] = GatewayTimeout]
    /\ UNCHANGED <<session, queue, seq, records, recordId, signalled, reply, tunnel, work, crashed>>

SendServerElapsed(r) ==
    /\ ChannelSend(r, "POST_RESPONSE", "elapsed", "reply")
    /\ UNCHANGED <<session, isOpen, record, reply, tunnel, work, crashed>>

\* The reply is written part by part, record.Response read anew for each.
WriteReply(r) ==
    /\ \/ Len(reply[r]) + 1 < Parts /\ pc[r] \in {"reply", "reply504"} /\ UNCHANGED pc
       \/ Len(reply[r]) + 1 = Parts /\ Step(r, "reply", "replied")
       \/ Len(reply[r]) + 1 = Parts /\ Step(r, "reply504", "replied504")
    /\ reply' = [reply EXCEPT ![r] = Append(@, response[r])]
    /\ UNCHANGED <<session, queue, record, tunnel, work, crashed>>

-----------------------------------------------------------------------------
(* The goroutines of a stream, and the client behind it.                   *)

Big(msg) == msg.step = "REQUEST" /\ msg.req \in BigRequests

\* Mutant: the sender does not notice that the channel is closed and empty.
TakeUnchecked(s) ==
    /\ sender[s].at = "take"
    /\ channel # <<>> \/ ~isOpen
    /\ sender' = [sender EXCEPT ![s] = [at |-> "send",
                                        msg |-> IF channel = <<>> THEN None ELSE Head(channel)]]
    /\ channel' = IF channel = <<>> THEN channel ELSE Tail(channel)
    /\ UNCHANGED <<session, isOpen, record, handler, stream, wire, receiver, work, wasted, crashed>>

\* sendServerMessage, ranging over the channel: the next record, or the end of
\* a channel that is closed and empty.
TakeRecord(s) ==
    /\ sender[s].at = "take"
    /\ \/ /\ channel # <<>>
          /\ sender' = [sender EXCEPT ![s] = [at |-> "send", msg |-> Head(channel)]]
          /\ channel' = Tail(channel)
          /\ wasted' = IF stream[s] = "down" /\ ~Big(Head(channel))
                       THEN [wasted EXCEPT ![s] = @ + 1] ELSE wasted
       \/ /\ channel = <<>> /\ ~isOpen
          /\ sender' = [sender EXCEPT ![s].at = "ended"]
          /\ UNCHANGED <<channel, wasted>>
    /\ UNCHANGED <<session, isOpen, record, handler, stream, wire, receiver, work, crashed>>

\* Mutants of handleGRPCErrors: a dead stream is handled like a record too
\* big, or a record too big like a dead stream.
StopsOnNoError(s) == FALSE
StopsOnAnyError(s) == stream[s] = "down" \/ Big(sender[s].msg)

\* handleGRPCErrors: a record over the maximum size is discarded, whatever the
\* stream's state; any other error ends the goroutine.
StopsOnError(s) == stream[s] = "down" /\ ~Big(sender[s].msg)

SendRecord(s) ==
    /\ sender[s].at = "send"
    /\ sender' = [sender EXCEPT ![s] = [at |-> IF StopsOnError(s) THEN "ended" ELSE "take",
                                        msg |-> None]]
    /\ toClient' = IF stream[s] = "up" /\ ~Big(sender[s].msg)
                   THEN [toClient EXCEPT ![s] = Append(@, sender[s].msg)] ELSE toClient
    /\ UNCHANGED <<session, queue, record, handler, stream, toServer, receiver, work, wasted, crashed>>

\* onTunnelStart: every message is handled in a goroutine of its own; the
\* time elapsed changes nothing here.
ClientReceive(s) ==
    /\ stream[s] = "up" /\ toClient[s] # <<>>
    /\ toClient' = [toClient EXCEPT ![s] = Tail(@)]
    /\ work' = IF Head(toClient[s]).step = "REQUEST"
               THEN [work EXCEPT ![Head(toClient[s]).req] = s] ELSE work
    /\ UNCHANGED <<session, queue, record, handler, stream, toServer, sender, receiver, wasted, crashed>>

\* Mutant: a response is sent again, in case the first was lost.
RespondAgain(r) ==
    /\ work[r] # None
    /\ \/ work' = [work EXCEPT ![r] = None]
       \/ stream[work[r]] = "up" /\ Len(toServer[work[r]]) < 1 /\ UNCHANGED work
    /\ toServer' = IF stream[work[r]] = "up"
                   THEN [toServer EXCEPT ![work[r]] = Append(@, [id |-> recordId[r], res |-> r])]
                   ELSE toServer
    /\ UNCHANGED <<session, queue, record, handler, stream, toClient, sender, receiver, wasted, crashed>>

\* handleServerRequest: the response goes back on the stream the request came
\* on, if that is still there.
Respond(r) ==
    /\ work[r] # None
    /\ work' = [work EXCEPT ![r] = None]
    /\ toServer' = IF stream[work[r]] = "up"
                   THEN [toServer EXCEPT ![work[r]] = Append(@, [id |-> recordId[r], res |-> r])]
                   ELSE toServer
    /\ UNCHANGED <<session, queue, record, handler, stream, toClient, sender, receiver, wasted, crashed>>

\* doRequest panics and catchAllErrors swallows it: there is no response.
ClientPanics(r) ==
    /\ work[r] # None
    /\ work' = [work EXCEPT ![r] = None]
    /\ UNCHANGED <<session, queue, record, handler, tunnel, crashed>>

\* receiveClientMessage, first half of SetRecordResponse: the record is looked
\* up.  The error of a message over the maximum size counts as handled, but
\* there is no message then, and reading its record panics.
Receive(s) ==
    /\ receiver[s].at = "recv"
    /\ stream[s] \in {"up", "cut"} /\ toServer[s] # <<>>
    /\ toServer' = [toServer EXCEPT ![s] = Tail(@)]
    /\ LET m == Head(toServer[s]) IN
        \/ /\ m.res \in BigResponses
           /\ crashed' = "nil record"
           /\ UNCHANGED receiver
        \/ /\ m.res \notin BigResponses
           /\ receiver' = IF records[m.id] = None THEN receiver
                          ELSE [receiver EXCEPT ![s] = [at |-> "set", rec |-> records[m.id],
                                                        res |-> m.res]]
           /\ UNCHANGED crashed
    /\ UNCHANGED <<session, queue, record, handler, stream, toClient, sender, work, wasted>>

ReceiveFails(s) ==
    /\ receiver[s].at = "recv" /\ stream[s] = "down"
    /\ receiver' = [receiver EXCEPT ![s].at = "ended"]
    /\ UNCHANGED <<session, queue, record, handler, stream, wire, sender, work, wasted, crashed>>

\* Mutant: the waiting handler is woken before the response is stored.
SetResponseLast(s) ==
    /\ receiver[s].at = "set"
    /\ signalled' = [signalled EXCEPT ![receiver[s].rec] = TRUE]
    /\ receiver' = [receiver EXCEPT ![s].at = "signal"]
    /\ UNCHANGED <<session, queue, seq, records, recordId, response, handler, stream, wire, sender, wasted, work, crashed>>

SetResponse(s) ==
    /\ receiver[s].at = "set"
    /\ response' = [response EXCEPT ![receiver[s].rec] = receiver[s].res]
    /\ receiver' = [receiver EXCEPT ![s].at = "signal"]
    /\ UNCHANGED <<session, queue, seq, records, recordId, signalled, handler, stream, wire, sender, wasted, work, crashed>>

\* OnResponse.SendLast: closing the signal a second time panics.
SendSignal(s) ==
    /\ receiver[s].at = "signal"
    /\ receiver' = [receiver EXCEPT ![s] = [at |-> "recv", rec |-> None, res |-> None]]
    /\ signalled' = [signalled EXCEPT ![receiver[s].rec] = TRUE]
    /\ crashed' = IF signalled[receiver[s].rec] THEN "closed signal" ELSE crashed
    /\ UNCHANGED <<session, queue, seq, records, recordId, response, handler, stream, wire, sender, work, wasted>>

-----------------------------------------------------------------------------
(* Streams, and the end of the session.                                    *)

\* A client has one tunnel at a time; the server may still have the last one.
Attach(s) ==
    /\ stream[s] = "none" /\ registered
    /\ \A other \in Streams : stream[other] # "up"
    /\ stream' = [stream EXCEPT ![s] = "up"]
    /\ sender' = [sender EXCEPT ![s].at = "take"]
    /\ receiver' = [receiver EXCEPT ![s].at = "recv"]
    /\ isIdle' = FALSE
    /\ UNCHANGED <<registered, expiring, queue, record, handler, wire, work, wasted, crashed>>

\* The connection is lost; of what the client sent, a part has arrived.
Cut(s) ==
    /\ stream[s] = "up"
    /\ stream' = [stream EXCEPT ![s] = "cut"]
    /\ toClient' = [toClient EXCEPT ![s] = <<>>]
    /\ \E n \in 0..Len(toServer[s]) :
          toServer' = [toServer EXCEPT ![s] = SubSeq(@, 1, n)]
    /\ UNCHANGED <<session, queue, record, handler, sender, receiver, work, wasted, crashed>>

\* The stream's context is done, by disconnection or by expiry.
Down(s) ==
    /\ stream[s] \in {"up", "cut"}
    /\ stream' = [stream EXCEPT ![s] = "down"]
    /\ toClient' = [toClient EXCEPT ![s] = <<>>]
    /\ toServer' = [toServer EXCEPT ![s] = <<>>]
    /\ isIdle' = TRUE
    /\ UNCHANGED <<registered, expiring, queue, record, handler, sender, receiver, work, wasted, crashed>>

TimerFires ==
    /\ isIdle /\ ~expiring
    /\ expiring' = TRUE
    /\ UNCHANGED <<registered, isIdle, queue, record, handler, tunnel, work, crashed>>

Close ==
    /\ expiring /\ isOpen
    /\ isOpen' = FALSE
    /\ UNCHANGED <<session, channel, record, handler, tunnel, work, crashed>>

Unregister ==
    /\ ~isOpen /\ registered
    /\ registered' = FALSE
    /\ UNCHANGED <<isIdle, expiring, queue, record, handler, tunnel, work, crashed>>

-----------------------------------------------------------------------------
\* What a handler does once its request has arrived.
HandlerStep(r) ==
    \/ GetClient(r)
    \/ AddRecord(r)
    \/ Publish(r)
    \/ OnResponse(r)
    \/ GiveUp(r)
    \/ SetGatewayTimeout(r)
    \/ SendServerElapsed(r)
    \/ WriteReply(r)

SenderStep(s) == TakeRecord(s) \/ SendRecord(s)

ReceiverStep(s) == Receive(s) \/ ReceiveFails(s) \/ SetResponse(s) \/ SendSignal(s)

DeregisterStep == TimerFires \/ Close \/ Unregister

Next ==
    /\ crashed = "no"
    /\ \/ \E r \in Requests :
            \/ HasClient(r)
            \/ HandlerStep(r)
            \/ Respond(r)
            \/ ClientPanics(r)
       \/ \E s \in Streams :
            \/ SenderStep(s)
            \/ ReceiverStep(s)
            \/ ClientReceive(s)
            \/ Attach(s)
            \/ Cut(s)
            \/ Down(s)
       \/ DeregisterStep

Spec == Init /\ [][Next]_vars

\* The goroutines are scheduled, timeouts and timers run out, and keepalive
\* tells the server of a lost connection.  Nothing is asked of the client: it
\* may never answer, never come back and never let go of the stream.
Fairness ==
    /\ \A r \in Requests : WF_vars(crashed = "no" /\ HandlerStep(r))
    /\ \A s \in Streams :
        /\ WF_vars(crashed = "no" /\ SenderStep(s))
        /\ WF_vars(crashed = "no" /\ ReceiverStep(s))
        /\ WF_vars(crashed = "no" /\ stream[s] = "cut" /\ Down(s))
    /\ WF_vars(crashed = "no" /\ DeregisterStep)

FairSpec == Spec /\ Fairness

-----------------------------------------------------------------------------
\* No reply carries any part of another request's response, however responses
\* are delayed and streams come and go (AddRecordAndPublish, SetRecordResponse).
OwnReply ==
    \A r \in Requests : \A i \in 1..Len(reply[r]) : reply[r][i] \in {r, GatewayTimeout}

\* A handler woken by its response replies with the whole of it: nothing is
\* read before the response is stored, and nothing overwrites it after.
WholeReply ==
    \A r \in Requests : pc[r] = "replied" => reply[r] = [i \in 1..Parts |-> r]

\* The signal of a record is closed once: SendLast never panics.
SignalledOnce == crashed # "closed signal"

\* A dead stream costs the session at most one record that another stream
\* could have carried: its sender, still ranging over the channel, takes one
\* more record, fails to send it and returns.
DeadStreamTakesOne == \A s \in Streams : wasted[s] <= 1

\* Session.records keeps no request that was replied to or given up.
RecordsAreAwaited ==
    \A i \in Ids : records[i] # None => pc[records[i]] \in {"publish", "wait", "aborted"}

\* Every request ends, though its handler may block on a full channel where no
\* timeout runs: the channel drains, or the session is closed.
EveryRequestEnds ==
    \A r \in Requests : pc[r] # "new" ~> (pc[r] \in Ended \/ crashed # "no")

\* service.go, handleGRPCErrors: "Request discarded. Reason: Max size
\* exceeded": a response over the maximum size is discarded and the tunnel
\* goes on, as the test for err == nil in receiveClientMessage expects.
OversizedDiscarded == crashed # "nil record"
=============================================================================
