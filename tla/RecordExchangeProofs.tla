------------------------ MODULE RecordExchangeProofs ------------------------
(***************************************************************************)
(* Theorems about RecordExchange: its invariants hold for any number of    *)
(* requests and streams, any channel size and any way streams are lost.    *)
(***************************************************************************)
EXTENDS RecordExchange, FiniteSetTheorems, SequenceTheorems, TLAPS

-----------------------------------------------------------------------------
(* The inductive invariant.                                                *)

Unnumbered == {"new", "lookup", "help", "refused", "add"}

\* Ids are handed out one after the other, each to one request, where
\* AddRecord is taken.
Numbers ==
    /\ seq = Cardinality({r \in Requests : recordId[r] # 0})
    /\ \A r \in Requests : /\ recordId[r] <= seq
                           /\ pc[r] \in Unnumbered => recordId[r] = 0
                           /\ pc[r] \notin Unnumbered \cup {"aborted"} => recordId[r] # 0
    /\ \A q, r \in Requests : recordId[q] = recordId[r] /\ recordId[q] # 0 => q = r

\* The record of an id is that of the request it was given to.
RecordsNumbered == \A i \in Ids : records[i] # None => recordId[records[i]] = i

Labelled(msg) == msg.id # 0 /\ msg.id = recordId[msg.req]

\* Whatever is on its way says the id of its request, and a response is given
\* to the record of the request it answers.
Labels ==
    /\ \A i \in 1..Len(channel) : Labelled(channel[i])
    /\ \A s \in Streams :
        /\ sender[s].at = "send" => Labelled(sender[s].msg)
        /\ \A i \in 1..Len(toClient[s]) : Labelled(toClient[s][i])
        /\ \A i \in 1..Len(toServer[s]) :
              toServer[s][i].id # 0 /\ toServer[s][i].id = recordId[toServer[s][i].res]
        /\ receiver[s].at \in {"set", "signal"} => receiver[s].rec = receiver[s].res

\* Goroutines run on streams that were attached, and one that took a record
\* in vain is about to end or has ended.
Goroutines ==
    \A s \in Streams :
        /\ stream[s] = "none" => sender[s].at = "none" /\ receiver[s].at = "none"
        /\ wasted[s] <= 1
        /\ wasted[s] = 1 => /\ stream[s] = "down"
                            /\ \/ sender[s].at = "ended"
                               \/ (sender[s].at = "send" /\ ~Big(sender[s].msg))

\* What a queue of messages, or of responses, holds of request r.
Asks(msg, r) == msg.step = "REQUEST" /\ msg.req = r
Has(q, r) == \E i \in 1..Len(q) : Asks(q[i], r)
HasReply(q, r) == \E i \in 1..Len(q) : q[i].res = r
Once(q) == \A r \in Requests : \A i, j \in 1..Len(q) : Asks(q[i], r) /\ Asks(q[j], r) => i = j
RepliesOnce(q) == \A i, j \in 1..Len(q) : q[i].res = q[j].res => i = j

Sending(s, r) == sender[s].at = "send" /\ Asks(sender[s].msg, r)
Answering(s, r) == receiver[s].at \in {"set", "signal"} /\ receiver[s].res = r

\* Request r is nowhere but in that place, on stream t.
OnlyIn(r, place, t) ==
    /\ Has(channel, r) => place = "channel"
    /\ work[r] # None => place = "work"
    /\ \A s \in Streams :
        /\ Sending(s, r) => place = "sender" /\ s = t
        /\ Has(toClient[s], r) => place = "toClient" /\ s = t
        /\ HasReply(toServer[s], r) => place = "toServer" /\ s = t
        /\ Answering(s, r) => place = "receiver" /\ s = t

Places == {"nowhere", "channel", "sender", "toClient", "work", "toServer", "receiver"}

\* A request is nowhere until it is published and from its answer on.
Absent(r) == recordId[r] = 0 \/ pc[r] = "publish" \/ signalled[r]

InOnePlace(r) ==
    \E place \in Places, t \in Streams :
        OnlyIn(r, place, t) /\ (Absent(r) => place = "nowhere")

\* A request is in one place at a time, and there once.
OnePlace ==
    /\ \A r \in Requests : InOnePlace(r)
    /\ \A r \in Requests : signalled[r] => recordId[r] # 0 /\ pc[r] # "publish"
    /\ Once(channel)
    /\ \A s \in Streams : Once(toClient[s]) /\ RepliesOnce(toServer[s])

TimedOut == {"reply504", "replied504"}

\* What a request's response and reply may be at each step of its handler.
ReplyOf(r) ==
    /\ response[r] \in {r, GatewayTimeout, None}
    /\ response[r] = GatewayTimeout => pc[r] \in TimedOut
    /\ pc[r] \in TimedOut => response[r] # None
    /\ signalled[r] => response[r] # None
    /\ pc[r] \in {"elapsed", "reply", "replied"} => signalled[r]
    /\ Len(reply[r]) <= Parts
    /\ pc[r] \in {"reply", "reply504"} => Len(reply[r]) < Parts
    /\ pc[r] = "replied" => Len(reply[r]) = Parts
    /\ pc[r] \notin {"reply", "replied"} \cup TimedOut => Len(reply[r]) = 0
    /\ \A i \in 1..Len(reply[r]) :
          reply[r][i] = r \/ (reply[r][i] = GatewayTimeout /\ pc[r] \in TimedOut)

Replies ==
    /\ \A r \in Requests : ReplyOf(r)
    /\ \A s \in Streams : receiver[s].at = "signal" => response[receiver[s].rec] # None

IInv == /\ TypeOK /\ Numbers /\ RecordsNumbered /\ RecordsAreAwaited
        /\ Labels /\ Goroutines /\ OnePlace /\ Replies /\ SignalledOnce

-----------------------------------------------------------------------------
(* Ids.                                                                    *)

\* What every step but a handler's leaves alone.
LEMMA OthersKeep ==
    ASSUME Next
    PROVE  \/ \E r \in Requests : HasClient(r) \/ HandlerStep(r)
           \/ UNCHANGED <<seq, recordId, records, handler>>
BY DEF Next, Respond, ClientPanics, SenderStep, TakeRecord, SendRecord, ReceiverStep,
       Receive, ReceiveFails, SetResponse, SendSignal, ClientReceive, Attach, Cut, Down,
       DeregisterStep, TimerFires, Close, Unregister, record, handler, tunnel, wire

LEMMA HowMany == Cardinality(Requests) \in Nat /\ Ids \subseteq Nat \ {0}
<1>1. Cardinality(Requests) \in Nat
  BY ConstantsAssumption, FS_CardinalityType
<1> QED BY <1>1 DEF Ids

LEMMA IdTypes ==
    ASSUME TypeOK
    PROVE  /\ seq \in Nat
           /\ recordId \in [Requests -> Ids \cup {0}]
           /\ \A r \in Requests : recordId[r] \in Nat
<1>1. seq \in 0..Cardinality(Requests) /\ recordId \in [Requests -> Ids \cup {0}]
  BY DEF TypeOK
<1>2. Cardinality(Requests) \in Nat /\ Ids \cup {0} \subseteq Nat
  BY HowMany
<1>3. seq \in Nat
  BY <1>1, <1>2
<1>4. \A r \in Requests : recordId[r] \in Nat
  BY <1>1, <1>2
<1> QED BY <1>1, <1>3, <1>4

LEMMA NextIdFits ==
    ASSUME TypeOK, Numbers, NEW r \in Requests, pc[r] = "add"
    PROVE  LET Given == {q \in Requests : recordId[q] # 0} IN
           /\ seq + 1 \in Ids
           /\ recordId[r] = 0
           /\ Cardinality(Given \cup {r}) = seq + 1
<1> DEFINE Given == {q \in Requests : recordId[q] # 0}
<1>1. r \notin Given
  BY DEF Numbers, Unnumbered
<1>2. IsFiniteSet(Given)
  BY ConstantsAssumption, FS_Subset
<1>3. Cardinality(Given \cup {r}) = seq + 1
  BY <1>1, <1>2, FS_AddElement DEF Numbers
<1>4. Cardinality(Given \cup {r}) <= Cardinality(Requests)
  BY ConstantsAssumption, FS_Subset, Given \cup {r} \subseteq Requests
<1>5. seq \in Nat /\ Cardinality(Requests) \in Nat
  BY HowMany, IdTypes
<1>6. seq + 1 \in Ids
  BY <1>3, <1>4, <1>5 DEF Ids
<1> QED BY <1>1, <1>3, <1>6

LEMMA NumbersStep ==
    ASSUME TypeOK, Numbers, [Next]_vars
    PROVE  Numbers'
<1>1. CASE UNCHANGED <<seq, recordId, handler>>
  BY <1>1 DEF Numbers, handler
<1>2. ASSUME NEW r \in Requests, AddRecord(r)
      PROVE  Numbers'
  <2> DEFINE Given == {q \in Requests : recordId[q] # 0}
  <2>1. /\ pc[r] = "add" /\ pc' = [pc EXCEPT ![r] = "publish"]
        /\ seq' = seq + 1 /\ recordId' = [recordId EXCEPT ![r] = seq + 1]
    BY <1>2 DEF AddRecord, Step
  <2>2. seq \in Nat /\ recordId \in [Requests -> Ids \cup {0}] /\ Ids \subseteq Nat
    BY HowMany, IdTypes
  <2>3. Given' = Given \cup {r}
    BY <2>1, <2>2
  <2>4. seq' = Cardinality(Given')
    <3>1. Cardinality(Given \cup {r}) = seq + 1
      BY <2>1, NextIdFits
    <3> QED BY <3>1, <2>1, <2>3
  <2>5. \A q \in Requests : recordId'[q] = IF q = r THEN seq + 1 ELSE recordId[q]
    BY <2>1, <2>2
  <2>6. \A q \in Requests : pc'[q] = IF q = r THEN "publish" ELSE pc[q]
    BY <2>1 DEF TypeOK
  <2>7. \A q \in Requests : recordId[q] <= seq /\ recordId[q] \in Nat
    BY IdTypes DEF Numbers
  <2>8. \A q \in Requests : /\ recordId'[q] <= seq'
                            /\ pc'[q] \in Unnumbered => recordId'[q] = 0
                            /\ pc'[q] \notin Unnumbered \cup {"aborted"} => recordId'[q] # 0
    BY <2>1, <2>2, <2>5, <2>6, <2>7 DEF Numbers, Unnumbered
  <2>9. \A p, q \in Requests : recordId'[p] = recordId'[q] /\ recordId'[p] # 0 => p = q
    BY <2>2, <2>5, <2>7 DEF Numbers
  <2> QED BY <2>4, <2>8, <2>9 DEF Numbers
<1>3. ASSUME NEW r \in Requests, HasClient(r) \/ HandlerStep(r), ~AddRecord(r)
      PROVE  Numbers'
  <2>1. UNCHANGED <<seq, recordId>>
    BY <1>3 DEF HasClient, HandlerStep, GetClient, Publish, OnResponse, GiveUp, RemoveRecord,
                SetGatewayTimeout, SendServerElapsed, WriteReply, record
  <2>2. \/ UNCHANGED pc
        \/ /\ pc[r] \in Unnumbered
           /\ \E to \in Unnumbered \cup {"aborted"} : pc' = [pc EXCEPT ![r] = to]
        \/ /\ pc[r] \notin Unnumbered
           /\ \E to : to \notin Unnumbered /\ pc' = [pc EXCEPT ![r] = to]
    BY <1>3 DEF HasClient, HandlerStep, GetClient, Publish, OnResponse, GiveUp, ChannelSend,
                SetGatewayTimeout, SendServerElapsed, WriteReply, Step, Unnumbered
  <2>3. pc \in [Requests -> Steps]
    BY DEF TypeOK
  <2>4. pc[r] # "aborted" \/ UNCHANGED pc
    BY <1>3 DEF HasClient, HandlerStep, GetClient, Publish, OnResponse, GiveUp, ChannelSend,
                SetGatewayTimeout, SendServerElapsed, WriteReply, Step
  <2>5. \A q \in Requests : /\ pc'[q] \in Unnumbered => pc[q] \in Unnumbered
                            /\ pc'[q] \notin Unnumbered \cup {"aborted"}
                                 => pc[q] \notin Unnumbered \cup {"aborted"}
    BY <2>2, <2>3, <2>4
  <2> QED BY <2>1, <2>5 DEF Numbers
<1>4. CASE Next
  <2>1. CASE \E r \in Requests : HasClient(r) \/ HandlerStep(r)
    BY <2>1, <1>2, <1>3
  <2> QED BY <1>1, <1>4, <2>1, OthersKeep
<1> QED BY <1>1, <1>4 DEF vars, record, handler

LEMMA RecordsStep ==
    ASSUME TypeOK, Numbers, RecordsNumbered, RecordsAreAwaited, [Next]_vars
    PROVE  RecordsNumbered' /\ RecordsAreAwaited'
<1>1. CASE UNCHANGED <<seq, recordId, records, handler>>
  BY <1>1 DEF RecordsNumbered, RecordsAreAwaited, handler
<1> SUFFICES ASSUME NEW r \in Requests, HasClient(r) \/ HandlerStep(r)
             PROVE  RecordsNumbered' /\ RecordsAreAwaited'
  BY <1>1, OthersKeep DEF vars, record, handler
<1>2. /\ records \in [Ids -> Requests \cup {None}]
      /\ recordId \in [Requests -> Ids \cup {0}]
      /\ pc \in [Requests -> Steps]
  BY DEF TypeOK
<1>3. \A i \in Ids : i # 0
  BY HowMany
<1>4. CASE AddRecord(r)
  <2>1. /\ pc[r] = "add" /\ pc' = [pc EXCEPT ![r] = "publish"]
        /\ recordId' = [recordId EXCEPT ![r] = seq + 1]
        /\ records' = [records EXCEPT ![seq + 1] = r]
    BY <1>4 DEF AddRecord, Step
  <2>2. recordId[r] = 0 /\ seq + 1 \in Ids
    BY <2>1, NextIdFits
  <2> QED BY <1>2, <1>3, <2>1, <2>2 DEF RecordsNumbered, RecordsAreAwaited
<1>5. CASE OnResponse(r) \/ GiveUp(r)
  <2>1. /\ pc[r] = "wait" /\ UNCHANGED recordId
        /\ records' = [records EXCEPT ![recordId[r]] = None]
        /\ \E to : pc' = [pc EXCEPT ![r] = to]
    BY <1>5 DEF OnResponse, GiveUp, RemoveRecord, Step
  <2> QED BY <1>2, <1>3, <2>1 DEF RecordsNumbered, RecordsAreAwaited
<1>6. CASE ~AddRecord(r) /\ ~OnResponse(r) /\ ~GiveUp(r)
  <2>1. UNCHANGED <<records, recordId>>
    BY <1>6 DEF HasClient, HandlerStep, GetClient, Publish, SetGatewayTimeout,
                SendServerElapsed, WriteReply, record
  <2>2. \/ UNCHANGED pc
        \/ /\ pc[r] \notin {"publish", "wait", "aborted"} /\ \E to : pc' = [pc EXCEPT ![r] = to]
        \/ pc[r] = "publish" /\ \E to \in {"wait", "aborted"} : pc' = [pc EXCEPT ![r] = to]
    BY <1>6 DEF HasClient, HandlerStep, GetClient, Publish, ChannelSend, SetGatewayTimeout,
                SendServerElapsed, WriteReply, Step
  <2> QED BY <1>2, <2>1, <2>2 DEF RecordsNumbered, RecordsAreAwaited
<1> QED BY <1>4, <1>5, <1>6

-----------------------------------------------------------------------------
(* Types.                                                                  *)

LEMMA SenderIs ==
    ASSUME NEW g \in Senders
    PROVE  \/ /\ g.at \in {"none", "take", "ended"} /\ g.msg = None
              /\ \A to \in {"take", "ended"} : [g EXCEPT !.at = to] \in Senders
           \/ g.at = "send" /\ g.msg \in Message
<1>1. CASE g \in [at : {"none", "take", "ended"}, msg : {None}]
  <2>1. \A to \in {"take", "ended"} :
           [g EXCEPT !.at = to] \in [at : {"none", "take", "ended"}, msg : {None}]
    BY <1>1
  <2> QED BY <1>1, <2>1 DEF Senders
<1> QED BY <1>1 DEF Senders

LEMMA ReceiverIs ==
    ASSUME NEW g \in Receivers
    PROVE  \/ /\ g.at \in {"none", "recv", "ended"} /\ g.rec = None /\ g.res = None
              /\ \A to \in {"recv", "ended"} : [g EXCEPT !.at = to] \in Receivers
           \/ /\ g.at \in {"set", "signal"} /\ g.rec \in Requests /\ g.res \in Requests
              /\ [g EXCEPT !.at = "signal"] \in Receivers
<1>1. CASE g \in [at : {"none", "recv", "ended"}, rec : {None}, res : {None}]
  <2>1. \A to \in {"recv", "ended"} :
           [g EXCEPT !.at = to] \in [at : {"none", "recv", "ended"}, rec : {None}, res : {None}]
    BY <1>1
  <2> QED BY <1>1, <2>1 DEF Receivers
<1>2. CASE g \in [at : {"set", "signal"}, rec : Requests, res : Requests]
  <2>1. [g EXCEPT !.at = "signal"] \in [at : {"set", "signal"}, rec : Requests, res : Requests]
    BY <1>2
  <2> QED BY <1>2, <2>1 DEF Receivers
<1> QED BY <1>1, <1>2 DEF Receivers

LEMMA ChannelSendTypes ==
    ASSUME TypeOK, Numbers, NEW r \in Requests, NEW step \in {"REQUEST", "POST_RESPONSE"},
           NEW from \in {"publish", "elapsed"}, NEW to \in {"wait", "reply"},
           ChannelSend(r, step, from, to)
    PROVE  channel' \in Seq(Message) /\ Len(channel') <= ChannelSize /\ pc' \in [Requests -> Steps]
<1>1. channel \in Seq(Message) /\ Len(channel) <= ChannelSize /\ pc \in [Requests -> Steps]
  BY DEF TypeOK
<1>2. pc' \in [Requests -> Steps]
  BY <1>1 DEF ChannelSend, Step, Steps, Ended
<1>3. CASE UNCHANGED channel
  BY <1>1, <1>2, <1>3
<1>4. CASE ~UNCHANGED channel
  <2> DEFINE m == [step |-> step, id |-> recordId[r], req |-> r]
  <2>1. pc[r] = from /\ Len(channel) < ChannelSize /\ channel' = Append(channel, m)
    BY <1>4 DEF ChannelSend, Step
  <2>2. recordId[r] \in Ids
    BY <2>1, IdTypes DEF Numbers, Unnumbered
  <2>3. m \in Message
    BY <2>2 DEF Message
  <2>4. channel' \in Seq(Message) /\ Len(channel') = Len(channel) + 1
    BY <1>1, <2>1, <2>3
  <2>5. ChannelSize \in Nat /\ Len(channel) \in Nat
    BY <1>1, ConstantsAssumption
  <2> QED BY <1>2, <2>1, <2>4, <2>5
<1> QED BY <1>3, <1>4

LEMMA HandlerTypes ==
    ASSUME TypeOK, Numbers, NEW r \in Requests, HasClient(r) \/ HandlerStep(r)
    PROVE  TypeOK'
<1>1. CASE HasClient(r) \/ GetClient(r)
  <2>1. pc' \in [Requests -> Steps]
    BY <1>1 DEF TypeOK, HasClient, GetClient, Step, Steps, Ended
  <2> QED BY <1>1, <2>1 DEF TypeOK, HasClient, GetClient, session, queue, record, tunnel, wire
<1>2. CASE AddRecord(r)
  <2>1. pc[r] = "add" /\ seq + 1 \in Ids /\ pc' \in [Requests -> Steps]
    BY <1>2, NextIdFits DEF TypeOK, AddRecord, Step, Steps
  <2>2. seq' \in 0..Cardinality(Requests)
    BY <1>2, <2>1, HowMany DEF AddRecord, Ids
  <2>3. records' \in [Ids -> Requests \cup {None}] /\ recordId' \in [Requests -> Ids \cup {0}]
    BY <1>2, <2>1 DEF TypeOK, AddRecord
  <2> QED BY <1>2, <2>1, <2>2, <2>3 DEF TypeOK, AddRecord, session, queue, tunnel, wire
<1>3. CASE Publish(r)
  <2>1. channel' \in Seq(Message) /\ Len(channel') <= ChannelSize /\ pc' \in [Requests -> Steps]
    BY <1>3, ChannelSendTypes DEF Publish
  <2> QED BY <1>3, <2>1 DEF TypeOK, Publish, session, record, tunnel, wire
<1>4. CASE SendServerElapsed(r)
  <2>1. channel' \in Seq(Message) /\ Len(channel') <= ChannelSize /\ pc' \in [Requests -> Steps]
    BY <1>4, ChannelSendTypes DEF SendServerElapsed
  <2> QED BY <1>4, <2>1 DEF TypeOK, SendServerElapsed, session, record, tunnel, wire
<1>5. CASE OnResponse(r) \/ GiveUp(r)
  <2>1. pc' \in [Requests -> Steps]
    BY <1>5 DEF TypeOK, OnResponse, GiveUp, Step, Steps
  <2>2. records' \in [Ids -> Requests \cup {None}]
    BY <1>5 DEF TypeOK, OnResponse, GiveUp, RemoveRecord
  <2> QED BY <1>5, <2>1, <2>2 DEF TypeOK, OnResponse, GiveUp, session, queue, tunnel, wire
<1>6. CASE SetGatewayTimeout(r)
  <2>1. pc' \in [Requests -> Steps] /\ response' \in [Requests -> Values]
    BY <1>6 DEF TypeOK, SetGatewayTimeout, Step, Steps, Values
  <2> QED BY <1>6, <2>1 DEF TypeOK, SetGatewayTimeout, session, queue, tunnel, wire
<1>7. CASE WriteReply(r)
  <2>1. pc' \in [Requests -> Steps]
    BY <1>7 DEF TypeOK, WriteReply, Step, Steps, Ended
  <2>2. reply' \in [Requests -> Seq(Values)]
    <3>1. reply \in [Requests -> Seq(Values)] /\ response[r] \in Values
      BY DEF TypeOK
    <3>2. Append(reply[r], response[r]) \in Seq(Values)
      BY <3>1
    <3> QED BY <1>7, <3>1, <3>2 DEF WriteReply
  <2> QED BY <1>7, <2>1, <2>2 DEF TypeOK, WriteReply, session, queue, record, tunnel, wire
<1> QED BY <1>1, <1>2, <1>3, <1>4, <1>5, <1>6, <1>7 DEF HandlerStep

LEMMA WorkNumbered ==
    ASSUME TypeOK, OnePlace, NEW r \in Requests, work[r] # None
    PROVE  recordId[r] \in Ids /\ recordId[r] # 0 /\ work[r] \in Streams
<1>1. recordId[r] # 0
  BY DEF OnePlace, InOnePlace, Absent, OnlyIn
<1>2. recordId[r] \in Ids \cup {0} /\ work[r] \in Streams \cup {None}
  BY DEF TypeOK
<1> QED BY <1>1, <1>2

Response == [id : Ids, res : Requests]

LEMMA ClientTypes ==
    ASSUME TypeOK, OnePlace, NEW r \in Requests, Respond(r) \/ ClientPanics(r)
    PROVE  TypeOK'
<1>1. work' \in [Requests -> Streams \cup {None}]
  BY DEF TypeOK, Respond, ClientPanics
<1>2. CASE ClientPanics(r)
  BY <1>1, <1>2 DEF TypeOK, ClientPanics, session, queue, record, handler, tunnel, wire
<1>3. CASE Respond(r)
  <2> DEFINE s == work[r]
             m == [id |-> recordId[r], res |-> r]
  <2>1. s \in Streams /\ m \in Response
    BY <1>3, WorkNumbered DEF Respond, Response
  <2>2. toServer \in [Streams -> Seq(Response)]
    BY DEF TypeOK, Response
  <2>3. Append(toServer[s], m) \in Seq(Response)
    BY <2>1, <2>2
  <2>4. toServer' \in [Streams -> Seq(Response)]
    BY <1>3, <2>1, <2>2, <2>3 DEF Respond
  <2> QED BY <1>1, <1>3, <2>4 DEF TypeOK, Respond, Response, session, queue, record, handler
<1> QED BY <1>2, <1>3

LEMMA SenderTypes ==
    ASSUME TypeOK, NEW s \in Streams, SenderStep(s)
    PROVE  TypeOK'
<1>1. /\ channel \in Seq(Message) /\ Len(channel) <= ChannelSize
      /\ sender \in [Streams -> Senders] /\ wasted \in [Streams -> Nat]
      /\ toClient \in [Streams -> Seq(Message)]
  BY DEF TypeOK
<1>2. CASE TakeRecord(s) /\ channel # <<>>
  <2>1. /\ Head(channel) \in Message /\ Tail(channel) \in Seq(Message)
        /\ Len(Tail(channel)) = Len(channel) - 1 /\ Len(channel) \in Nat
    BY <1>1, <1>2
  <2>2. [at |-> "send", msg |-> Head(channel)] \in Senders
    BY <2>1 DEF Senders
  <2>3. /\ sender' = [sender EXCEPT ![s] = [at |-> "send", msg |-> Head(channel)]]
        /\ channel' = Tail(channel)
        /\ wasted' = [wasted EXCEPT ![s] = @ + 1] \/ UNCHANGED wasted
    BY <1>2 DEF TakeRecord
  <2>4. sender' \in [Streams -> Senders] /\ wasted' \in [Streams -> Nat]
    BY <1>1, <2>2, <2>3
  <2>5. channel' \in Seq(Message) /\ Len(channel') <= ChannelSize
    <3>1. ChannelSize \in Nat
      BY ConstantsAssumption
    <3> QED BY <1>1, <2>1, <2>3, <3>1
  <2> QED BY <1>2, <2>4, <2>5 DEF TypeOK, TakeRecord, session, record, handler, wire
<1>3. CASE TakeRecord(s) /\ channel = <<>>
  <2>1. sender[s].at = "take" /\ sender' = [sender EXCEPT ![s].at = "ended"]
    BY <1>3 DEF TakeRecord
  <2>2. [sender[s] EXCEPT !.at = "ended"] \in Senders
    BY <1>1, <2>1, SenderIs
  <2>3. sender' \in [Streams -> Senders]
    BY <1>1, <2>1, <2>2
  <2> QED BY <1>3, <2>3 DEF TypeOK, TakeRecord, session, record, handler, wire
<1>4. CASE SendRecord(s)
  <2>1. \A to \in {"take", "ended"} : [at |-> to, msg |-> None] \in Senders
    BY DEF Senders
  <2>2. sender' \in [Streams -> Senders]
    BY <1>1, <1>4, <2>1 DEF SendRecord
  <2>3. sender[s].msg \in Message
    BY <1>1, <1>4, SenderIs DEF SendRecord
  <2>4. Append(toClient[s], sender[s].msg) \in Seq(Message)
    BY <1>1, <2>3
  <2>5. toClient' \in [Streams -> Seq(Message)]
    BY <1>1, <1>4, <2>4 DEF SendRecord
  <2> QED BY <1>4, <2>2, <2>5 DEF TypeOK, SendRecord, session, queue, record, handler
<1> QED BY <1>2, <1>3, <1>4 DEF SenderStep

LEMMA ReceiverTypes ==
    ASSUME TypeOK, NEW s \in Streams, ReceiverStep(s)
    PROVE  TypeOK'
<1>1. /\ toServer \in [Streams -> Seq(Response)] /\ receiver \in [Streams -> Receivers]
      /\ records \in [Ids -> Requests \cup {None}] /\ response \in [Requests -> Values]
      /\ signalled \in [Requests -> BOOLEAN]
      /\ crashed \in {"no", "nil record", "closed signal"}
  BY DEF TypeOK, Response
<1>2. CASE Receive(s)
  <2>1. Head(toServer[s]) \in Response /\ Tail(toServer[s]) \in Seq(Response)
    <3>1. toServer[s] \in Seq(Response) /\ toServer[s] # <<>>
      BY <1>1, <1>2 DEF Receive
    <3> QED BY <3>1
  <2>2. toServer' \in [Streams -> Seq(Response)]
    BY <1>1, <1>2, <2>1 DEF Receive
  <2>3. records[Head(toServer[s]).id] \in Requests \cup {None} /\ Head(toServer[s]).res \in Requests
    BY <1>1, <2>1 DEF Response
  <2>4. receiver' \in [Streams -> Receivers]
    <3> DEFINE m == Head(toServer[s])
               given == [at |-> "set", rec |-> records[m.id], res |-> m.res]
    <3>1. \/ UNCHANGED receiver
          \/ records[m.id] # None /\ receiver' = [receiver EXCEPT ![s] = given]
      BY <1>2 DEF Receive
    <3>2. records[m.id] # None => given \in Receivers
      BY <2>3 DEF Receivers
    <3> QED BY <1>1, <3>1, <3>2
  <2>5. crashed' \in {"no", "nil record", "closed signal"}
    BY <1>1, <1>2 DEF Receive
  <2> QED BY <1>2, <2>2, <2>4, <2>5 DEF TypeOK, Receive, Response, session, queue, record, handler
<1>3. CASE ReceiveFails(s)
  <2>1. [receiver[s] EXCEPT !.at = "ended"] \in Receivers
    BY <1>1, <1>3, ReceiverIs DEF ReceiveFails
  <2>2. receiver' \in [Streams -> Receivers]
    BY <1>1, <1>3, <2>1 DEF ReceiveFails
  <2> QED BY <1>3, <2>2 DEF TypeOK, ReceiveFails, session, queue, record, handler, wire
<1>4. CASE SetResponse(s)
  <2>1. receiver[s].res \in Requests /\ [receiver[s] EXCEPT !.at = "signal"] \in Receivers
    BY <1>1, <1>4, ReceiverIs DEF SetResponse
  <2>2. receiver' \in [Streams -> Receivers] /\ response' \in [Requests -> Values]
    BY <1>1, <1>4, <2>1 DEF SetResponse, Values
  <2> QED BY <1>4, <2>2 DEF TypeOK, SetResponse, session, queue, handler, wire
<1>5. CASE SendSignal(s)
  <2>1. [at |-> "recv", rec |-> None, res |-> None] \in Receivers
    BY DEF Receivers
  <2>2. receiver' \in [Streams -> Receivers] /\ signalled' \in [Requests -> BOOLEAN]
    BY <1>1, <1>5, <2>1 DEF SendSignal
  <2>3. crashed' \in {"no", "nil record", "closed signal"}
    BY <1>1, <1>5 DEF SendSignal
  <2> QED BY <1>5, <2>2, <2>3 DEF TypeOK, SendSignal, session, queue, handler, wire
<1> QED BY <1>2, <1>3, <1>4, <1>5 DEF ReceiverStep

LEMMA StreamTypes ==
    ASSUME TypeOK, Goroutines, NEW s \in Streams,
           ClientReceive(s) \/ Attach(s) \/ Cut(s) \/ Down(s)
    PROVE  TypeOK'
<1>1. /\ stream \in [Streams -> {"none", "up", "cut", "down"}]
      /\ toClient \in [Streams -> Seq(Message)] /\ toServer \in [Streams -> Seq(Response)]
      /\ sender \in [Streams -> Senders] /\ receiver \in [Streams -> Receivers]
      /\ work \in [Requests -> Streams \cup {None}]
  BY DEF TypeOK, Response
<1>2. CASE ClientReceive(s)
  <2>1. Head(toClient[s]) \in Message /\ Tail(toClient[s]) \in Seq(Message)
    BY <1>1, <1>2 DEF ClientReceive
  <2>2. toClient' \in [Streams -> Seq(Message)]
    BY <1>1, <1>2, <2>1 DEF ClientReceive
  <2>3. work' \in [Requests -> Streams \cup {None}]
    BY <1>1, <1>2, <2>1 DEF ClientReceive, Message
  <2> QED BY <1>2, <2>2, <2>3 DEF TypeOK, ClientReceive, session, queue, record, handler
<1>3. CASE Attach(s)
  <2>1. stream[s] = "none" /\ sender[s].at = "none" /\ receiver[s].at = "none"
    BY <1>3 DEF Attach, Goroutines
  <2>2. [sender[s] EXCEPT !.at = "take"] \in Senders /\ [receiver[s] EXCEPT !.at = "recv"] \in Receivers
    BY <1>1, <2>1, SenderIs, ReceiverIs
  <2>3. /\ sender' \in [Streams -> Senders] /\ receiver' \in [Streams -> Receivers]
        /\ stream' \in [Streams -> {"none", "up", "cut", "down"}] /\ isIdle' \in BOOLEAN
    BY <1>1, <1>3, <2>2 DEF Attach
  <2> QED BY <1>3, <2>3 DEF TypeOK, Attach, queue, record, handler, wire
<1>4. CASE Cut(s)
  <2>1. \A n \in 0..Len(toServer[s]) : SubSeq(toServer[s], 1, n) \in Seq(Response)
    BY <1>1
  <2>2. /\ toServer' \in [Streams -> Seq(Response)] /\ toClient' \in [Streams -> Seq(Message)]
        /\ stream' \in [Streams -> {"none", "up", "cut", "down"}]
    BY <1>1, <1>4, <2>1 DEF Cut
  <2> QED BY <1>4, <2>2 DEF TypeOK, Cut, Response, session, queue, record, handler
<1>5. CASE Down(s)
  <2>1. /\ toServer' \in [Streams -> Seq(Response)] /\ toClient' \in [Streams -> Seq(Message)]
        /\ stream' \in [Streams -> {"none", "up", "cut", "down"}] /\ isIdle' \in BOOLEAN
    BY <1>1, <1>5 DEF Down
  <2> QED BY <1>5, <2>1 DEF TypeOK, Down, Response, queue, record, handler
<1> QED BY <1>2, <1>3, <1>4, <1>5

LEMMA TypeStep ==
    ASSUME TypeOK, Numbers, Goroutines, OnePlace, [Next]_vars
    PROVE  TypeOK'
<1>1. CASE UNCHANGED vars
  BY <1>1 DEF TypeOK, vars, session, queue, record, handler, tunnel, wire
<1>2. CASE DeregisterStep
  BY <1>2 DEF TypeOK, DeregisterStep, TimerFires, Close, Unregister,
              session, queue, record, handler, tunnel, wire
<1> QED BY <1>1, <1>2, HandlerTypes, ClientTypes, SenderTypes, ReceiverTypes, StreamTypes DEF Next

-----------------------------------------------------------------------------
(* Goroutines, and what their messages say.                                *)

LEMMA GoroutinesStep ==
    ASSUME TypeOK, Goroutines, [Next]_vars
    PROVE  Goroutines'
<1>1. /\ stream \in [Streams -> {"none", "up", "cut", "down"}] /\ wasted \in [Streams -> Nat]
      /\ sender \in [Streams -> Senders] /\ receiver \in [Streams -> Receivers]
  BY DEF TypeOK
<1>2. CASE UNCHANGED <<stream, sender, receiver, wasted>>
  BY <1>2 DEF Goroutines, Big
<1>3. ASSUME NEW s \in Streams, TakeRecord(s)
      PROVE  Goroutines'
  <2>1. sender[s].at = "take" /\ UNCHANGED <<stream, receiver>>
    BY <1>3 DEF TakeRecord
  <2>2. wasted[s] = 0 /\ stream[s] # "none"
    BY <1>1, <2>1 DEF Goroutines
  <2>3. CASE sender' = [sender EXCEPT ![s].at = "ended"] /\ UNCHANGED wasted
    BY <1>1, <2>1, <2>2, <2>3 DEF Goroutines, Big
  <2>4. CASE /\ sender' = [sender EXCEPT ![s] = [at |-> "send", msg |-> Head(channel)]]
             /\ wasted' = IF stream[s] = "down" /\ ~Big(Head(channel))
                          THEN [wasted EXCEPT ![s] = @ + 1] ELSE wasted
    BY <1>1, <2>1, <2>2, <2>4 DEF Goroutines, Big
  <2> QED BY <1>3, <2>3, <2>4 DEF TakeRecord
<1>4. ASSUME NEW s \in Streams, SendRecord(s)
      PROVE  Goroutines'
  <2>1. /\ sender[s].at = "send" /\ UNCHANGED <<stream, receiver, wasted>>
        /\ sender' = [sender EXCEPT ![s] = [at |-> IF StopsOnError(s) THEN "ended" ELSE "take",
                                            msg |-> None]]
    BY <1>4 DEF SendRecord
  <2>2. wasted[s] = 1 => StopsOnError(s)
    BY <2>1 DEF Goroutines, StopsOnError
  <2> QED BY <1>1, <2>1, <2>2 DEF Goroutines, Big
<1>5. ASSUME NEW s \in Streams, ReceiverStep(s)
      PROVE  Goroutines'
  <2>1. receiver[s].at # "none" /\ UNCHANGED <<stream, sender, wasted>>
    BY <1>5 DEF ReceiverStep, Receive, ReceiveFails, SetResponse, SendSignal
  <2>2. \A t \in Streams : t # s => receiver'[t] = receiver[t]
    BY <1>1, <1>5 DEF ReceiverStep, Receive, ReceiveFails, SetResponse, SendSignal
  <2> QED BY <1>1, <2>1, <2>2 DEF Goroutines, Big
<1>6. ASSUME NEW s \in Streams, Attach(s) \/ Cut(s) \/ Down(s)
      PROVE  Goroutines'
  <2>1. CASE Attach(s)
    BY <1>1, <2>1 DEF Goroutines, Attach, Big
  <2>2. CASE Cut(s) \/ Down(s)
    BY <1>1, <2>2 DEF Goroutines, Cut, Down, Big
  <2> QED BY <1>6, <2>1, <2>2
<1>7. ASSUME NEW r \in Requests, HasClient(r) \/ HandlerStep(r) \/ Respond(r) \/ ClientPanics(r)
      PROVE  UNCHANGED <<stream, sender, receiver, wasted>>
  BY <1>7 DEF HasClient, HandlerStep, GetClient, AddRecord, Publish, OnResponse, GiveUp,
              SetGatewayTimeout, SendServerElapsed, WriteReply, Respond, ClientPanics, tunnel
<1>8. CASE DeregisterStep
  BY <1>2, <1>8 DEF DeregisterStep, TimerFires, Close, Unregister, tunnel
<1>9. ASSUME NEW s \in Streams, ClientReceive(s)
      PROVE  UNCHANGED <<stream, sender, receiver, wasted>>
  BY <1>9 DEF ClientReceive
<1>10. CASE UNCHANGED vars
  BY <1>2, <1>10 DEF vars, tunnel
<1> QED BY <1>2, <1>3, <1>4, <1>5, <1>6, <1>7, <1>8, <1>9, <1>10 DEF Next, SenderStep

\* An id once given stays.
LEMMA GivenIdStays ==
    ASSUME TypeOK, Numbers, [Next]_vars, NEW r \in Requests, recordId[r] # 0
    PROVE  recordId'[r] = recordId[r]
<1>1. CASE UNCHANGED recordId
  BY <1>1
<1>2. ASSUME NEW q \in Requests, AddRecord(q)
      PROVE  recordId'[r] = recordId[r]
  BY <1>2 DEF AddRecord, Step, Numbers, Unnumbered, TypeOK
<1>3. ASSUME NEW q \in Requests, HasClient(q) \/ HandlerStep(q), ~AddRecord(q)
      PROVE  UNCHANGED recordId
  BY <1>3 DEF HasClient, HandlerStep, GetClient, Publish, OnResponse, GiveUp,
              SetGatewayTimeout, SendServerElapsed, WriteReply, record
<1> QED BY <1>1, <1>2, <1>3, OthersKeep DEF vars, record

LEMMA ElementTypes ==
    ASSUME TypeOK
    PROVE  /\ channel \in Seq(Message) /\ \A i \in 1..Len(channel) : channel[i] \in Message
           /\ \A s \in Streams :
                /\ toClient[s] \in Seq(Message) /\ toServer[s] \in Seq(Response)
                /\ \A i \in 1..Len(toClient[s]) : toClient[s][i] \in Message
                /\ \A i \in 1..Len(toServer[s]) : toServer[s][i] \in Response
                /\ sender[s].at = "send" => sender[s].msg \in Message
                /\ receiver[s].at \in {"set", "signal"}
                      => receiver[s].rec \in Requests /\ receiver[s].res \in Requests
<1>1. /\ channel \in Seq(Message)
      /\ toClient \in [Streams -> Seq(Message)] /\ toServer \in [Streams -> Seq(Response)]
      /\ sender \in [Streams -> Senders] /\ receiver \in [Streams -> Receivers]
  BY DEF TypeOK, Response
<1>2. \A i \in 1..Len(channel) : channel[i] \in Message
  BY <1>1
<1> SUFFICES ASSUME NEW s \in Streams
             PROVE  /\ toClient[s] \in Seq(Message) /\ toServer[s] \in Seq(Response)
                    /\ \A i \in 1..Len(toClient[s]) : toClient[s][i] \in Message
                    /\ \A i \in 1..Len(toServer[s]) : toServer[s][i] \in Response
                    /\ sender[s].at = "send" => sender[s].msg \in Message
                    /\ receiver[s].at \in {"set", "signal"}
                          => receiver[s].rec \in Requests /\ receiver[s].res \in Requests
  BY <1>1, <1>2
<1>3. toClient[s] \in Seq(Message) /\ toServer[s] \in Seq(Response)
  BY <1>1
<1>4. \A i \in 1..Len(toClient[s]) : toClient[s][i] \in Message
  BY <1>3
<1>5. \A i \in 1..Len(toServer[s]) : toServer[s][i] \in Response
  BY <1>3
<1>6. sender[s].at = "send" => sender[s].msg \in Message
  BY <1>1, SenderIs
<1>7. receiver[s].at \in {"set", "signal"} => receiver[s].rec \in Requests /\ receiver[s].res \in Requests
  BY <1>1, ReceiverIs
<1> QED BY <1>3, <1>4, <1>5, <1>6, <1>7

LEMMA AppendIs ==
    ASSUME NEW S, NEW q \in Seq(S), NEW e \in S
    PROVE  /\ Len(q) \in Nat /\ Len(Append(q, e)) = Len(q) + 1
           /\ \A i \in 1..(Len(q) + 1) : Append(q, e)[i] = IF i = Len(q) + 1 THEN e ELSE q[i]
OBVIOUS

LEMMA TailIs ==
    ASSUME NEW S, NEW q \in Seq(S), q # <<>>
    PROVE  /\ Len(q) \in Nat \ {0} /\ Len(Tail(q)) = Len(q) - 1 /\ Head(q) = q[1]
           /\ \A i \in 1..(Len(q) - 1) : Tail(q)[i] = q[i + 1] /\ i + 1 \in 1..Len(q)
OBVIOUS

LEMMA PrefixIs ==
    ASSUME NEW S, NEW q \in Seq(S), NEW n \in 0..Len(q)
    PROVE  /\ Len(SubSeq(q, 1, n)) = n
           /\ \A i \in 1..n : SubSeq(q, 1, n)[i] = q[i] /\ i \in 1..Len(q)
OBVIOUS

\* What becomes of the queues and of what the goroutines hold, step by step.
ChannelSteps ==
    \/ UNCHANGED channel
    \/ channel # <<>> /\ channel' = Tail(channel)
    \/ \E r \in Requests, step \in {"REQUEST", "POST_RESPONSE"} :
          /\ pc[r] = "publish" \/ (pc[r] = "elapsed" /\ step # "REQUEST")
          /\ channel' = Append(channel, [step |-> step, id |-> recordId[r], req |-> r])

SenderSteps(s) ==
    \/ UNCHANGED sender[s]
    \/ sender'[s].at # "send"
    \/ channel # <<>> /\ sender'[s] = [at |-> "send", msg |-> Head(channel)]

ToClientSteps(s) ==
    \/ UNCHANGED toClient[s]
    \/ toClient[s] # <<>> /\ toClient'[s] = Tail(toClient[s])
    \/ toClient'[s] = <<>>
    \/ sender[s].at = "send" /\ toClient'[s] = Append(toClient[s], sender[s].msg)

ToServerSteps(s) ==
    \/ UNCHANGED toServer[s]
    \/ toServer[s] # <<>> /\ toServer'[s] = Tail(toServer[s])
    \/ \E n \in 0..Len(toServer[s]) : toServer'[s] = SubSeq(toServer[s], 1, n)
    \/ \E r \in Requests : /\ work[r] # None
                           /\ toServer'[s] = Append(toServer[s], [id |-> recordId[r], res |-> r])

ReceiverSteps(s) ==
    \/ UNCHANGED receiver[s]
    \/ receiver'[s].at \notin {"set", "signal"}
    \/ /\ receiver[s].at = "set"
       /\ receiver'[s] = [receiver[s] EXCEPT !.at = "signal"]
    \/ LET m == Head(toServer[s]) IN
          /\ toServer[s] # <<>> /\ records[m.id] # None
          /\ receiver'[s] = [at |-> "set", rec |-> records[m.id], res |-> m.res]

LEMMA QueueSteps ==
    ASSUME TypeOK, [Next]_vars
    PROVE  ChannelSteps /\ \A s \in Streams : SenderSteps(s) /\ ToClientSteps(s)
                                              /\ ToServerSteps(s) /\ ReceiverSteps(s)
<1>1. /\ toClient \in [Streams -> Seq(Message)] /\ toServer \in [Streams -> Seq(Response)]
      /\ sender \in [Streams -> Senders] /\ receiver \in [Streams -> Receivers]
  BY DEF TypeOK, Response
<1> DEFINE Held == <<sender, toClient, toServer, receiver>>
           Goal == ChannelSteps /\ \A s \in Streams : SenderSteps(s) /\ ToClientSteps(s)
                                              /\ ToServerSteps(s) /\ ReceiverSteps(s)
<1>2. CASE UNCHANGED Held /\ ChannelSteps
  BY <1>2 DEF SenderSteps, ToClientSteps, ToServerSteps, ReceiverSteps
<1>3. ASSUME NEW r \in Requests, HasClient(r) \/ HandlerStep(r)
      PROVE  UNCHANGED Held /\ ChannelSteps
  <2>1. CASE Publish(r) \/ SendServerElapsed(r)
    BY <2>1 DEF Publish, SendServerElapsed, ChannelSend, Step, ChannelSteps, tunnel, wire
  <2> QED BY <1>3, <2>1 DEF HasClient, HandlerStep, GetClient, AddRecord, OnResponse, GiveUp,
                 SetGatewayTimeout, WriteReply, queue, tunnel, wire, ChannelSteps
<1>4. CASE DeregisterStep \/ UNCHANGED vars \/ \E r \in Requests : ClientPanics(r)
  <2>1. UNCHANGED Held /\ ChannelSteps
    BY <1>4 DEF DeregisterStep, TimerFires, Close, Unregister, ClientPanics, vars, queue, tunnel,
                wire, ChannelSteps
  <2> QED BY <1>2, <2>1
<1>5. ASSUME NEW r \in Requests, Respond(r)
      PROVE  Goal
  <2>1. UNCHANGED <<channel, sender, toClient, receiver>>
    BY <1>5 DEF Respond, queue
  <2>2. \A s \in Streams : ToServerSteps(s)
    BY <1>1, <1>5 DEF Respond, ToServerSteps
  <2> QED BY <2>1, <2>2 DEF ChannelSteps, SenderSteps, ToClientSteps, ReceiverSteps
<1>6. ASSUME NEW t \in Streams, TakeRecord(t)
      PROVE  Goal
  <2>1. UNCHANGED <<toClient, toServer, receiver>> /\ ChannelSteps
    BY <1>6 DEF TakeRecord, wire, ChannelSteps
  <2>2. \A s \in Streams : SenderSteps(s)
    <3>1. \A s \in Streams : s # t => sender'[s] = sender[s]
      BY <1>1, <1>6 DEF TakeRecord
    <3>2. SenderSteps(t)
      <4>1. CASE sender' = [sender EXCEPT ![t] = [at |-> "send", msg |-> Head(channel)]]
        BY <1>1, <1>6, <4>1 DEF TakeRecord, SenderSteps
      <4>2. CASE sender' = [sender EXCEPT ![t].at = "ended"]
        <5>1. sender'[t].at = "ended"
          BY <1>1, <4>2 DEF Senders
        <5> QED BY <5>1 DEF SenderSteps
      <4> QED BY <1>6, <4>1, <4>2 DEF TakeRecord
    <3> QED BY <3>1, <3>2 DEF SenderSteps
  <2> QED BY <2>1, <2>2 DEF ToClientSteps, ToServerSteps, ReceiverSteps
<1>7. ASSUME NEW t \in Streams, SendRecord(t)
      PROVE  Goal
  <2>1. UNCHANGED <<channel, toServer, receiver>>
    BY <1>7 DEF SendRecord, queue
  <2>2. \A s \in Streams : SenderSteps(s)
    BY <1>1, <1>7 DEF SendRecord, SenderSteps
  <2>3. \A s \in Streams : ToClientSteps(s)
    BY <1>1, <1>7 DEF SendRecord, ToClientSteps
  <2> QED BY <2>1, <2>2, <2>3 DEF ChannelSteps, ToServerSteps, ReceiverSteps
<1>8. ASSUME NEW t \in Streams, Receive(t)
      PROVE  Goal
  <2>1. UNCHANGED <<channel, sender, toClient>>
    BY <1>8 DEF Receive, queue
  <2>2. \A s \in Streams : ToServerSteps(s)
    BY <1>1, <1>8 DEF Receive, ToServerSteps
  <2>3. \A s \in Streams : ReceiverSteps(s)
    BY <1>1, <1>8 DEF Receive, ReceiverSteps
  <2> QED BY <2>1, <2>2, <2>3 DEF ChannelSteps, SenderSteps, ToClientSteps
<1>9. ASSUME NEW t \in Streams, ReceiveFails(t) \/ SetResponse(t) \/ SendSignal(t)
      PROVE  Goal
  <2>1. UNCHANGED <<channel, sender, toClient, toServer>>
    BY <1>9 DEF ReceiveFails, SetResponse, SendSignal, queue, wire
  <2>2. \A s \in Streams : ReceiverSteps(s)
    <3>1. \A s \in Streams : s # t => receiver'[s] = receiver[s]
      BY <1>1, <1>9 DEF ReceiveFails, SetResponse, SendSignal
    <3>2. CASE ReceiveFails(t)
      <4>1. receiver' = [receiver EXCEPT ![t].at = "ended"]
        BY <3>2 DEF ReceiveFails
      <4>2. receiver'[t].at = "ended"
        BY <1>1, <4>1 DEF Receivers
      <4> QED BY <3>1, <4>2 DEF ReceiverSteps
    <3>3. CASE SetResponse(t)
      BY <1>1, <3>1, <3>3 DEF SetResponse, ReceiverSteps
    <3>4. CASE SendSignal(t)
      <4>1. receiver'[t].at = "recv"
        BY <1>1, <3>4 DEF SendSignal
      <4> QED BY <3>1, <4>1 DEF ReceiverSteps
    <3> QED BY <1>9, <3>2, <3>3, <3>4
  <2> QED BY <2>1, <2>2 DEF ChannelSteps, SenderSteps, ToClientSteps, ToServerSteps
<1>10. ASSUME NEW t \in Streams, ClientReceive(t)
       PROVE  Goal
  <2>1. UNCHANGED <<channel, sender, toServer, receiver>>
    BY <1>10 DEF ClientReceive, queue
  <2>2. \A s \in Streams : ToClientSteps(s)
    BY <1>1, <1>10 DEF ClientReceive, ToClientSteps
  <2> QED BY <2>1, <2>2 DEF ChannelSteps, SenderSteps, ToServerSteps, ReceiverSteps
<1>11. ASSUME NEW t \in Streams, Attach(t)
       PROVE  Goal
  <2>1. UNCHANGED <<channel, toClient, toServer>>
    BY <1>11 DEF Attach, queue, wire
  <2>2. \A s \in Streams : SenderSteps(s) /\ ReceiverSteps(s)
    BY <1>1, <1>11 DEF Attach, SenderSteps, ReceiverSteps, Senders, Receivers
  <2> QED BY <2>1, <2>2 DEF ChannelSteps, ToClientSteps, ToServerSteps
<1>12. ASSUME NEW t \in Streams, Cut(t) \/ Down(t)
       PROVE  Goal
  <2>1. UNCHANGED <<channel, sender, receiver>>
    BY <1>12 DEF Cut, Down, queue
  <2>2. \A s \in Streams : ToClientSteps(s)
    BY <1>1, <1>12 DEF Cut, Down, ToClientSteps
  <2>3. \A s \in Streams : ToServerSteps(s)
    <3>1. CASE Cut(t)
      BY <1>1, <3>1 DEF Cut, ToServerSteps
    <3>2. CASE Down(t)
      <4>1. \A s \in Streams : SubSeq(toServer[s], 1, 0) = <<>> /\ 0 \in 0..Len(toServer[s])
        BY <1>1
      <4> QED BY <1>1, <3>2, <4>1 DEF Down, ToServerSteps
    <3> QED BY <1>12, <3>1, <3>2
  <2> QED BY <2>1, <2>2, <2>3 DEF ChannelSteps, SenderSteps, ReceiverSteps
<1> QED BY <1>2, <1>3, <1>4, <1>5, <1>6, <1>7, <1>8, <1>9, <1>10, <1>11, <1>12
        DEF Next, SenderStep, ReceiverStep

LEMMA LabelsStep ==
    ASSUME TypeOK, Numbers, RecordsNumbered, OnePlace, Labels, [Next]_vars
    PROVE  Labels'
<1>1. \A m \in Message : Labelled(m) => Labelled(m)'
  BY GivenIdStays DEF Labelled, Message
<1>2. \A m \in Response : m.id # 0 /\ m.id = recordId[m.res] => m.id = recordId'[m.res]
  BY GivenIdStays DEF Response
<1>3. ASSUME NEW i \in 1..Len(channel')
      PROVE  Labelled(channel[i])'
  <2>1. CASE UNCHANGED channel
    BY <1>1, <1>3, <2>1, ElementTypes DEF Labels
  <2>2. CASE channel # <<>> /\ channel' = Tail(channel)
    <3>1. channel'[i] = channel[i + 1] /\ i + 1 \in 1..Len(channel)
      BY <1>3, <2>2, TailIs, ElementTypes
    <3> QED BY <1>1, <3>1, ElementTypes DEF Labels, Labelled
  <2>3. ASSUME NEW r \in Requests, NEW step \in {"REQUEST", "POST_RESPONSE"},
               pc[r] = "publish" \/ pc[r] = "elapsed",
               channel' = Append(channel, [step |-> step, id |-> recordId[r], req |-> r])
        PROVE  Labelled(channel[i])'
    <3> DEFINE m == [step |-> step, id |-> recordId[r], req |-> r]
    <3>1. recordId[r] # 0
      BY <2>3 DEF Numbers, Unnumbered
    <3>2. m \in Message /\ Labelled(m)
      BY <3>1 DEF Message, Labelled, TypeOK
    <3>3. channel'[i] = m \/ (channel'[i] = channel[i] /\ i \in 1..Len(channel))
      BY <2>3, <3>2, AppendIs, ElementTypes
    <3> QED BY <1>1, <3>2, <3>3, ElementTypes DEF Labels, Labelled
  <2> QED BY <2>1, <2>2, <2>3, QueueSteps DEF ChannelSteps
<1>4. ASSUME NEW s \in Streams, sender'[s].at = "send"
      PROVE  Labelled(sender[s].msg)'
  <2>1. CASE UNCHANGED sender[s]
    BY <1>1, <1>4, <2>1, ElementTypes DEF Labels, Labelled
  <2>2. CASE channel # <<>> /\ sender'[s] = [at |-> "send", msg |-> Head(channel)]
    <3>1. Head(channel) = channel[1] /\ 1 \in 1..Len(channel)
      BY <2>2, TailIs, ElementTypes
    <3> QED BY <1>1, <2>2, <3>1, ElementTypes DEF Labels, Labelled
  <2> QED BY <1>4, <2>1, <2>2, QueueSteps DEF SenderSteps
<1>5. ASSUME NEW s \in Streams, NEW i \in 1..Len(toClient'[s])
      PROVE  Labelled(toClient[s][i])'
  <2>1. CASE UNCHANGED toClient[s]
    BY <1>1, <1>5, <2>1, ElementTypes DEF Labels, Labelled
  <2>2. CASE toClient[s] # <<>> /\ toClient'[s] = Tail(toClient[s])
    <3>1. toClient'[s][i] = toClient[s][i + 1] /\ i + 1 \in 1..Len(toClient[s])
      BY <1>5, <2>2, TailIs, ElementTypes
    <3> QED BY <1>1, <3>1, ElementTypes DEF Labels, Labelled
  <2>3. CASE toClient'[s] = <<>>
    BY <1>5, <2>3
  <2>4. CASE sender[s].at = "send" /\ toClient'[s] = Append(toClient[s], sender[s].msg)
    <3>1. \/ toClient'[s][i] = sender[s].msg
          \/ toClient'[s][i] = toClient[s][i] /\ i \in 1..Len(toClient[s])
      BY <1>5, <2>4, AppendIs, ElementTypes
    <3> QED BY <1>1, <2>4, <3>1, ElementTypes DEF Labels, Labelled
  <2> QED BY <2>1, <2>2, <2>3, <2>4, QueueSteps DEF ToClientSteps
<1>6. ASSUME NEW s \in Streams, NEW i \in 1..Len(toServer'[s])
      PROVE  toServer'[s][i].id # 0 /\ toServer'[s][i].id = recordId'[toServer'[s][i].res]
  <2>1. CASE UNCHANGED toServer[s]
    BY <1>2, <1>6, <2>1, ElementTypes DEF Labels
  <2>2. CASE toServer[s] # <<>> /\ toServer'[s] = Tail(toServer[s])
    <3>1. toServer'[s][i] = toServer[s][i + 1] /\ i + 1 \in 1..Len(toServer[s])
      BY <1>6, <2>2, TailIs, ElementTypes
    <3> QED BY <1>2, <3>1, ElementTypes DEF Labels
  <2>3. ASSUME NEW n \in 0..Len(toServer[s]), toServer'[s] = SubSeq(toServer[s], 1, n)
        PROVE  toServer'[s][i].id # 0 /\ toServer'[s][i].id = recordId'[toServer'[s][i].res]
    <3>1. toServer'[s][i] = toServer[s][i] /\ i \in 1..Len(toServer[s])
      BY <1>6, <2>3, PrefixIs, ElementTypes
    <3> QED BY <1>2, <3>1, ElementTypes DEF Labels
  <2>4. ASSUME NEW r \in Requests, work[r] # None,
               toServer'[s] = Append(toServer[s], [id |-> recordId[r], res |-> r])
        PROVE  toServer'[s][i].id # 0 /\ toServer'[s][i].id = recordId'[toServer'[s][i].res]
    <3> DEFINE m == [id |-> recordId[r], res |-> r]
    <3>1. m \in Response /\ m.id # 0
      BY <2>4, WorkNumbered DEF Response
    <3>2. toServer'[s][i] = m \/ (toServer'[s][i] = toServer[s][i] /\ i \in 1..Len(toServer[s]))
      BY <1>6, <2>4, <3>1, AppendIs, ElementTypes
    <3> QED BY <1>2, <3>1, <3>2, ElementTypes DEF Labels
  <2> QED BY <2>1, <2>2, <2>3, <2>4, QueueSteps DEF ToServerSteps
<1>7. ASSUME NEW s \in Streams, receiver'[s].at \in {"set", "signal"}
      PROVE  receiver'[s].rec = receiver'[s].res
  <2>1. CASE UNCHANGED receiver[s]
    BY <1>7, <2>1 DEF Labels
  <2>2. CASE receiver[s].at = "set" /\ receiver'[s] = [receiver[s] EXCEPT !.at = "signal"]
    <3>1. receiver[s] \in [at : {"set", "signal"}, rec : Requests, res : Requests]
      BY <2>2 DEF TypeOK, Receivers
    <3> QED BY <2>2, <3>1 DEF Labels
  <2>3. CASE LET m == Head(toServer[s]) IN
                /\ toServer[s] # <<>> /\ records[m.id] # None
                /\ receiver'[s] = [at |-> "set", rec |-> records[m.id], res |-> m.res]
    <3> DEFINE m == Head(toServer[s])
    <3>1. m = toServer[s][1] /\ 1 \in 1..Len(toServer[s])
      BY <2>3, TailIs, ElementTypes
    <3>2. m \in Response /\ m.id # 0 /\ m.id = recordId[m.res]
      BY <3>1, ElementTypes DEF Labels
    <3>3. records[m.id] \in Requests /\ recordId[records[m.id]] = m.id
      BY <2>3, <3>2 DEF RecordsNumbered, Response, TypeOK
    <3>4. records[m.id] = m.res
      BY <3>2, <3>3 DEF Numbers, Response
    <3> QED BY <2>3, <3>4
  <2> QED BY <1>7, <2>1, <2>2, <2>3, QueueSteps DEF ReceiverSteps
<1> QED BY <1>3, <1>4, <1>5, <1>6, <1>7 DEF Labels

-----------------------------------------------------------------------------
(* A request is in one place.                                              *)

LEMMA HasAppend ==
    ASSUME NEW q \in Seq(Message), NEW m \in Message, NEW r \in Requests
    PROVE  Has(Append(q, m), r) => Has(q, r) \/ Asks(m, r)
BY AppendIs DEF Has

LEMMA HasTail ==
    ASSUME NEW q \in Seq(Message), q # <<>>, NEW r \in Requests
    PROVE  /\ Has(Tail(q), r) => Has(q, r)
           /\ Asks(Head(q), r) => Has(q, r)
           /\ Asks(Head(q), r) /\ Once(q) => ~Has(Tail(q), r)
<1>1. /\ Len(q) \in Nat \ {0} /\ Len(Tail(q)) = Len(q) - 1 /\ Head(q) = q[1]
      /\ \A i \in 1..(Len(q) - 1) : Tail(q)[i] = q[i + 1] /\ i + 1 \in 1..Len(q)
  BY TailIs
<1>2. Has(Tail(q), r) => Has(q, r)
  BY <1>1 DEF Has
<1>3. Asks(Head(q), r) => Has(q, r)
  BY <1>1 DEF Has
<1>4. ASSUME Asks(Head(q), r), Once(q), Has(Tail(q), r)
      PROVE  FALSE
  <2>1. PICK i \in 1..(Len(q) - 1) : Asks(q[i + 1], r)
    BY <1>1, <1>4 DEF Has
  <2>2. i + 1 = 1
    BY <1>1, <1>4, <2>1 DEF Once
  <2> QED BY <2>1, <2>2
<1> QED BY <1>2, <1>3, <1>4

LEMMA HasReplyAppend ==
    ASSUME NEW q \in Seq(Response), NEW m \in Response, NEW r \in Requests
    PROVE  HasReply(Append(q, m), r) => HasReply(q, r) \/ m.res = r
BY AppendIs DEF HasReply

LEMMA HasReplyTail ==
    ASSUME NEW q \in Seq(Response), q # <<>>, NEW r \in Requests
    PROVE  /\ HasReply(Tail(q), r) => HasReply(q, r)
           /\ Head(q).res = r => HasReply(q, r)
           /\ Head(q).res = r /\ RepliesOnce(q) => ~HasReply(Tail(q), r)
<1>1. /\ Len(q) \in Nat \ {0} /\ Len(Tail(q)) = Len(q) - 1 /\ Head(q) = q[1]
      /\ \A i \in 1..(Len(q) - 1) : Tail(q)[i] = q[i + 1] /\ i + 1 \in 1..Len(q)
  BY TailIs
<1>2. HasReply(Tail(q), r) => HasReply(q, r)
  BY <1>1 DEF HasReply
<1>3. Head(q).res = r => HasReply(q, r)
  BY <1>1 DEF HasReply
<1>4. ASSUME Head(q).res = r, RepliesOnce(q), HasReply(Tail(q), r)
      PROVE  FALSE
  <2>1. PICK i \in 1..(Len(q) - 1) : q[i + 1].res = r
    BY <1>1, <1>4 DEF HasReply
  <2>2. i + 1 = 1
    BY <1>1, <1>4, <2>1 DEF RepliesOnce
  <2> QED BY <2>1, <2>2
<1> QED BY <1>2, <1>3, <1>4

LEMMA OnceKept ==
    ASSUME NEW q \in Seq(Message), Once(q)
    PROVE  /\ q # <<>> => Once(Tail(q))
           /\ \A m \in Message : (\A r \in Requests : Asks(m, r) => ~Has(q, r))
                                 => Once(Append(q, m))
<1>1. q # <<>> => Once(Tail(q))
  <2> SUFFICES ASSUME q # <<>>, NEW r \in Requests, NEW i \in 1..Len(Tail(q)),
                      NEW j \in 1..Len(Tail(q)), Asks(Tail(q)[i], r), Asks(Tail(q)[j], r)
               PROVE  i = j
    BY DEF Once
  <2>1. i + 1 \in 1..Len(q) /\ j + 1 \in 1..Len(q) /\ Asks(q[i + 1], r) /\ Asks(q[j + 1], r)
    BY TailIs
  <2>2. i + 1 = j + 1
    BY <2>1 DEF Once
  <2> QED BY <2>2
<1>2. ASSUME NEW m \in Message, \A r \in Requests : Asks(m, r) => ~Has(q, r),
             NEW r \in Requests, NEW i \in 1..Len(Append(q, m)), NEW j \in 1..Len(Append(q, m)),
             Asks(Append(q, m)[i], r), Asks(Append(q, m)[j], r)
      PROVE  i = j
  <2>1. /\ i \in 1..(Len(q) + 1) /\ j \in 1..(Len(q) + 1) /\ Len(q) \in Nat
        /\ Append(q, m)[i] = IF i = Len(q) + 1 THEN m ELSE q[i]
        /\ Append(q, m)[j] = IF j = Len(q) + 1 THEN m ELSE q[j]
    BY AppendIs
  <2> QED BY <1>2, <2>1 DEF Once, Has
<1> QED BY <1>1, <1>2 DEF Once

LEMMA RepliesOnceKept ==
    ASSUME NEW q \in Seq(Response), RepliesOnce(q)
    PROVE  /\ q # <<>> => RepliesOnce(Tail(q))
           /\ \A n \in 0..Len(q) : RepliesOnce(SubSeq(q, 1, n))
           /\ \A m \in Response : ~HasReply(q, m.res) => RepliesOnce(Append(q, m))
<1>1. q # <<>> => RepliesOnce(Tail(q))
  <2> SUFFICES ASSUME q # <<>>, NEW i \in 1..Len(Tail(q)), NEW j \in 1..Len(Tail(q)),
                      Tail(q)[i].res = Tail(q)[j].res
               PROVE  i = j
    BY DEF RepliesOnce
  <2>1. i + 1 \in 1..Len(q) /\ j + 1 \in 1..Len(q) /\ q[i + 1].res = q[j + 1].res
    BY TailIs
  <2>2. i + 1 = j + 1
    BY <2>1 DEF RepliesOnce
  <2> QED BY <2>2
<1>2. \A n \in 0..Len(q) : RepliesOnce(SubSeq(q, 1, n))
  BY PrefixIs DEF RepliesOnce
<1>3. ASSUME NEW m \in Response, ~HasReply(q, m.res),
             NEW i \in 1..Len(Append(q, m)), NEW j \in 1..Len(Append(q, m)),
             Append(q, m)[i].res = Append(q, m)[j].res
      PROVE  i = j
  <2>1. /\ i \in 1..(Len(q) + 1) /\ j \in 1..(Len(q) + 1) /\ Len(q) \in Nat
        /\ Append(q, m)[i] = IF i = Len(q) + 1 THEN m ELSE q[i]
        /\ Append(q, m)[j] = IF j = Len(q) + 1 THEN m ELSE q[j]
    BY AppendIs
  <2> QED BY <1>3, <2>1 DEF RepliesOnce, HasReply
<1> QED BY <1>1, <1>2, <1>3 DEF RepliesOnce

LEMMA PlaceKept ==
    ASSUME NEW r \in Requests, InOnePlace(r),
           Has(channel, r)' => Has(channel, r),
           work'[r] # None => work[r] # None,
           \A s \in Streams : /\ Sending(s, r)' => Sending(s, r)
                              /\ Has(toClient[s], r)' => Has(toClient[s], r)
                              /\ HasReply(toServer[s], r)' => HasReply(toServer[s], r)
                              /\ Answering(s, r)' => Answering(s, r),
           Absent(r)' => Absent(r)
    PROVE  InOnePlace(r)'
<1>1. PICK place \in Places, t \in Streams : OnlyIn(r, place, t) /\ (Absent(r) => place = "nowhere")
  BY DEF InOnePlace
<1>2. OnlyIn(r, place, t)' /\ (Absent(r)' => place = "nowhere")
  BY <1>1 DEF OnlyIn
<1> QED BY <1>2 DEF InOnePlace

LEMMA QueuesOnce ==
    ASSUME TypeOK, Numbers, OnePlace, [Next]_vars
    PROVE  Once(channel)' /\ \A s \in Streams : Once(toClient[s])' /\ RepliesOnce(toServer[s])'
<1>1. Once(channel)'
  <2>1. CASE UNCHANGED channel
    BY <2>1 DEF OnePlace, Once
  <2>2. CASE channel # <<>> /\ channel' = Tail(channel)
    <3>1. Once(Tail(channel))
      BY <2>2, OnceKept, ElementTypes DEF OnePlace
    <3> QED BY <2>2, <3>1 DEF Once
  <2>3. ASSUME NEW r \in Requests, NEW step \in {"REQUEST", "POST_RESPONSE"},
               pc[r] = "publish" \/ (pc[r] = "elapsed" /\ step # "REQUEST"),
               channel' = Append(channel, [step |-> step, id |-> recordId[r], req |-> r])
        PROVE  Once(channel)'
    <3> DEFINE m == [step |-> step, id |-> recordId[r], req |-> r]
    <3>1. step = "REQUEST" => ~Has(channel, r)
      BY <2>3 DEF OnePlace, InOnePlace, OnlyIn, Absent
    <3>2. \A q \in Requests : Asks(m, q) => ~Has(channel, q)
      BY <3>1 DEF Asks
    <3>3. recordId[r] \in Ids
      BY <2>3, IdTypes DEF Numbers, Unnumbered
    <3>4. m \in Message
      BY <3>3 DEF Message
    <3>5. Once(Append(channel, m))
      BY <3>2, <3>4, OnceKept, ElementTypes DEF OnePlace
    <3> QED BY <2>3, <3>5 DEF Once
  <2> QED BY <2>1, <2>2, <2>3, QueueSteps DEF ChannelSteps
<1>2. ASSUME NEW s \in Streams
      PROVE  Once(toClient[s])'
  <2>1. CASE UNCHANGED toClient[s]
    BY <2>1 DEF OnePlace, Once
  <2>2. CASE toClient[s] # <<>> /\ toClient'[s] = Tail(toClient[s])
    <3>1. Once(Tail(toClient[s]))
      BY <2>2, OnceKept, ElementTypes DEF OnePlace
    <3> QED BY <2>2, <3>1 DEF Once
  <2>3. CASE toClient'[s] = <<>>
    BY <2>3 DEF Once
  <2>4. CASE sender[s].at = "send" /\ toClient'[s] = Append(toClient[s], sender[s].msg)
    <3>1. \A q \in Requests : Asks(sender[s].msg, q) => ~Has(toClient[s], q)
      BY <2>4 DEF OnePlace, InOnePlace, OnlyIn, Sending
    <3>2. Once(Append(toClient[s], sender[s].msg))
      BY <2>4, <3>1, OnceKept, ElementTypes DEF OnePlace
    <3> QED BY <2>4, <3>2 DEF Once
  <2> QED BY <2>1, <2>2, <2>3, <2>4, QueueSteps DEF ToClientSteps
<1>3. ASSUME NEW s \in Streams
      PROVE  RepliesOnce(toServer[s])'
  <2>1. CASE UNCHANGED toServer[s]
    BY <2>1 DEF OnePlace, RepliesOnce
  <2>2. CASE toServer[s] # <<>> /\ toServer'[s] = Tail(toServer[s])
    <3>1. RepliesOnce(Tail(toServer[s]))
      BY <2>2, RepliesOnceKept, ElementTypes DEF OnePlace
    <3> QED BY <2>2, <3>1 DEF RepliesOnce
  <2>3. ASSUME NEW n \in 0..Len(toServer[s]), toServer'[s] = SubSeq(toServer[s], 1, n)
        PROVE  RepliesOnce(toServer[s])'
    <3>1. RepliesOnce(SubSeq(toServer[s], 1, n))
      BY RepliesOnceKept, ElementTypes DEF OnePlace
    <3> QED BY <2>3, <3>1 DEF RepliesOnce
  <2>4. ASSUME NEW r \in Requests, work[r] # None,
               toServer'[s] = Append(toServer[s], [id |-> recordId[r], res |-> r])
        PROVE  RepliesOnce(toServer[s])'
    <3> DEFINE m == [id |-> recordId[r], res |-> r]
    <3>1. m \in Response
      BY <2>4, WorkNumbered DEF Response
    <3>2. ~HasReply(toServer[s], m.res)
      BY <2>4 DEF OnePlace, InOnePlace, OnlyIn
    <3>3. RepliesOnce(Append(toServer[s], m))
      BY <3>1, <3>2, RepliesOnceKept, ElementTypes DEF OnePlace
    <3> QED BY <2>4, <3>3 DEF RepliesOnce
  <2> QED BY <2>1, <2>2, <2>3, <2>4, QueueSteps DEF ToServerSteps
<1> QED BY <1>1, <1>2, <1>3

LEMMA PublishFromAdd ==
    ASSUME TypeOK, NEW r \in Requests, HasClient(r) \/ HandlerStep(r), NEW q \in Requests,
           pc'[q] = "publish"
    PROVE  pc[q] = "publish" \/ pc[q] = "add"
BY DEF HasClient, HandlerStep, GetClient, AddRecord, Publish, OnResponse, GiveUp, ChannelSend,
       SetGatewayTimeout, SendServerElapsed, WriteReply, Step, TypeOK

\* A handler leaves every request where it is, but for the one it publishes.
LEMMA HandlerPlaces ==
    ASSUME TypeOK, Numbers, OnePlace, [Next]_vars, NEW r \in Requests,
           HasClient(r) \/ HandlerStep(r), NEW q \in Requests
    PROVE  InOnePlace(q)'
<1>1. UNCHANGED <<sender, toClient, toServer, receiver, work, signalled>>
  BY DEF HasClient, HandlerStep, GetClient, AddRecord, Publish, OnResponse, GiveUp,
         SetGatewayTimeout, SendServerElapsed, WriteReply, record, tunnel, wire
<1>2. /\ \A s \in Streams : /\ Sending(s, q)' => Sending(s, q)
                            /\ Has(toClient[s], q)' => Has(toClient[s], q)
                            /\ HasReply(toServer[s], q)' => HasReply(toServer[s], q)
                            /\ Answering(s, q)' => Answering(s, q)
      /\ work'[q] # None => work[q] # None
  BY <1>1 DEF Sending, Answering, Has, HasReply, Asks
<1>3. Absent(q)' => Absent(q)
  <2>1. pc'[q] = "publish" => pc[q] = "publish" \/ pc[q] = "add"
    BY PublishFromAdd
  <2>2. pc[q] = "add" => recordId[q] = 0
    BY DEF Numbers, Unnumbered
  <2>3. recordId[q] # 0 => recordId'[q] # 0
    BY GivenIdStays
  <2> QED BY <1>1, <2>1, <2>2, <2>3 DEF Absent
<1>4. CASE Has(channel, q)' => Has(channel, q)
  <2>1. InOnePlace(q)
    BY DEF OnePlace
  <2> QED BY <2>1, <1>2, <1>3, <1>4, PlaceKept
<1>5. CASE UNCHANGED channel
  BY <1>4, <1>5 DEF Has
<1>6. ASSUME NEW step \in {"REQUEST", "POST_RESPONSE"}, NEW from \in {"publish", "elapsed"},
             NEW to, pc[r] = from, pc' = [pc EXCEPT ![r] = to],
             channel' = Append(channel, [step |-> step, id |-> recordId[r], req |-> r]),
             (step = "REQUEST") <=> (from = "publish"), to # "publish", UNCHANGED recordId
      PROVE  InOnePlace(q)'
  <2> DEFINE m == [step |-> step, id |-> recordId[r], req |-> r]
  <2>1. recordId[r] # 0 /\ recordId[r] \in Ids
    BY <1>6, IdTypes DEF Numbers, Unnumbered
  <2>2. m \in Message
    BY <2>1 DEF Message
  <2>3. Has(channel, q)' => Has(channel, q) \/ Asks(m, q)
    <3>1. Has(Append(channel, m), q) => Has(channel, q) \/ Asks(m, q)
      BY <2>2, HasAppend, ElementTypes
    <3> QED BY <1>6, <3>1 DEF Has
  <2>4. CASE ~Asks(m, q)
    BY <1>4, <2>3, <2>4
  <2>5. CASE Asks(m, q)
    <3>1. q = r /\ pc[r] = "publish"
      BY <1>6, <2>5 DEF Asks
    <3>2. PICK t \in Streams : OnlyIn(r, "nowhere", t)
      BY <3>1 DEF OnePlace, InOnePlace, Absent
    <3>3. OnlyIn(r, "channel", t)'
      BY <1>2, <3>1, <3>2 DEF OnlyIn
    <3>4. ~signalled[r]
      BY <3>1 DEF OnePlace
    <3>5. ~Absent(r)'
      BY <1>1, <1>6, <2>1, <3>1, <3>4 DEF Absent, TypeOK
    <3> QED BY <3>1, <3>3, <3>5 DEF InOnePlace, Places
  <2> QED BY <2>4, <2>5
<1>7. CASE Publish(r)
  BY <1>5, <1>6, <1>7 DEF Publish, ChannelSend, Step, record
<1>8. CASE SendServerElapsed(r)
  BY <1>5, <1>6, <1>8 DEF SendServerElapsed, ChannelSend, Step, record
<1> QED BY <1>5, <1>7, <1>8 DEF HasClient, HandlerStep, GetClient, AddRecord, OnResponse, GiveUp,
           SetGatewayTimeout, WriteReply, queue

\* A sender takes a request from the channel, and puts it on its stream.
LEMMA SenderPlaces ==
    ASSUME TypeOK, OnePlace, NEW s \in Streams, SenderStep(s), NEW q \in Requests
    PROVE  InOnePlace(q)'
<1>1. UNCHANGED <<toServer, receiver, work, signalled, recordId, pc>>
  BY DEF SenderStep, TakeRecord, SendRecord, record, handler, wire
<1>2. Absent(q)' <=> Absent(q)
  BY <1>1 DEF Absent
<1>3. /\ \A t \in Streams : /\ HasReply(toServer[t], q)' => HasReply(toServer[t], q)
                            /\ Answering(t, q)' => Answering(t, q)
      /\ work'[q] # None => work[q] # None
  BY <1>1 DEF HasReply, Answering
<1>4. /\ sender \in [Streams -> Senders] /\ toClient \in [Streams -> Seq(Message)]
      /\ InOnePlace(q)
  BY DEF TypeOK, OnePlace
<1>5. CASE TakeRecord(s) /\ sender' = [sender EXCEPT ![s].at = "ended"] /\ UNCHANGED channel
  <2>1. \A t \in Streams : Sending(t, q)' => Sending(t, q)
    BY <1>4, <1>5 DEF Sending, Asks, Senders
  <2>2. UNCHANGED toClient
    BY <1>5 DEF TakeRecord, wire
  <2> QED BY <1>2, <1>3, <1>4, <1>5, <2>1, <2>2, PlaceKept DEF Has
<1>6. CASE /\ TakeRecord(s) /\ channel # <<>> /\ channel' = Tail(channel)
           /\ sender' = [sender EXCEPT ![s] = [at |-> "send", msg |-> Head(channel)]]
  <2>1. UNCHANGED toClient
    BY <1>6 DEF TakeRecord, wire
  <2>2. /\ Has(channel, q)' => Has(channel, q)
        /\ Asks(Head(channel), q) => Has(channel, q) /\ ~Has(channel, q)'
    <3>1. /\ Has(Tail(channel), q) => Has(channel, q)
          /\ Asks(Head(channel), q) => Has(channel, q) /\ ~Has(Tail(channel), q)
      BY <1>6, HasTail, ElementTypes DEF OnePlace
    <3> QED BY <1>6, <3>1 DEF Has
  <2>3. \A t \in Streams : Sending(t, q)' => Sending(t, q) \/ (t = s /\ Asks(Head(channel), q))
    BY <1>4, <1>6 DEF Sending, Asks
  <2>4. \A t \in Streams : Has(toClient[t], q)' => Has(toClient[t], q)
    BY <2>1 DEF Has
  <2>5. CASE ~Asks(Head(channel), q)
    BY <1>2, <1>3, <1>4, <2>2, <2>3, <2>4, <2>5, PlaceKept
  <2>6. CASE Asks(Head(channel), q)
    <3>1. PICK t \in Streams : OnlyIn(q, "channel", t) /\ ~Absent(q)
      BY <2>2, <2>6 DEF OnePlace, InOnePlace, OnlyIn
    <3>2. OnlyIn(q, "sender", s)'
      BY <1>3, <2>2, <2>3, <2>4, <2>6, <3>1 DEF OnlyIn
    <3> QED BY <1>2, <3>1, <3>2 DEF InOnePlace, Places
  <2> QED BY <2>5, <2>6
<1>7. CASE SendRecord(s)
  <2>1. /\ sender[s].at = "send" /\ UNCHANGED channel
        /\ \E to \in {"ended", "take"} : sender' = [sender EXCEPT ![s] = [at |-> to, msg |-> None]]
        /\ \/ UNCHANGED toClient
           \/ toClient' = [toClient EXCEPT ![s] = Append(@, sender[s].msg)]
    BY <1>7 DEF SendRecord, queue
  <2>2. \A t \in Streams : Sending(t, q)' => Sending(t, q) /\ t # s
    BY <1>4, <2>1 DEF Sending, Asks
  <2>3. Has(channel, q)' => Has(channel, q)
    BY <2>1 DEF Has
  <2>4. \A t \in Streams :
           Has(toClient[t], q)' => Has(toClient[t], q) \/ (t = s /\ Asks(sender[s].msg, q))
    <3>1. Has(Append(toClient[s], sender[s].msg), q) => Has(toClient[s], q) \/ Asks(sender[s].msg, q)
      BY <2>1, HasAppend, ElementTypes
    <3> QED BY <1>4, <2>1, <3>1 DEF Has
  <2>5. CASE ~Asks(sender[s].msg, q)
    BY <1>2, <1>3, <1>4, <2>2, <2>3, <2>4, <2>5, PlaceKept
  <2>6. CASE Asks(sender[s].msg, q)
    <3>1. OnlyIn(q, "sender", s) /\ ~Absent(q)
      BY <2>1, <2>6 DEF OnePlace, InOnePlace, OnlyIn, Sending
    <3>2. OnlyIn(q, "toClient", s)'
      BY <1>3, <2>2, <2>3, <2>4, <3>1 DEF OnlyIn
    <3> QED BY <1>2, <3>1, <3>2 DEF InOnePlace, Places
  <2> QED BY <2>5, <2>6
<1> QED BY <1>5, <1>6, <1>7 DEF SenderStep, TakeRecord

\* A request reaches the client, which answers it or not.
LEMMA ClientPlaces ==
    ASSUME TypeOK, OnePlace, NEW q \in Requests,
           \/ \E s \in Streams : ClientReceive(s)
           \/ \E r \in Requests : Respond(r) \/ ClientPanics(r)
    PROVE  InOnePlace(q)'
<1>1. UNCHANGED <<channel, sender, receiver, signalled, recordId, pc>>
  BY DEF ClientReceive, Respond, ClientPanics, queue, record, handler, tunnel
<1>2. Absent(q)' <=> Absent(q)
  BY <1>1 DEF Absent
<1>3. /\ \A t \in Streams : Sending(t, q)' => Sending(t, q)
      /\ \A t \in Streams : Answering(t, q)' => Answering(t, q)
      /\ Has(channel, q)' => Has(channel, q)
  BY <1>1 DEF Sending, Answering, Asks, Has
<1>4. /\ toClient \in [Streams -> Seq(Message)] /\ toServer \in [Streams -> Seq(Response)]
      /\ work \in [Requests -> Streams \cup {None}] /\ InOnePlace(q)
  BY DEF TypeOK, Response, OnePlace
<1>5. ASSUME NEW s \in Streams, ClientReceive(s)
      PROVE  InOnePlace(q)'
  <2> DEFINE m == Head(toClient[s])
  <2>1. /\ toClient[s] # <<>> /\ toClient' = [toClient EXCEPT ![s] = Tail(@)] /\ UNCHANGED toServer
        /\ work' = IF m.step = "REQUEST" THEN [work EXCEPT ![m.req] = s] ELSE work
    BY <1>5 DEF ClientReceive
  <2>2. /\ Has(Tail(toClient[s]), q) => Has(toClient[s], q)
        /\ Asks(m, q) => Has(toClient[s], q) /\ ~Has(Tail(toClient[s]), q)
    BY <2>1, HasTail, ElementTypes DEF OnePlace
  <2>3. /\ \A t \in Streams : Has(toClient[t], q)' => Has(toClient[t], q)
        /\ Asks(m, q) => ~Has(toClient[s], q)'
    BY <1>4, <2>1, <2>2 DEF Has
  <2>4. work'[q] # None => work[q] # None \/ Asks(m, q)
    BY <1>4, <2>1 DEF Asks
  <2>5. \A t \in Streams : HasReply(toServer[t], q)' => HasReply(toServer[t], q)
    BY <2>1 DEF HasReply
  <2>6. CASE ~Asks(m, q)
    BY <1>2, <1>3, <1>4, <2>3, <2>4, <2>5, <2>6, PlaceKept
  <2>7. CASE Asks(m, q)
    <3>1. OnlyIn(q, "toClient", s) /\ ~Absent(q)
      BY <2>2, <2>7 DEF OnePlace, InOnePlace, OnlyIn
    <3>2. OnlyIn(q, "work", s)'
      BY <1>3, <2>3, <2>5, <2>7, <3>1 DEF OnlyIn
    <3> QED BY <1>2, <3>1, <3>2 DEF InOnePlace, Places
  <2> QED BY <2>6, <2>7
<1>6. ASSUME NEW r \in Requests, Respond(r) \/ ClientPanics(r)
      PROVE  InOnePlace(q)'
  <2>0. PICK s \in Streams : s = work[r]
    BY <1>6, WorkNumbered DEF Respond, ClientPanics
  <2> DEFINE m == [id |-> recordId[r], res |-> r]
  <2>1. /\ work[r] # None /\ work' = [work EXCEPT ![r] = None] /\ UNCHANGED toClient
        /\ \/ UNCHANGED toServer
           \/ toServer' = [toServer EXCEPT ![s] = Append(@, m)]
    BY <1>6, <2>0 DEF Respond, ClientPanics, tunnel, wire
  <2>2. m \in Response
    BY <2>1, WorkNumbered DEF Response
  <2>3. \A t \in Streams : Has(toClient[t], q)' => Has(toClient[t], q)
    BY <2>1 DEF Has
  <2>4. \A t \in Streams :
           HasReply(toServer[t], q)' => HasReply(toServer[t], q) \/ (t = s /\ q = r)
    <3>1. HasReply(Append(toServer[s], m), q) => HasReply(toServer[s], q) \/ q = r
      BY <2>2, HasReplyAppend, ElementTypes
    <3> QED BY <1>4, <2>1, <3>1 DEF HasReply
  <2>5. work'[q] # None => work[q] # None /\ q # r
    BY <1>4, <2>1
  <2>6. CASE q # r
    BY <1>2, <1>3, <1>4, <2>3, <2>4, <2>5, <2>6, PlaceKept
  <2>7. CASE q = r
    <3>1. PICK t \in Streams : OnlyIn(q, "work", t) /\ ~Absent(q)
      BY <2>1, <2>7 DEF OnePlace, InOnePlace, OnlyIn
    <3>2. OnlyIn(q, "toServer", s)'
      BY <1>3, <2>3, <2>4, <2>5, <2>7, <3>1 DEF OnlyIn
    <3> QED BY <1>2, <2>2, <3>1, <3>2 DEF InOnePlace, Places
  <2> QED BY <2>6, <2>7
<1> QED BY <1>5, <1>6

\* A response is received and given to its record; from then on the request is
\* nowhere.
LEMMA ReceiverPlaces ==
    ASSUME TypeOK, Labels, OnePlace, NEW s \in Streams, ReceiverStep(s), NEW q \in Requests
    PROVE  InOnePlace(q)'
<1>1. UNCHANGED <<channel, sender, toClient, work, recordId, pc>>
  BY DEF ReceiverStep, Receive, ReceiveFails, SetResponse, SendSignal, queue, record, handler, wire
<1>2. /\ \A t \in Streams : /\ Sending(t, q)' => Sending(t, q)
                            /\ Has(toClient[t], q)' => Has(toClient[t], q)
      /\ work'[q] # None => work[q] # None
      /\ Has(channel, q)' => Has(channel, q)
  BY <1>1 DEF Sending, Asks, Has
<1>3. /\ toServer \in [Streams -> Seq(Response)] /\ receiver \in [Streams -> Receivers]
      /\ signalled \in [Requests -> BOOLEAN] /\ InOnePlace(q)
  BY DEF TypeOK, Response, OnePlace
<1>4. CASE Receive(s)
  <2> DEFINE m == Head(toServer[s])
  <2>1. /\ toServer[s] # <<>> /\ toServer' = [toServer EXCEPT ![s] = Tail(@)]
        /\ \/ UNCHANGED receiver
           \/ receiver' = [receiver EXCEPT ![s] = [at |-> "set", rec |-> records[m.id],
                                                 res |-> m.res]]
        /\ UNCHANGED signalled
    BY <1>4 DEF Receive, record
  <2>2. /\ HasReply(Tail(toServer[s]), q) => HasReply(toServer[s], q)
        /\ m.res = q => HasReply(toServer[s], q) /\ ~HasReply(Tail(toServer[s]), q)
    BY <2>1, HasReplyTail, ElementTypes DEF OnePlace
  <2>3. /\ \A t \in Streams : HasReply(toServer[t], q)' => HasReply(toServer[t], q)
        /\ m.res = q => ~HasReply(toServer[s], q)'
    BY <1>3, <2>1, <2>2 DEF HasReply
  <2>4. \A t \in Streams : Answering(t, q)' => Answering(t, q) \/ (t = s /\ m.res = q)
    BY <1>3, <2>1 DEF Answering
  <2>5. Absent(q)' <=> Absent(q)
    BY <1>1, <2>1 DEF Absent
  <2>6. CASE m.res # q
    BY <1>2, <1>3, <2>3, <2>4, <2>5, <2>6, PlaceKept
  <2>7. CASE m.res = q
    <3>1. OnlyIn(q, "toServer", s) /\ ~Absent(q)
      BY <2>2, <2>7 DEF OnePlace, InOnePlace, OnlyIn
    <3>2. OnlyIn(q, "receiver", s)'
      BY <1>2, <2>3, <2>4, <2>7, <3>1 DEF OnlyIn
    <3> QED BY <2>5, <3>1, <3>2 DEF InOnePlace, Places
  <2> QED BY <2>6, <2>7
<1>5. CASE ReceiveFails(s) \/ SetResponse(s)
  <2>1. UNCHANGED <<toServer, signalled>>
    BY <1>5 DEF ReceiveFails, SetResponse, wire, record
  <2>2. \A t \in Streams : t # s => receiver'[t] = receiver[t]
    BY <1>3, <1>5 DEF ReceiveFails, SetResponse
  <2>3. Answering(s, q)' => Answering(s, q)
    <3>1. CASE ReceiveFails(s)
      <4>1. receiver'[s].at = "ended"
        BY <1>3, <3>1 DEF ReceiveFails, Receivers
      <4> QED BY <4>1 DEF Answering
    <3>2. CASE SetResponse(s)
      <4>1. receiver[s] \in [at : {"set", "signal"}, rec : Requests, res : Requests]
        BY <1>3, <3>2 DEF SetResponse, Receivers
      <4> QED BY <1>3, <3>2, <4>1 DEF SetResponse, Answering
    <3> QED BY <1>5, <3>1, <3>2
  <2>4. \A t \in Streams : HasReply(toServer[t], q)' => HasReply(toServer[t], q)
    BY <2>1 DEF HasReply
  <2>6. \A t \in Streams : Answering(t, q)' => Answering(t, q)
    BY <2>2, <2>3 DEF Answering
  <2>5. Absent(q)' <=> Absent(q)
    BY <1>1, <2>1 DEF Absent
  <2> QED BY <1>2, <1>3, <2>4, <2>5, <2>6, PlaceKept
<1>6. CASE SendSignal(s)
  <2> DEFINE r == receiver[s].rec
  <2>1. /\ receiver[s].at = "signal" /\ UNCHANGED toServer
        /\ receiver' = [receiver EXCEPT ![s] = [at |-> "recv", rec |-> None, res |-> None]]
        /\ signalled' = [signalled EXCEPT ![r] = TRUE]
    BY <1>6 DEF SendSignal, wire
  <2>2. r \in Requests /\ Answering(s, r)
    BY <2>1, ElementTypes DEF Labels, Answering
  <2>3. \A t \in Streams : HasReply(toServer[t], q)' => HasReply(toServer[t], q)
    BY <2>1 DEF HasReply
  <2>6. \A t \in Streams : Answering(t, q)' => Answering(t, q) /\ t # s
    BY <1>3, <2>1 DEF Answering
  <2>4. CASE q # r
    <3>1. Absent(q)' <=> Absent(q)
      BY <1>1, <1>3, <2>1, <2>4 DEF Absent
    <3> QED BY <1>2, <1>3, <2>3, <2>6, <3>1, PlaceKept
  <2>5. CASE q = r
    <3>1. OnlyIn(q, "receiver", s)
      BY <2>2, <2>5 DEF OnePlace, InOnePlace, OnlyIn
    <3>2. OnlyIn(q, "nowhere", s)'
      BY <1>2, <2>3, <2>6, <3>1 DEF OnlyIn
    <3> QED BY <3>2 DEF InOnePlace, Places
  <2> QED BY <2>4, <2>5
<1> QED BY <1>4, <1>5, <1>6 DEF ReceiverStep

\* A stream that comes or goes moves no request.
LEMMA StreamPlaces ==
    ASSUME TypeOK, OnePlace, NEW s \in Streams, Attach(s) \/ Cut(s) \/ Down(s), NEW q \in Requests,
           Goroutines
    PROVE  InOnePlace(q)'
<1>1. UNCHANGED <<channel, work, signalled, recordId, pc>>
  BY DEF Attach, Cut, Down, queue, record, handler
<1>2. /\ Absent(q)' <=> Absent(q)
      /\ Has(channel, q)' => Has(channel, q)
      /\ work'[q] # None => work[q] # None
  BY <1>1 DEF Absent, Has
<1>3. /\ toServer \in [Streams -> Seq(Response)] /\ toClient \in [Streams -> Seq(Message)]
      /\ receiver \in [Streams -> Receivers] /\ sender \in [Streams -> Senders] /\ InOnePlace(q)
  BY DEF TypeOK, Response, OnePlace
<1>4. ASSUME NEW t \in Streams
      PROVE  (Sending(t, q)' => Sending(t, q)) /\ (Answering(t, q)' => Answering(t, q))
  <2>1. CASE Attach(s)
    <3>1. /\ sender' = [sender EXCEPT ![s].at = "take"]
          /\ receiver' = [receiver EXCEPT ![s].at = "recv"]
      BY <2>1 DEF Attach
    <3>2. sender'[s].at = "take" /\ receiver'[s].at = "recv"
      BY <1>3, <3>1 DEF Senders, Receivers
    <3> QED BY <1>3, <3>1, <3>2 DEF Sending, Answering
  <2>2. CASE Cut(s) \/ Down(s)
    BY <2>2 DEF Cut, Down, Sending, Answering
  <2> QED BY <2>1, <2>2
<1>5. ASSUME NEW t \in Streams
      PROVE  Has(toClient[t], q)' => Has(toClient[t], q)
  <2>1. toClient'[t] = toClient[t] \/ toClient'[t] = <<>>
    BY <1>3 DEF Attach, Cut, Down, wire
  <2> QED BY <2>1 DEF Has
<1>6. ASSUME NEW t \in Streams
      PROVE  HasReply(toServer[t], q)' => HasReply(toServer[t], q)
  <2>1. \/ toServer'[t] = toServer[t] \/ toServer'[t] = <<>>
        \/ \E n \in 0..Len(toServer[t]) : toServer'[t] = SubSeq(toServer[t], 1, n)
    <3>1. CASE Attach(s)
      BY <3>1 DEF Attach, wire
    <3>2. CASE Cut(s)
      BY <1>3, <3>2 DEF Cut
    <3>3. CASE Down(s)
      BY <1>3, <3>3 DEF Down
    <3> QED BY <3>1, <3>2, <3>3
  <2>2. \A n \in 0..Len(toServer[t]) :
           HasReply(SubSeq(toServer[t], 1, n), q) => HasReply(toServer[t], q)
    BY PrefixIs, ElementTypes DEF HasReply
  <2> QED BY <2>1, <2>2 DEF HasReply
<1> QED BY <1>2, <1>3, <1>4, <1>5, <1>6, PlaceKept

\* Only a response that was on its way wakes its handler.
LEMMA SignalledStep ==
    ASSUME TypeOK, Numbers, Labels, OnePlace, [Next]_vars, NEW q \in Requests, signalled'[q]
    PROVE  recordId'[q] # 0 /\ pc'[q] # "publish"
<1>1. recordId[q] # 0 /\ pc[q] # "publish"
  <2>1. CASE signalled[q]
    BY <2>1 DEF OnePlace
  <2>2. CASE ~signalled[q]
    <3>1. PICK s \in Streams : SendSignal(s)
      BY <2>2 DEF Next, HasClient, HandlerStep, GetClient, AddRecord, Publish, OnResponse, GiveUp,
            SetGatewayTimeout, SendServerElapsed, WriteReply, Respond, ClientPanics, SenderStep,
            TakeRecord, SendRecord, ReceiverStep, Receive, ReceiveFails, SetResponse, ClientReceive,
            Attach, Cut, Down, DeregisterStep, TimerFires, Close, Unregister, vars, record
    <3>2. receiver[s].at = "signal" /\ q = receiver[s].rec
      BY <2>2, <3>1 DEF SendSignal, TypeOK
    <3>3. Answering(s, q)
      BY <3>2 DEF Labels, Answering
    <3>4. ~Absent(q)
      BY <3>3 DEF OnePlace, InOnePlace, OnlyIn
    <3> QED BY <3>4 DEF Absent
  <2> QED BY <2>1, <2>2
<1>2. recordId'[q] # 0
  BY <1>1, GivenIdStays
<1>3. pc[q] # "add"
  BY <1>1 DEF Numbers, Unnumbered
<1>4. CASE UNCHANGED pc
  BY <1>1, <1>2, <1>4
<1>5. ASSUME NEW r \in Requests, HasClient(r) \/ HandlerStep(r)
      PROVE  pc'[q] # "publish"
  BY <1>1, <1>3, <1>5, PublishFromAdd
<1> QED BY <1>2, <1>4, <1>5, OthersKeep DEF handler, vars

LEMMA OnePlaceStep ==
    ASSUME TypeOK, Numbers, Labels, Goroutines, OnePlace, [Next]_vars
    PROVE  OnePlace'
<1>1. ASSUME NEW q \in Requests
      PROVE  InOnePlace(q)'
  <2>1. CASE DeregisterStep \/ UNCHANGED vars
    <3>1. UNCHANGED <<channel, sender, toClient, toServer, receiver, work, signalled, recordId, pc>>
      BY <2>1 DEF DeregisterStep, TimerFires, Close, Unregister, vars, queue, record, handler,
                  tunnel, wire
    <3>2. InOnePlace(q)
      BY DEF OnePlace
    <3> QED BY <3>1, <3>2, PlaceKept DEF Has, HasReply, Sending, Answering, Asks, Absent
  <2> QED BY <2>1, HandlerPlaces, SenderPlaces, ClientPlaces, ReceiverPlaces, StreamPlaces DEF Next
<1> QED BY <1>1, QueuesOnce, SignalledStep DEF OnePlace

-----------------------------------------------------------------------------
(* Replies.                                                                *)

\* A handler changes nothing of another request.
LEMMA HandlerOthers ==
    ASSUME TypeOK, NEW r \in Requests, HasClient(r) \/ HandlerStep(r),
           NEW q \in Requests, q # r
    PROVE  UNCHANGED <<pc[q], reply[q], response[q], signalled[q]>>
BY DEF HasClient, HandlerStep, GetClient, AddRecord, Publish, OnResponse, GiveUp, ChannelSend,
       SetGatewayTimeout, SendServerElapsed, WriteReply, Step, TypeOK, record

LEMMA HandlerReplies ==
    ASSUME TypeOK, Numbers, OnePlace, NEW r \in Requests, HasClient(r) \/ HandlerStep(r), ReplyOf(r)
    PROVE  ReplyOf(r)'
<1>1. /\ pc \in [Requests -> Steps] /\ reply \in [Requests -> Seq(Values)]
      /\ response \in [Requests -> Values] /\ signalled \in [Requests -> BOOLEAN]
      /\ reply[r] \in Seq(Values) /\ Len(reply[r]) \in Nat /\ response[r] \in Values
  <2>1. /\ pc \in [Requests -> Steps] /\ reply \in [Requests -> Seq(Values)]
        /\ response \in [Requests -> Values] /\ signalled \in [Requests -> BOOLEAN]
    BY DEF TypeOK
  <2>2. reply[r] \in Seq(Values) /\ response[r] \in Values
    BY <2>1
  <2>3. Len(reply[r]) \in Nat
    BY <2>2
  <2> QED BY <2>1, <2>2, <2>3
<1>2. Parts \in Nat \ {0} /\ GatewayTimeout # None /\ None # r /\ GatewayTimeout # r
  BY ConstantsAssumption
<1>3. UNCHANGED signalled
  BY DEF HasClient, HandlerStep, GetClient, AddRecord, Publish, OnResponse, GiveUp,
         SetGatewayTimeout, SendServerElapsed, WriteReply, record
<1>4. CASE HasClient(r) \/ GetClient(r) \/ AddRecord(r) \/ Publish(r) \/ SendServerElapsed(r)
           \/ OnResponse(r) \/ GiveUp(r)
  <2>1. UNCHANGED <<response, reply>>
    BY <1>4 DEF HasClient, GetClient, AddRecord, Publish, SendServerElapsed, OnResponse, GiveUp, record
  <2>2. \/ /\ pc[r] \in {"new", "lookup", "add", "publish", "wait"}
           /\ pc'[r] \in {"lookup", "help", "add", "refused", "aborted", "publish", "wait", "gaveUp"}
        \/ pc[r] = "wait" /\ pc'[r] = "elapsed" /\ signalled[r]
        \/ pc[r] = "elapsed" /\ pc'[r] \in {"reply", "aborted"}
    BY <1>1, <1>4 DEF HasClient, GetClient, AddRecord, Publish, SendServerElapsed, ChannelSend,
                      OnResponse, GiveUp, Step
  <2> QED BY <1>1, <1>2, <1>3, <2>1, <2>2 DEF ReplyOf, TimedOut
<1>5. CASE SetGatewayTimeout(r)
  <2>1. /\ pc[r] = "gaveUp" /\ pc'[r] = "reply504" /\ response'[r] = GatewayTimeout /\ UNCHANGED reply
    BY <1>1, <1>5 DEF SetGatewayTimeout, Step
  <2> QED BY <1>1, <1>2, <1>3, <2>1 DEF ReplyOf, TimedOut
<1>6. CASE WriteReply(r)
  <2> DEFINE new == Append(reply[r], response[r])
  <2>1. UNCHANGED response /\ reply'[r] = new
    BY <1>1, <1>6 DEF WriteReply, record
  <2>2. \/ Len(reply[r]) + 1 < Parts /\ pc[r] \in {"reply", "reply504"} /\ pc'[r] = pc[r]
        \/ Len(reply[r]) + 1 = Parts /\ pc[r] = "reply" /\ pc'[r] = "replied"
        \/ Len(reply[r]) + 1 = Parts /\ pc[r] = "reply504" /\ pc'[r] = "replied504"
    BY <1>1, <1>6 DEF WriteReply, Step
  <2>3. Len(new) = Len(reply[r]) + 1
        /\ \A i \in 1..(Len(reply[r]) + 1) :
              new[i] = IF i = Len(reply[r]) + 1 THEN response[r] ELSE reply[r][i]
    BY <1>1, AppendIs
  <2>4. response[r] = r \/ (response[r] = GatewayTimeout /\ pc[r] = "reply504")
    BY <1>2, <2>2 DEF ReplyOf, TimedOut
  <2>5. \A i \in 1..Len(new) :
           new[i] = r \/ (new[i] = GatewayTimeout /\ pc'[r] \in TimedOut)
    BY <1>1, <2>2, <2>3, <2>4 DEF ReplyOf, TimedOut
  <2> QED BY <1>1, <1>2, <1>3, <2>1, <2>2, <2>3, <2>5 DEF ReplyOf, TimedOut
<1> QED BY <1>4, <1>5, <1>6 DEF HandlerStep

LEMMA RepliesStep ==
    ASSUME TypeOK, Numbers, Labels, OnePlace, Replies, [Next]_vars
    PROVE  Replies'
<1>1. /\ response \in [Requests -> Values] /\ signalled \in [Requests -> BOOLEAN]
      /\ receiver \in [Streams -> Receivers]
      /\ GatewayTimeout # None /\ \A r \in Requests : None # r /\ GatewayTimeout # r
  BY ConstantsAssumption DEF TypeOK
<1>2. CASE UNCHANGED <<response, signalled, handler>>
           /\ \A s \in Streams : receiver'[s].at = "signal" => UNCHANGED receiver[s]
  BY <1>2 DEF Replies, ReplyOf, handler
<1>3. ASSUME NEW r \in Requests, HasClient(r) \/ HandlerStep(r)
      PROVE  Replies'
  <2>1. \A q \in Requests : q # r => ReplyOf(q)'
    BY <1>3, HandlerOthers DEF Replies, ReplyOf
  <2>2. ReplyOf(r)'
    BY <1>3, HandlerReplies DEF Replies
  <2>3. UNCHANGED receiver /\ \A q \in Requests : response'[q] = response[q] \/ response'[q] # None
    BY <1>1, <1>3 DEF HasClient, HandlerStep, GetClient, AddRecord, Publish, OnResponse, GiveUp,
       SetGatewayTimeout, SendServerElapsed, WriteReply, record, tunnel
  <2>4. \A s \in Streams : receiver[s].at = "signal" => receiver[s].rec \in Requests
    BY ElementTypes
  <2> QED BY <2>1, <2>2, <2>3, <2>4 DEF Replies
<1>4. ASSUME NEW s \in Streams, SetResponse(s)
      PROVE  Replies'
  <2>1. PICK r \in Requests : r = receiver[s].rec /\ r = receiver[s].res
    BY <1>4, ElementTypes DEF SetResponse, Labels
  <2>2. /\ receiver[s].at = "set" /\ response' = [response EXCEPT ![r] = r]
        /\ UNCHANGED <<signalled, handler>>
        /\ receiver' = [receiver EXCEPT ![s].at = "signal"]
    BY <1>4, <2>1 DEF SetResponse
  <2>3. ~signalled[r]
    <3>1. Answering(s, r)
      BY <2>1, <2>2 DEF Answering
    <3> QED BY <3>1 DEF OnePlace, InOnePlace, OnlyIn, Absent
  <2>4. ASSUME NEW q \in Requests
        PROVE  ReplyOf(q)'
    <3>1. CASE q = r
      BY <1>1, <2>2, <2>3, <3>1 DEF Replies, ReplyOf, TimedOut, handler
    <3>2. CASE q # r
      BY <1>1, <2>2, <3>2 DEF Replies, ReplyOf, handler
    <3> QED BY <3>1, <3>2
  <2>5. receiver'[s].rec = r
    <3>1. receiver[s] \in [at : {"set", "signal"}, rec : Requests, res : Requests]
      BY <1>1, <2>2 DEF Receivers
    <3> QED BY <1>1, <2>1, <2>2, <3>1
  <2>6. ASSUME NEW t \in Streams, receiver'[t].at = "signal"
        PROVE  response'[receiver'[t].rec] # None
    <3>1. CASE t = s
      BY <1>1, <2>2, <2>5, <3>1
    <3>2. CASE t # s
      <4>1. receiver'[t] = receiver[t] /\ response[receiver[t].rec] # None
        BY <1>1, <2>2, <2>6, <3>2 DEF Replies
      <4>2. receiver[t].rec \in Requests
        BY <2>6, <4>1, ElementTypes
      <4> QED BY <1>1, <2>2, <4>1, <4>2
    <3> QED BY <3>1, <3>2
  <2> QED BY <2>4, <2>6 DEF Replies
<1>5. ASSUME NEW s \in Streams, SendSignal(s)
      PROVE  Replies'
  <2>1. /\ receiver[s].at = "signal" /\ UNCHANGED <<response, handler>>
        /\ receiver' = [receiver EXCEPT ![s] = [at |-> "recv", rec |-> None, res |-> None]]
        /\ signalled' = [signalled EXCEPT ![receiver[s].rec] = TRUE]
    BY <1>5 DEF SendSignal
  <2>2. ASSUME NEW q \in Requests
        PROVE  ReplyOf(q)'
    <3>1. signalled'[q] => response[q] # None
      BY <1>1, <2>1 DEF Replies, ReplyOf
    <3>2. signalled[q] => signalled'[q]
      BY <1>1, <2>1
    <3> QED BY <2>1, <3>1, <3>2 DEF Replies, ReplyOf, handler
  <2>3. \A t \in Streams : receiver'[t].at = "signal" => receiver'[t] = receiver[t]
    BY <1>1, <2>1
  <2> QED BY <2>1, <2>2, <2>3 DEF Replies
<1>6. ASSUME NEW r \in Requests, Respond(r) \/ ClientPanics(r)
      PROVE  Replies'
  BY <1>2, <1>6 DEF Respond, ClientPanics, record, tunnel
<1>7. ASSUME NEW s \in Streams, SenderStep(s) \/ ClientReceive(s) \/ Cut(s) \/ Down(s)
      PROVE  Replies'
  BY <1>2, <1>7 DEF SenderStep, TakeRecord, SendRecord, ClientReceive, Cut, Down, record
<1>8. ASSUME NEW s \in Streams, Receive(s) \/ ReceiveFails(s) \/ Attach(s)
      PROVE  Replies'
  <2>1. UNCHANGED <<response, signalled, handler>>
    BY <1>8 DEF Receive, ReceiveFails, Attach, record
  <2>2. \A t \in Streams : t # s => receiver'[t] = receiver[t]
    BY <1>1, <1>8 DEF Receive, ReceiveFails, Attach
  <2>3. receiver'[s].at = "signal" => receiver'[s] = receiver[s]
    <3>1. CASE Receive(s)
      <4> DEFINE m == Head(toServer[s])
                 given == [at |-> "set", rec |-> records[m.id], res |-> m.res]
      <4>1. UNCHANGED receiver \/ receiver' = [receiver EXCEPT ![s] = given]
        BY <3>1 DEF Receive
      <4>2. given.at = "set"
        OBVIOUS
      <4> HIDE DEF given
      <4> QED BY <1>1, <4>1, <4>2
    <3>2. CASE ReceiveFails(s)
      <4>1. receiver' = [receiver EXCEPT ![s].at = "ended"]
        BY <3>2 DEF ReceiveFails
      <4> QED BY <1>1, <4>1 DEF Receivers
    <3>3. CASE Attach(s)
      <4>1. receiver' = [receiver EXCEPT ![s].at = "recv"]
        BY <3>3 DEF Attach
      <4> QED BY <1>1, <4>1 DEF Receivers
    <3> QED BY <1>8, <3>1, <3>2, <3>3
  <2> QED BY <1>2, <2>1, <2>2, <2>3
<1>9. CASE DeregisterStep \/ UNCHANGED vars
  BY <1>2, <1>9 DEF DeregisterStep, TimerFires, Close, Unregister, vars, record, tunnel
<1> QED BY <1>3, <1>4, <1>5, <1>6, <1>7, <1>8, <1>9 DEF Next, ReceiverStep

-----------------------------------------------------------------------------
(* The theorems.                                                           *)

LEMMA SignalledOnceStep ==
    ASSUME TypeOK, Labels, OnePlace, SignalledOnce, [Next]_vars
    PROVE  SignalledOnce'
<1>1. ASSUME NEW s \in Streams, SendSignal(s)
      PROVE  SignalledOnce'
  <2>1. receiver[s].rec \in Requests /\ Answering(s, receiver[s].rec)
    BY <1>1, ElementTypes DEF SendSignal, Labels, Answering
  <2>2. ~signalled[receiver[s].rec]
    BY <2>1 DEF OnePlace, InOnePlace, OnlyIn, Absent
  <2> QED BY <1>1, <2>2 DEF SendSignal, SignalledOnce
<1>2. CASE UNCHANGED crashed \/ crashed' = "nil record"
  BY <1>2 DEF SignalledOnce
<1> QED BY <1>1, <1>2
        DEF Next, HasClient, HandlerStep, GetClient, AddRecord, Publish, OnResponse, GiveUp,
            SetGatewayTimeout, SendServerElapsed, WriteReply, Respond, ClientPanics, SenderStep,
            TakeRecord, SendRecord, ReceiverStep, Receive, ReceiveFails, SetResponse, ClientReceive,
            Attach, Cut, Down, DeregisterStep, TimerFires, Close, Unregister, vars

LEMMA InvInit == Init => IInv
<1> SUFFICES ASSUME Init
             PROVE  IInv
  OBVIOUS
<1>1. TypeOK
  <2>1. /\ channel \in Seq(Message) /\ Len(channel) <= ChannelSize
    BY ConstantsAssumption DEF Init
  <2>2. seq \in 0..Cardinality(Requests)
    BY HowMany DEF Init
  <2>3. sender \in [Streams -> Senders]
    BY DEF Init, Senders
  <2>4. receiver \in [Streams -> Receivers]
    BY DEF Init, Receivers
  <2>5. /\ reply \in [Requests -> Seq(Values)] /\ toClient \in [Streams -> Seq(Message)]
        /\ toServer \in [Streams -> Seq([id : Ids, res : Requests])]
    BY DEF Init
  <2>6. pc \in [Requests -> Steps] /\ response \in [Requests -> Values]
    BY DEF Init, Steps, Values
  <2>7. /\ registered \in BOOLEAN /\ isIdle \in BOOLEAN /\ expiring \in BOOLEAN /\ isOpen \in BOOLEAN
        /\ records \in [Ids -> Requests \cup {None}] /\ recordId \in [Requests -> Ids \cup {0}]
        /\ signalled \in [Requests -> BOOLEAN] /\ stream \in [Streams -> {"none", "up", "cut", "down"}]
        /\ work \in [Requests -> Streams \cup {None}] /\ wasted \in [Streams -> Nat]
        /\ crashed \in {"no", "nil record", "closed signal"}
    BY DEF Init
  <2> QED BY <2>1, <2>2, <2>3, <2>4, <2>5, <2>6, <2>7 DEF TypeOK
<1>2. Numbers
  <2>1. {r \in Requests : recordId[r] # 0} = {}
    BY DEF Init
  <2>2. seq = Cardinality({r \in Requests : recordId[r] # 0})
    BY <2>1, FS_EmptySet DEF Init
  <2> QED BY <2>2 DEF Init, Numbers, Unnumbered
<1>3. RecordsNumbered /\ RecordsAreAwaited /\ SignalledOnce
  BY DEF Init, RecordsNumbered, RecordsAreAwaited, SignalledOnce
<1>4. Labels /\ Goroutines
  BY DEF Init, Labels, Goroutines
<1>5. OnePlace
  <2>1. ASSUME NEW r \in Requests
        PROVE  InOnePlace(r)
    <3>1. PICK t \in Streams : TRUE
      BY DEF Init
    <3>2. OnlyIn(r, "nowhere", t)
      BY DEF Init, OnlyIn, Has, HasReply, Sending, Answering
    <3> QED BY <3>2 DEF InOnePlace, Places
  <2> QED BY <2>1 DEF Init, OnePlace, Once, RepliesOnce
<1>6. Replies
  <2>1. Parts \in Nat \ {0} /\ GatewayTimeout # None
    BY ConstantsAssumption
  <2> QED BY <2>1 DEF Init, Replies, ReplyOf, TimedOut
<1> QED BY <1>1, <1>2, <1>3, <1>4, <1>5, <1>6 DEF IInv

LEMMA InvHolds == Spec => []IInv
<1>1. IInv /\ [Next]_vars => IInv'
  BY TypeStep, NumbersStep, RecordsStep, LabelsStep, GoroutinesStep, OnePlaceStep, RepliesStep,
     SignalledOnceStep DEF IInv
<1> QED BY InvInit, <1>1, PTL DEF Spec

(* The type invariant: the channel never exceeds its buffer, and there is   *)
(* an id for every record.                                                  *)
THEOREM TypeCorrect == Spec => []TypeOK
<1>1. IInv => TypeOK
  BY DEF IInv
<1> QED BY <1>1, InvHolds, PTL

(* No reply carries a part of another request's response (GetRecord and     *)
(* SetRecordResponse work by ids, on any number of streams).                *)
THEOREM OwnReplyHolds == Spec => []OwnReply
<1>1. IInv => OwnReply
  BY DEF IInv, Replies, ReplyOf, OwnReply
<1> QED BY <1>1, InvHolds, PTL

(* A handler that was woken writes the whole of its response.               *)
THEOREM WholeReplyHolds == Spec => []WholeReply
<1>1. IInv => WholeReply
  <2> SUFFICES ASSUME IInv, NEW r \in Requests, pc[r] = "replied"
               PROVE  reply[r] = [i \in 1..Parts |-> r]
    BY DEF WholeReply
  <2>1. reply[r] \in Seq(Values)
    BY DEF IInv, TypeOK
  <2>2. Len(reply[r]) = Parts /\ \A i \in 1..Parts : reply[r][i] = r
    BY DEF IInv, Replies, ReplyOf, TimedOut
  <2> QED BY <2>1, <2>2
<1> QED BY <1>1, InvHolds, PTL

(* SendLast never closes a signal twice.                                    *)
THEOREM SignalledOnceHolds == Spec => []SignalledOnce
<1>1. IInv => SignalledOnce
  BY DEF IInv
<1> QED BY <1>1, InvHolds, PTL

(* A dead stream takes one record off the channel at most: handleGRPCErrors *)
(* ends its sender.                                                         *)
THEOREM DeadStreamHolds == Spec => []DeadStreamTakesOne
<1>1. IInv => DeadStreamTakesOne
  BY DEF IInv, Goroutines, DeadStreamTakesOne
<1> QED BY <1>1, InvHolds, PTL

(* The session's records are those of requests still waiting.               *)
THEOREM RecordsHold == Spec => []RecordsAreAwaited
<1>1. IInv => RecordsAreAwaited
  BY DEF IInv
<1> QED BY <1>1, InvHolds, PTL
=============================================================================
