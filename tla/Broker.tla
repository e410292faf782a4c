------------------------------- MODULE Broker -------------------------------
(***************************************************************************)
(* The message broker (channel.Broker): one goroutine that takes           *)
(* subscriptions, their ends and messages from three buffered channels, in *)
(* any order its select may choose, and hands every message on to the      *)
(* subscribers that have room for it.                                      *)
(*                                                                         *)
(* Stop is called nowhere in the repository, and start sets running before *)
(* anything is subscribed: both are left out.                              *)
(***************************************************************************)
EXTENDS Naturals, Sequences, FiniteSets

CONSTANTS
    Listeners,      \* the channels Subscribe makes, one per call
    Messages,       \* what is published
    PublishSize,    \* capacity of publishCh (8 in the code)
    ListenerSize    \* capacity of a listener's channel (8 in the code)

VARIABLES
    sent,           \* history: how many messages were published
    publishCh,      \* messages waiting for the goroutine, numbered
    subCh,          \* subscriptions waiting, capacity 1
    unsubCh,        \* ends of subscriptions waiting, capacity 1
    subs,           \* the goroutine's set of subscribers
    made,           \* the listeners Subscribe has returned
    ended,          \* the listeners Unsubscribe was called with
    listener,       \* listener[l]: the messages in the buffer of l
    closed,         \* the listeners that are closed
    last,           \* history: the number of the last message l received
    got,            \* history: how many messages l received
    left,           \* history: listeners whose end was taken while their
                    \* subscription was still waiting
    panicked        \* a message was sent on a closed channel: the process dies

vars == <<sent, publishCh, subCh, unsubCh, subs, made, ended, listener, closed, last, got, left,
          panicked>>

Numbered == [n : Nat \ {0}, msg : Messages]

TypeOK ==
    /\ sent \in Nat
    /\ publishCh \in Seq(Numbered) /\ Len(publishCh) <= PublishSize
    /\ subCh \in Seq(Listeners) /\ Len(subCh) <= 1
    /\ unsubCh \in Seq(Listeners) /\ Len(unsubCh) <= 1
    /\ subs \subseteq made
    /\ ended \subseteq made /\ made \subseteq Listeners
    /\ listener \in [Listeners -> Seq(Numbered)]
    /\ \A l \in Listeners : Len(listener[l]) <= ListenerSize
    /\ closed \subseteq Listeners
    /\ last \in [Listeners -> Nat] /\ got \in [Listeners -> Nat]
    /\ left \subseteq Listeners
    /\ panicked \in BOOLEAN

Init ==
    /\ sent = 0
    /\ publishCh = <<>>
    /\ subCh = <<>>
    /\ unsubCh = <<>>
    /\ subs = {}
    /\ made = {}
    /\ ended = {}
    /\ listener = [l \in Listeners |-> <<>>]
    /\ closed = {}
    /\ last = [l \in Listeners |-> 0]
    /\ got = [l \in Listeners |-> 0]
    /\ left = {}
    /\ panicked = FALSE

\* Publish blocks while publishCh is full.
Publish(m) ==
    /\ ~panicked
    /\ Len(publishCh) < PublishSize
    /\ publishCh' = Append(publishCh, [n |-> sent + 1, msg |-> m])
    /\ sent' = sent + 1
    /\ UNCHANGED <<subCh, unsubCh, subs, made, ended, listener, closed, last, got, left, panicked>>

\* Subscribe returns as soon as subCh holds the listener, which may be long
\* before the goroutine sends it anything.
Subscribe(l) ==
    /\ ~panicked
    /\ l \notin made
    /\ Len(subCh) < 1
    /\ subCh' = Append(subCh, l)
    /\ made' = made \cup {l}
    /\ UNCHANGED <<sent, publishCh, unsubCh, subs, ended, listener, closed, last, got, left, panicked>>

\* The holder of a listener gives it up, once (a deferred call).
Unsubscribe(l) ==
    /\ ~panicked
    /\ l \in made \ ended
    /\ Len(unsubCh) < 1
    /\ unsubCh' = Append(unsubCh, l)
    /\ ended' = ended \cup {l}
    /\ UNCHANGED <<sent, publishCh, subCh, subs, made, listener, closed, last, got, left, panicked>>

\* case listener := <-b.subCh
TakeSub ==
    /\ ~panicked
    /\ subCh # <<>>
    /\ subs' = subs \cup {Head(subCh)}
    /\ subCh' = Tail(subCh)
    /\ UNCHANGED <<sent, publishCh, unsubCh, made, ended, listener, closed, last, got, left, panicked>>

\* Mutant: the listener is closed but stays a subscriber.
TakeUnsubKeeping ==
    /\ ~panicked
    /\ unsubCh # <<>>
    /\ LET l == Head(unsubCh) IN
        /\ subs' = subs
        /\ closed' = closed \cup {l}
        /\ left' = IF l \in subs THEN left ELSE left \cup {l}
    /\ unsubCh' = Tail(unsubCh)
    /\ UNCHANGED <<sent, publishCh, subCh, made, ended, listener, last, got, panicked>>

\* case listener := <-b.unsubCh
TakeUnsub ==
    /\ ~panicked
    /\ unsubCh # <<>>
    /\ LET l == Head(unsubCh) IN
        /\ subs' = subs \ {l}
        /\ closed' = closed \cup {l}
        /\ left' = IF l \in subs THEN left ELSE left \cup {l}
    /\ unsubCh' = Tail(unsubCh)
    /\ UNCHANGED <<sent, publishCh, subCh, made, ended, listener, last, got, panicked>>

\* Mutant: no listener is ever full.
FullNever == {}

\* The subscribers that miss a message that is taken now.
Full == {l \in subs : Len(listener[l]) = ListenerSize}

\* Mutant: the message stays at the head of publishCh.
TakeMessageAgain ==
    /\ ~panicked
    /\ publishCh # <<>>
    /\ publishCh' = publishCh
    /\ panicked' = (subs \cap closed # {})
    /\ listener' = [l \in Listeners |-> IF l \in subs \ (Full \cup closed)
                                        THEN Append(listener[l], Head(publishCh))
                                        ELSE listener[l]]
    /\ UNCHANGED <<sent, subCh, unsubCh, subs, made, ended, closed, last, got, left>>

\* case msg := <-b.publishCh: a send that would block is skipped, one on a
\* closed channel panics.
TakeMessage ==
    /\ ~panicked
    /\ publishCh # <<>>
    /\ publishCh' = Tail(publishCh)
    /\ panicked' = (subs \cap closed # {})
    /\ listener' = [l \in Listeners |-> IF l \in subs \ (Full \cup closed)
                                        THEN Append(listener[l], Head(publishCh))
                                        ELSE listener[l]]
    /\ UNCHANGED <<sent, subCh, unsubCh, subs, made, ended, closed, last, got, left>>

\* The subscriber's goroutine receives: what was buffered before a close is
\* still delivered.
Receive(l) ==
    /\ listener[l] # <<>>
    /\ last' = [last EXCEPT ![l] = Head(listener[l]).n]
    /\ got' = [got EXCEPT ![l] = @ + 1]
    /\ listener' = [listener EXCEPT ![l] = Tail(@)]
    /\ UNCHANGED <<sent, publishCh, subCh, unsubCh, subs, made, ended, closed, left, panicked>>

\* The goroutine of the broker.
Serve == TakeSub \/ TakeUnsub \/ TakeMessage

Next ==
    \/ Serve
    \/ \E m \in Messages : Publish(m)
    \/ \E l \in Listeners : Subscribe(l) \/ Unsubscribe(l) \/ Receive(l)

Spec == Init /\ [][Next]_vars

-----------------------------------------------------------------------------
Feed == INSTANCE LossyFeed

\* A subscriber may miss messages, but those it gets come in the order they
\* were published in and none comes twice: Broker implements LossyFeed.
InOrder == Feed!Spec

\* The broker sends on a closed channel, which ends the whole client, only
\* where a subscriber left so soon that its end was taken before its
\* subscription.
PanicsOnlyOnEarlyLeave == panicked => left # {}
=============================================================================
