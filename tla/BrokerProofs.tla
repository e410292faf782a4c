---------------------------- MODULE BrokerProofs ----------------------------
(***************************************************************************)
(* Theorems about the message broker: it implements LossyFeed, and it      *)
(* sends on a closed channel for one reason only.  They hold for channels  *)
(* of every size.                                                          *)
(***************************************************************************)
EXTENDS Broker, SequenceTheorems, TLAPS

LEMMA ElementNumbers ==
    ASSUME NEW s \in Seq(Numbered)
    PROVE  Len(s) \in Nat /\ \A i \in 1..Len(s) : s[i] \in Numbered /\ s[i].n \in Nat
<1>1. Len(s) \in Nat /\ \A i \in 1..Len(s) : s[i] \in Numbered
  OBVIOUS
<1>2. \A m \in Numbered : m.n \in Nat
  BY DEF Numbered
<1> QED BY <1>1, <1>2

\* The numbers of the messages in s grow, from above lo to hi at most.
Within(s, lo, hi) ==
    /\ \A i \in 1..Len(s) : lo < s[i].n /\ s[i].n <= hi
    /\ \A i, j \in 1..Len(s) : i < j => s[i].n < s[j].n

\* What is in s comes before what is in t.
Precedes(s, t) == \A i \in 1..Len(s), j \in 1..Len(t) : s[i].n < t[j].n

\* What a listener was given, what it holds and what waits for the broker's
\* goroutine follow one another.
OrderInv ==
    /\ sent \in Nat
    /\ publishCh \in Seq(Numbered) /\ Within(publishCh, 0, sent)
    /\ listener \in [Listeners -> Seq(Numbered)]
    /\ last \in [Listeners -> Nat] /\ got \in [Listeners -> Nat]
    /\ \A l \in Listeners : /\ last[l] <= sent
                            /\ Within(listener[l], last[l], sent)
                            /\ Within(publishCh, last[l], sent)
                            /\ Precedes(listener[l], publishCh)

-----------------------------------------------------------------------------
LEMMA WithinAppend ==
    ASSUME NEW s \in Seq(Numbered), NEW lo \in Nat, NEW hi \in Nat, NEW m \in Numbered,
           Within(s, lo, hi), NEW top \in Nat, hi <= top, lo < m.n, m.n <= top,
           \A i \in 1..Len(s) : s[i].n < m.n
    PROVE  Within(Append(s, m), lo, top)
<1>1. /\ Len(Append(s, m)) = Len(s) + 1 /\ Append(s, m)[Len(s) + 1] = m
      /\ \A i \in 1..Len(s) : Append(s, m)[i] = s[i]
  OBVIOUS
<1>2. \A i \in 1..Len(s) : s[i].n \in Nat
  BY ElementNumbers
<1>3. m.n \in Nat /\ Len(s) \in Nat
  BY DEF Numbered
<1> QED BY <1>1, <1>2, <1>3 DEF Within

LEMMA WithinWidens ==
    ASSUME NEW s \in Seq(Numbered), NEW lo \in Nat, NEW hi \in Nat, NEW top \in Nat,
           Within(s, lo, hi), hi <= top
    PROVE  Within(s, lo, top)
<1>1. \A i \in 1..Len(s) : s[i].n \in Nat
  BY ElementNumbers
<1> QED BY <1>1 DEF Within

\* What is appended to t comes after all of s.
LEMMA PrecedesAppend ==
    ASSUME NEW s, NEW t \in Seq(Numbered), NEW m \in Numbered, Precedes(s, t),
           \A i \in 1..Len(s) : s[i].n < m.n
    PROVE  Precedes(s, Append(t, m))
<1>1. /\ Len(Append(t, m)) = Len(t) + 1 /\ Append(t, m)[Len(t) + 1] = m
      /\ \A j \in 1..Len(t) : Append(t, m)[j] = t[j]
      /\ Len(t) \in Nat
  OBVIOUS
<1>2. \A j \in 1..Len(t) + 1 : j \in 1..Len(t) \/ j = Len(t) + 1
  BY <1>1
<1> QED BY <1>1, <1>2, Zenon DEF Precedes

LEMMA TailShifts ==
    ASSUME NEW s \in Seq(Numbered), s # <<>>
    PROVE  /\ Tail(s) \in Seq(Numbered) /\ Head(s) \in Numbered /\ Head(s) = s[1]
           /\ Len(s) \in Nat \ {0}
           /\ Len(Tail(s)) = Len(s) - 1
           /\ \A i \in 1..Len(Tail(s)) : i + 1 \in 1..Len(s) /\ Tail(s)[i] = s[i + 1]
OBVIOUS

LEMMA WithinTail ==
    ASSUME NEW s \in Seq(Numbered), s # <<>>, NEW lo \in Nat, NEW hi \in Nat, Within(s, lo, hi)
    PROVE  Within(Tail(s), Head(s).n, hi) /\ Within(Tail(s), lo, hi)
<1>1. \A i \in 1..Len(s) : s[i].n \in Nat
  BY ElementNumbers
<1> QED BY <1>1, TailShifts DEF Within

LEMMA PrecedesTail ==
    ASSUME NEW s \in Seq(Numbered), NEW t \in Seq(Numbered), Precedes(s, t)
    PROVE  /\ s # <<>> => Precedes(Tail(s), t)
           /\ t # <<>> => Precedes(s, Tail(t))
BY TailShifts DEF Precedes

-----------------------------------------------------------------------------
LEMMA PublishKeepsOrder ==
    ASSUME OrderInv, NEW m \in Messages, Publish(m)
    PROVE  OrderInv'
<1> DEFINE e == [n |-> sent + 1, msg |-> m]
<1>1. /\ publishCh' = Append(publishCh, e) /\ sent' = sent + 1
      /\ UNCHANGED <<listener, last, got>>
  BY DEF Publish
<1>2. sent \in Nat /\ e \in Numbered /\ e.n = sent + 1 /\ publishCh \in Seq(Numbered)
  BY DEF OrderInv, Numbered
<1>3. \A i \in 1..Len(publishCh) : publishCh[i].n < e.n
  <2>1. \A i \in 1..Len(publishCh) : publishCh[i].n \in Nat
    BY <1>2, ElementNumbers
  <2> QED BY <1>2, <2>1 DEF OrderInv, Within
<1> HIDE DEF e
<1>4. publishCh' \in Seq(Numbered) /\ Within(publishCh', 0, sent')
  <2>1. Within(publishCh, 0, sent)
    BY DEF OrderInv
  <2> QED BY <1>1, <1>2, <1>3, <2>1, WithinAppend
<1>5. ASSUME NEW l \in Listeners
      PROVE  /\ last'[l] <= sent'
             /\ Within(listener'[l], last'[l], sent')
             /\ Within(publishCh', last'[l], sent')
             /\ Precedes(listener'[l], publishCh')
  <2>1. /\ last[l] \in Nat /\ last[l] <= sent /\ listener[l] \in Seq(Numbered)
        /\ Within(listener[l], last[l], sent) /\ Within(publishCh, last[l], sent)
        /\ Precedes(listener[l], publishCh)
    BY DEF OrderInv
  <2>2. last'[l] <= sent'
    BY <1>1, <1>2, <2>1
  <2>3. \A i \in 1..Len(listener[l]) : listener[l][i].n \in Nat /\ listener[l][i].n <= sent
    BY <2>1, ElementNumbers DEF Within
  <2>4. Within(listener'[l], last'[l], sent')
    <3>1. sent <= sent + 1 /\ sent + 1 \in Nat
      BY <1>2
    <3>2. Within(listener[l], last[l], sent + 1)
      BY <1>2, <2>1, <3>1, WithinWidens
    <3> QED BY <1>1, <3>2, Zenon
  <2>5. Within(publishCh', last'[l], sent')
    <3>1. last[l] < e.n /\ e.n <= sent + 1 /\ sent <= sent + 1 /\ sent + 1 \in Nat
      BY <1>2, <2>1
    <3>2. Within(Append(publishCh, e), last[l], sent + 1)
      BY <1>2, <1>3, <2>1, <3>1, WithinAppend
    <3> QED BY <1>1, <3>2
  <2>6. Precedes(listener'[l], publishCh')
    <3>1. \A i \in 1..Len(listener[l]) : listener[l][i].n < e.n
      BY <1>2, <2>3
    <3>2. Precedes(listener[l], Append(publishCh, e))
      BY <1>2, <2>1, <3>1, PrecedesAppend
    <3> QED BY <1>1, <3>2, Zenon
  <2> QED BY <2>2, <2>4, <2>5, <2>6
<1> QED BY <1>1, <1>2, <1>4, <1>5 DEF OrderInv

\* A message moves from publishCh to those listeners that have room.
LEMMA TakeKeepsOrder ==
    ASSUME OrderInv, TakeMessage
    PROVE  OrderInv'
<1> DEFINE e == Head(publishCh)
<1>1. /\ publishCh # <<>> /\ publishCh' = Tail(publishCh)
      /\ UNCHANGED <<sent, last, got>>
      /\ listener' = [l \in Listeners |-> IF l \in subs \ (Full \cup closed)
                                          THEN Append(listener[l], e)
                                          ELSE listener[l]]
  BY DEF TakeMessage
<1>2. /\ sent \in Nat /\ publishCh \in Seq(Numbered) /\ e \in Numbered
      /\ publishCh' \in Seq(Numbered) /\ listener \in [Listeners -> Seq(Numbered)]
  BY <1>1, TailShifts DEF OrderInv
<1>3. Within(publishCh', 0, sent')
  BY <1>1, <1>2, WithinTail DEF OrderInv
<1>4. Within(publishCh', e.n, sent)
  BY <1>1, <1>2, WithinTail DEF OrderInv
<1>5. listener' \in [Listeners -> Seq(Numbered)]
  BY <1>1, <1>2
<1>6. ASSUME NEW l \in Listeners
      PROVE  /\ last'[l] <= sent'
             /\ Within(listener'[l], last'[l], sent')
             /\ Within(publishCh', last'[l], sent')
             /\ Precedes(listener'[l], publishCh')
  <2>1. /\ last[l] \in Nat /\ last[l] <= sent /\ listener[l] \in Seq(Numbered)
        /\ Within(listener[l], last[l], sent) /\ Within(publishCh, last[l], sent)
        /\ Precedes(listener[l], publishCh)
    BY DEF OrderInv
  <2>2. Within(publishCh', last'[l], sent') /\ Precedes(listener[l], publishCh')
    BY <1>1, <1>2, <2>1, WithinTail, PrecedesTail
  <2>3. CASE listener'[l] = listener[l]
    BY <1>1, <2>1, <2>2, <2>3
  <2>4. CASE listener'[l] = Append(listener[l], e)
    <3>1. /\ last[l] < e.n /\ e.n <= sent /\ e.n \in Nat
          /\ \A i \in 1..Len(listener[l]) : listener[l][i].n < e.n
      BY <1>1, <1>2, <2>1, TailShifts DEF Within, Precedes, Numbered
    <3>2. Within(listener'[l], last'[l], sent')
      BY <1>1, <1>2, <2>1, <2>4, <3>1, WithinAppend
    <3>3. /\ Len(listener'[l]) = Len(listener[l]) + 1 /\ listener'[l][Len(listener[l]) + 1] = e
          /\ \A i \in 1..Len(listener[l]) : listener'[l][i] = listener[l][i]
          /\ Len(listener[l]) \in Nat
      BY <1>2, <2>1, <2>4
    <3>4. Precedes(listener'[l], publishCh')
      <4>1. \A j \in 1..Len(publishCh') : e.n < publishCh'[j].n
        BY <1>4 DEF Within
      <4> QED BY <2>2, <3>3, <4>1 DEF Precedes
    <3> QED BY <1>1, <2>1, <2>2, <3>2, <3>4
  <2> QED BY <1>1, <1>2, <2>3, <2>4
<1> QED BY <1>1, <1>2, <1>3, <1>5, <1>6 DEF OrderInv

\* What a listener receives is later than what it received before.
LEMMA ReceiveKeepsOrder ==
    ASSUME OrderInv, NEW k \in Listeners, Receive(k)
    PROVE  /\ OrderInv'
           /\ last[k] + 1 <= Head(listener[k]).n /\ Head(listener[k]).n <= sent
           /\ Head(listener[k]).n \in Nat
<1>1. /\ listener[k] # <<>>
      /\ last' = [last EXCEPT ![k] = Head(listener[k]).n]
      /\ got' = [got EXCEPT ![k] = @ + 1]
      /\ listener' = [listener EXCEPT ![k] = Tail(@)]
      /\ UNCHANGED <<sent, publishCh>>
  BY DEF Receive
<1>2. /\ sent \in Nat /\ publishCh \in Seq(Numbered) /\ Within(publishCh, 0, sent)
      /\ listener \in [Listeners -> Seq(Numbered)]
      /\ last \in [Listeners -> Nat] /\ got \in [Listeners -> Nat]
  BY DEF OrderInv
<1>3. \A l \in Listeners : /\ last[l] \in Nat /\ last[l] <= sent /\ listener[l] \in Seq(Numbered)
        /\ Within(listener[l], last[l], sent) /\ Within(publishCh, last[l], sent)
        /\ Precedes(listener[l], publishCh)
  BY DEF OrderInv
<1>4. /\ Head(listener[k]) \in Numbered /\ Head(listener[k]).n \in Nat
      /\ last[k] < Head(listener[k]).n /\ Head(listener[k]).n <= sent
      /\ Tail(listener[k]) \in Seq(Numbered)
  <2>1. /\ Head(listener[k]) = listener[k][1] /\ 1 \in 1..Len(listener[k])
        /\ Tail(listener[k]) \in Seq(Numbered)
    BY <1>1, <1>3, TailShifts
  <2>2. listener[k][1] \in Numbered /\ listener[k][1].n \in Nat
    BY <1>3, <2>1, ElementNumbers
  <2> QED BY <1>3, <2>1, <2>2 DEF Within
<1>5. last' \in [Listeners -> Nat] /\ got' \in [Listeners -> Nat]
      /\ listener' \in [Listeners -> Seq(Numbered)]
  BY <1>1, <1>2, <1>4
<1>6. ASSUME NEW l \in Listeners
      PROVE  /\ last'[l] <= sent'
             /\ Within(listener'[l], last'[l], sent')
             /\ Within(publishCh', last'[l], sent')
             /\ Precedes(listener'[l], publishCh')
  <2>1. CASE l = k
    <3>1. last'[l] = Head(listener[k]).n /\ listener'[l] = Tail(listener[k])
      BY <1>1, <1>2, <2>1
    <3>2. Within(Tail(listener[k]), Head(listener[k]).n, sent) /\ Precedes(Tail(listener[k]), publishCh)
      BY <1>1, <1>2, <1>3, WithinTail, PrecedesTail
    <3>3. Within(publishCh, Head(listener[k]).n, sent)
      <4>1. \A j \in 1..Len(publishCh) : Head(listener[k]).n < publishCh[j].n
        BY <1>1, <1>3, TailShifts DEF Precedes
      <4> QED BY <1>2, <4>1 DEF Within
    <3> QED BY <1>1, <1>4, <3>1, <3>2, <3>3
  <2>2. CASE l # k
    BY <1>1, <1>2, <1>3, <2>2
  <2> QED BY <2>1, <2>2
<1>7. OrderInv'
  BY <1>1, <1>2, <1>5, <1>6 DEF OrderInv
<1> QED BY <1>2, <1>3, <1>4, <1>7

\* The other steps touch no message.
LEMMA OtherStepsKeepOrder ==
    ASSUME OrderInv, UNCHANGED <<sent, publishCh, listener, last, got>>
    PROVE  OrderInv'
BY DEF OrderInv

LEMMA QuietSteps ==
    ASSUME \/ TakeSub \/ TakeUnsub \/ UNCHANGED vars
           \/ \E l \in Listeners : Subscribe(l) \/ Unsubscribe(l)
    PROVE  UNCHANGED <<sent, publishCh, listener, last, got>>
BY DEF TakeSub, TakeUnsub, Subscribe, Unsubscribe, vars

LEMMA OrderStep ==
    ASSUME OrderInv, [Next]_vars
    PROVE  OrderInv'
BY PublishKeepsOrder, TakeKeepsOrder, ReceiveKeepsOrder, OtherStepsKeepOrder, QuietSteps
   DEF Next, Serve

LEMMA OrderInit == Init => OrderInv
<1> SUFFICES ASSUME Init PROVE OrderInv
  OBVIOUS
<1>1. <<>> \in Seq(Numbered) /\ Len(<<>>) = 0
  OBVIOUS
<1> QED BY <1>1 DEF Init, OrderInv, Within, Precedes

\* Every step of the broker is one of the feed, or none.
LEMMA FeedStep ==
    ASSUME OrderInv, [Next]_vars
    PROVE  [Feed!Next]_(Feed!vars)
<1>1. CASE \E m \in Messages : Publish(m)
  BY <1>1 DEF Publish, Feed!Next, Feed!Publish
<1>2. CASE \E l \in Listeners : Receive(l)
  <2>1. PICK l \in Listeners : Receive(l)
    BY <1>2
  <2>2. /\ Head(listener[l]).n \in last[l] + 1..sent
        /\ last' = [last EXCEPT ![l] = Head(listener[l]).n]
        /\ got' = [got EXCEPT ![l] = @ + 1] /\ sent' = sent
    <3>1. sent \in Nat /\ last[l] \in Nat
      BY DEF OrderInv
    <3>2. Head(listener[l]).n \in last[l] + 1..sent
      BY <2>1, <3>1, ReceiveKeepsOrder
    <3> QED BY <2>1, <3>2 DEF Receive
  <2>3. Feed!Deliver(l)
    BY <2>2 DEF Feed!Deliver
  <2> QED BY <2>3 DEF Feed!Next
<1>3. CASE TakeMessage
  BY <1>3 DEF TakeMessage, Feed!vars
<1>4. CASE \/ TakeSub \/ TakeUnsub \/ UNCHANGED vars
           \/ \E l \in Listeners : Subscribe(l) \/ Unsubscribe(l)
  BY <1>4, QuietSteps DEF Feed!vars
<1> QED BY <1>1, <1>2, <1>3, <1>4 DEF Next, Serve

(* A subscriber may miss messages, but those it gets come in the order they *)
(* were published in and each once: the broker implements LossyFeed.        *)
THEOREM BrokerImplementsFeed == Spec => InOrder
<1>1. Init => Feed!Init
  BY DEF Init, Feed!Init
<1>2. OrderInv /\ [Next]_vars => OrderInv'
  BY OrderStep
<1>3. OrderInv /\ [Next]_vars => [Feed!Next]_(Feed!vars)
  BY FeedStep
<1> QED BY <1>1, <1>2, <1>3, OrderInit, PTL DEF Spec, InOrder, Feed!Spec

-----------------------------------------------------------------------------
\* A listener that is closed while it is, or may still become, a subscriber
\* is one whose end came first.
EarlyInv ==
    /\ subs \cup closed \subseteq made
    /\ \A i \in 1..Len(subCh) : subCh[i] \in made \ (subs \cup (closed \ left))
    /\ \A i \in 1..Len(unsubCh) : unsubCh[i] \in made
    /\ subCh \in Seq(Listeners) /\ Len(subCh) <= 1
    /\ unsubCh \in Seq(Listeners)
    /\ subs \cap closed \subseteq left
    /\ panicked => left # {}

LEMMA EarlyInit == Init => EarlyInv
<1>1. <<>> \in Seq(Listeners) /\ Len(<<>>) = 0
  OBVIOUS
<1> QED BY <1>1 DEF Init, EarlyInv

LEMMA OneAtMost ==
    ASSUME NEW n \in Nat \ {0}, n <= 1 PROVE n = 1
OBVIOUS

LEMMA EarlyStep ==
    ASSUME EarlyInv, [Next]_vars
    PROVE  EarlyInv'
<1> USE DEF EarlyInv
<1>1. ASSUME NEW l \in Listeners, Subscribe(l)
      PROVE  EarlyInv'
  <2>1. /\ l \notin made /\ made' = made \cup {l}
        /\ UNCHANGED <<unsubCh, subs, closed, left, panicked>>
    BY <1>1 DEF Subscribe
  <2>2. subCh' \in Seq(Listeners) /\ Len(subCh') = 1 /\ subCh'[1] = l
    BY <1>1 DEF Subscribe
  <2>3. \A i \in 1..Len(subCh') : i = 1
    BY <2>2
  <2> QED BY <2>1, <2>2, <2>3
<1>2. ASSUME NEW l \in Listeners, Unsubscribe(l)
      PROVE  EarlyInv'
  <2>1. /\ l \in made /\ UNCHANGED <<made, subCh, subs, closed, left, panicked>>
    BY <1>2 DEF Unsubscribe
  <2>2. unsubCh' = Append(unsubCh, l)
    BY <1>2 DEF Unsubscribe
  <2>3. /\ unsubCh' \in Seq(Listeners)
        /\ \A i \in 1..Len(unsubCh') : unsubCh'[i] \in made
    BY <2>1, <2>2
  <2> QED BY <2>1, <2>3
<1>3. CASE TakeSub
  <2>1. /\ subCh # <<>> /\ subs' = subs \cup {Head(subCh)} /\ subCh' = Tail(subCh)
        /\ UNCHANGED <<made, unsubCh, closed, left, panicked>>
    BY <1>3 DEF TakeSub
  <2>2. subCh \in Seq(Listeners) /\ Len(subCh) \in Nat \ {0} /\ Len(subCh) <= 1
    BY <2>1, EmptySeq
  <2>3. Head(subCh) = subCh[1] /\ 1 \in 1..Len(subCh)
    BY <2>2
  <2>4. subCh' \in Seq(Listeners) /\ Len(subCh') = 0
    <3>1. Tail(subCh) \in Seq(Listeners) /\ Len(Tail(subCh)) = Len(subCh) - 1
      BY <2>1, <2>2, HeadTailProperties
    <3>2. Len(subCh) = 1
      BY <2>2, OneAtMost
    <3> QED BY <2>1, <3>1, <3>2
  <2>5. Head(subCh) \in made \ (subs \cup (closed \ left))
    BY <2>3
  <2>6. \A i \in 1..Len(subCh') : FALSE
    BY <2>4
  <2> QED BY <2>1, <2>4, <2>5, <2>6
<1>4. CASE TakeUnsub
  <2> DEFINE l == Head(unsubCh)
  <2>1. /\ unsubCh # <<>> /\ subs' = subs \ {l} /\ closed' = closed \cup {l}
        /\ unsubCh' = Tail(unsubCh) /\ UNCHANGED <<made, subCh, panicked>>
        /\ left' = IF l \in subs THEN left ELSE left \cup {l}
    BY <1>4 DEF TakeUnsub
  <2>2. /\ l \in made /\ unsubCh' \in Seq(Listeners)
        /\ \A i \in 1..Len(unsubCh') : unsubCh'[i] \in made
    <3>1. /\ l = unsubCh[1] /\ 1 \in 1..Len(unsubCh)
          /\ Tail(unsubCh) \in Seq(Listeners)
          /\ \A i \in 1..Len(Tail(unsubCh)) : Tail(unsubCh)[i] = unsubCh[i + 1] /\ i + 1 \in 1..Len(unsubCh)
      BY <2>1
    <3> QED BY <2>1, <3>1
  <2> HIDE DEF l
  <2>3. \A i \in 1..Len(subCh') : subCh'[i] \in made' \ (subs' \cup (closed' \ left'))
    BY <2>1
  <2> QED BY <2>1, <2>2, <2>3
<1>5. CASE TakeMessage
  BY <1>5 DEF TakeMessage
<1>6. CASE (\E m \in Messages : Publish(m)) \/ (\E l \in Listeners : Receive(l)) \/ UNCHANGED vars
  <2>1. UNCHANGED <<subCh, unsubCh, subs, made, closed, left, panicked>>
    BY <1>6, Zenon DEF Publish, Receive, vars
  <2> QED BY <2>1
<1> QED BY <1>1, <1>2, <1>3, <1>4, <1>5, <1>6 DEF Next, Serve

(* A subscriber whose end was taken before its subscription is the only     *)
(* cause for which the broker sends on a closed channel.                    *)
THEOREM PanicsHold == Spec => []PanicsOnlyOnEarlyLeave
<1>1. Init => EarlyInv
  BY EarlyInit
<1>2. EarlyInv /\ [Next]_vars => EarlyInv'
  BY EarlyStep
<1>3. EarlyInv => PanicsOnlyOnEarlyLeave
  BY DEF EarlyInv, PanicsOnlyOnEarlyLeave
<1> QED BY <1>1, <1>2, <1>3, PTL DEF Spec

-----------------------------------------------------------------------------
\* No channel holds more than its capacity; one that was never subscribed
\* holds nothing, and only one that was given up is closed.
Room ==
    /\ Len(publishCh) <= PublishSize /\ Len(unsubCh) <= 1
    /\ ended \cup left \subseteq made /\ made \subseteq Listeners
    /\ closed \subseteq ended /\ \A i \in 1..Len(unsubCh) : unsubCh[i] \in ended
    /\ \A l \in Listeners : Len(listener[l]) <= ListenerSize /\ (l \notin made => listener[l] = <<>>)

KeptInv == OrderInv /\ EarlyInv /\ Room /\ panicked \in BOOLEAN

LEMMA KeptTypes == KeptInv => TypeOK
<1> SUFFICES ASSUME KeptInv PROVE TypeOK
  OBVIOUS
<1>1. panicked \in BOOLEAN
  BY Zenon DEF KeptInv
<1>2. OrderInv /\ EarlyInv /\ Room
  BY Zenon DEF KeptInv
<1>3. /\ sent \in Nat /\ publishCh \in Seq(Numbered) /\ listener \in [Listeners -> Seq(Numbered)]
      /\ last \in [Listeners -> Nat] /\ got \in [Listeners -> Nat]
  BY <1>2, Zenon DEF OrderInv
<1>4. /\ subCh \in Seq(Listeners) /\ Len(subCh) <= 1 /\ unsubCh \in Seq(Listeners)
      /\ subs \subseteq made /\ closed \subseteq made
  BY <1>2 DEF EarlyInv
<1>5. closed \subseteq Listeners /\ left \subseteq Listeners
  BY <1>2, <1>4 DEF Room
<1> QED BY <1>1, <1>2, <1>3, <1>4, <1>5, Zenon DEF Room, TypeOK

LEMMA KeptInit ==
    ASSUME PublishSize \in Nat, ListenerSize \in Nat, Init
    PROVE  KeptInv
<1>1. Len(<<>>) = 0
  OBVIOUS
<1>2. Room
  <2>1. \A l \in Listeners : listener[l] = <<>>
    BY DEF Init
  <2>2. 0 <= PublishSize /\ 0 <= ListenerSize /\ 0 <= 1 /\ 1..0 = {}
    OBVIOUS
  <2> QED BY <1>1, <2>1, <2>2, Zenon DEF Room, Init
<1>3. panicked \in BOOLEAN
  BY Zenon DEF Init
<1> QED BY <1>2, <1>3, OrderInit, EarlyInit, Zenon DEF KeptInv

LEMMA RoomStep ==
    ASSUME PublishSize \in Nat, ListenerSize \in Nat, KeptInv, [Next]_vars
    PROVE  Room'
<1>2. /\ publishCh \in Seq(Numbered) /\ listener \in [Listeners -> Seq(Numbered)]
      /\ unsubCh \in Seq(Listeners)
      /\ \A l \in Listeners : listener[l] \in Seq(Numbered) /\ Len(listener[l]) \in Nat
  BY DEF KeptInv, OrderInv, EarlyInv
<1> USE DEF Room
<1>0. Room /\ EarlyInv
  BY DEF KeptInv
<1>3. ASSUME NEW m \in Messages, Publish(m) PROVE Room'
  BY <1>0, <1>2, <1>3 DEF Publish
<1>4. ASSUME NEW l \in Listeners, Subscribe(l) PROVE Room'
  BY <1>0, <1>4 DEF Subscribe
<1>5. ASSUME NEW l \in Listeners, Unsubscribe(l) PROVE Room'
  BY <1>0, <1>2, <1>5 DEF Unsubscribe
<1>6. CASE TakeSub
  BY <1>0, <1>6 DEF TakeSub
<1>7. CASE TakeUnsub
  <2>1. /\ unsubCh # <<>> /\ unsubCh' = Tail(unsubCh) /\ left' \subseteq left \cup {Head(unsubCh)}
        /\ closed' = closed \cup {Head(unsubCh)} /\ UNCHANGED <<publishCh, ended, made, listener>>
    BY <1>7 DEF TakeUnsub
  <2>2. Head(unsubCh) = unsubCh[1] /\ 1 \in 1..Len(unsubCh) /\ Len(unsubCh') <= 1
    BY <1>0, <1>2, <2>1
  <2>3. Head(unsubCh) \in made /\ Head(unsubCh) \in ended
    BY <1>0, <2>2 DEF EarlyInv
  <2>4. \A i \in 1..Len(unsubCh') : unsubCh'[i] \in ended
    BY <1>0, <1>2, <2>1
  <2> QED BY <1>0, <2>1, <2>2, <2>3, <2>4
<1>8. CASE TakeMessage
  <2>1. /\ publishCh # <<>> /\ publishCh' = Tail(publishCh)
        /\ UNCHANGED <<unsubCh, ended, made, closed, left>>
    BY <1>8, Zenon DEF TakeMessage
  <2>2. Len(publishCh') <= PublishSize
    BY <1>0, <1>2, <2>1
  <2>3. ASSUME NEW l \in Listeners
        PROVE  Len(listener'[l]) <= ListenerSize /\ (l \notin made => listener'[l] = <<>>)
    <3>1. listener'[l] = IF l \in subs \ (Full \cup closed) THEN Append(listener[l], Head(publishCh))
                         ELSE listener[l]
      BY <1>8 DEF TakeMessage
    <3>2. CASE l \in subs \ (Full \cup closed)
      <4>1. listener'[l] = Append(listener[l], Head(publishCh)) /\ l \in made
            /\ Len(listener[l]) # ListenerSize
        BY <1>0, <3>1, <3>2 DEF Full, EarlyInv
      <4> QED BY <1>0, <1>2, <4>1
    <3> QED BY <1>0, <3>1, <3>2
  <2> QED BY <1>0, <2>1, <2>2, <2>3
<1>9. ASSUME NEW k \in Listeners, Receive(k) PROVE Room'
  <2>1. /\ listener[k] # <<>> /\ listener' = [listener EXCEPT ![k] = Tail(@)]
        /\ UNCHANGED <<publishCh, unsubCh, ended, made, closed, left>>
    BY <1>9 DEF Receive
  <2>2. ASSUME NEW l \in Listeners
        PROVE  Len(listener'[l]) <= ListenerSize /\ (l \notin made => listener'[l] = <<>>)
    BY <1>0, <1>2, <2>1
  <2> QED BY <1>0, <2>1, <2>2
<1>10. CASE UNCHANGED vars
  BY <1>0, <1>10 DEF vars
<1> QED BY <1>3, <1>4, <1>5, <1>6, <1>7, <1>8, <1>9, <1>10, Zenon DEF Next, Serve

LEMMA KeptStep ==
    ASSUME PublishSize \in Nat, ListenerSize \in Nat, KeptInv, [Next]_vars
    PROVE  KeptInv'
<1>1. OrderInv' /\ EarlyInv' /\ Room'
  BY OrderStep, EarlyStep, RoomStep DEF KeptInv
<1>2. panicked' \in BOOLEAN
  <2>1. panicked' = panicked \/ panicked' = (subs \cap closed # {})
    BY Zenon DEF Next, Serve, TakeSub, TakeUnsub, TakeMessage, Publish, Subscribe, Unsubscribe, Receive, vars
  <2>2. panicked \in BOOLEAN
    BY Zenon DEF KeptInv
  <2> QED BY <2>1, <2>2, Zenon
<1> QED BY <1>1, <1>2, Zenon DEF KeptInv
=============================================================================
