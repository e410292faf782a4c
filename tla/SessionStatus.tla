---------------------------- MODULE SessionStatus ----------------------------
(***************************************************************************)
(* What the page tells of the session: TunnelClient's status and expiry,   *)
(* the "session" events of the sniffer's stream that carry them, the       *)
(* page's sessionDetails and its retries of a stream that broke, and the   *)
(* cards of the dashboard, which is there only while no record is          *)
(* selected.                                                               *)
(***************************************************************************)
EXTENDS TunnelClient, Sequences, FiniteSets

CONSTANTS
    PERIOD,         \* the interval of the expiry card, one minute
    WireSize,       \* bound: events on the way to the page
    MaxErrors       \* bound: how often the stream itself breaks

ASSUME PageAssumption == /\ PERIOD \in Nat \ {0} /\ WireSize \in Nat \ {0}
                         /\ MaxErrors \in Nat

VARIABLES
    conn,           \* the stream's handler: "connecting", "gap", "listening"
    dirty,          \* its status listener holds a message
    wire,           \* the "session" events on their way
    errors,         \* how often the stream has broken
    esClosed,       \* the page has closed its EventSource
    TenSecondErrorThreshold,
    sessionDetails, \* the page's
    missed,         \* history: a status was published in the stream's gap
    dateParses,     \* the browser knows the zone an expiry is written in
    mounted,        \* the dashboard is shown
    sessionStatus, expireDate, expireRemaining, expireInterval, \* its data
    intervals       \* the timers that run

streamVars == <<conn, dirty, wire, errors, esClosed, TenSecondErrorThreshold, missed>>
cardVars == <<mounted, sessionStatus, expireDate, expireRemaining, expireInterval, intervals>>
pageVars == <<streamVars, sessionDetails, dateParses, cardVars>>
vars == <<tunnelVars, pageVars>>

\* expireAt is a time, 0 for "never", -1 where there is none.
NoDetails == [status |-> "none", expireAt |-> -1]

\* NewSessionDetails
Details == [status |-> status, expireAt |-> expireAt]

IntervalIds == 1..3

TypeOK ==
    /\ TunnelTypeOK
    /\ conn \in {"connecting", "gap", "listening"}
    /\ dirty \in BOOLEAN /\ Len(wire) <= WireSize
    /\ errors \in 0..MaxErrors /\ esClosed \in BOOLEAN
    /\ TenSecondErrorThreshold \in 0..2
    /\ sessionDetails \in [status : Status \cup {"none"}, expireAt : Int]
    /\ missed \in BOOLEAN /\ dateParses \in BOOLEAN /\ mounted \in BOOLEAN
    /\ sessionStatus \in Status \cup {"none"}
    /\ expireDate \in {"none", "-", "never", "Expired", "date"}
    /\ \A n \in expireRemaining : n >= 0
    /\ expireInterval \subseteq IntervalIds
    /\ \A i \in intervals : i.id \in IntervalIds

-----------------------------------------------------------------------------
(* The expiry card.  expireRemaining and expireInterval are sets of at most *)
(* one element, {} for null.                                                *)

\* Mutant: the timer goes on when the component has let go of it.
WithoutIntervalNever(is, handle) == is

\* clearInterval
WithoutInterval(is, handle) == {i \in is : i.id \notin handle}

\* setInterval
StartInterval(is, expireTime) ==
    LET id == CHOOSE id \in IntervalIds : \A i \in is : i.id # id
    IN  [id |-> id, due |-> now + PERIOD, expireTime |-> expireTime]

HasExpired(e) == e < now

MinutesLeft(e) == IF e > now THEN e - now ELSE 0

\* setExpireAt, over the details d, where the timers is run.
SetExpireAt(d, is) ==
    LET left == WithoutInterval(is, expireInterval)
        Shows(date) ==
            /\ expireDate' = date
            /\ expireRemaining' = {} /\ expireInterval' = {} /\ intervals' = left
        counts == d.expireAt > 0 /\ dateParses /\ ~HasExpired(d.expireAt)
    IN  \/ d.expireAt = 0 /\ Shows("never")
        \/ (d.expireAt < 0 \/ (d.expireAt > 0 /\ ~dateParses)) /\ Shows("-")
        \/ d.expireAt > 0 /\ dateParses /\ HasExpired(d.expireAt) /\ Shows("Expired")
        \/ /\ counts
           /\ LET i == StartInterval(left, d.expireAt)
              IN  /\ expireDate' = "date"
                  /\ expireRemaining' = {MinutesLeft(d.expireAt)}
                  /\ expireInterval' = {i.id}
                  /\ intervals' = left \cup {i}

\* setSessionStatus
SetSessionStatus(d) ==
    sessionStatus' = IF d.status = "none" THEN "CONNECTING" ELSE d.status

\* loadSessionDetails
LoadSessionDetails(d) == SetSessionStatus(d) /\ SetExpireAt(d, intervals) /\ UNCHANGED mounted

\* Mutant: only another object is a change of the details.
DetailsWatchedShallow(d, replaced) == replaced

\* The dashboard watches the details and what is in them.
DetailsWatched(d, replaced) == replaced \/ d # sessionDetails

\* The page's details become d, as another object or in place.
SetDetails(d, replaced) ==
    /\ sessionDetails' = d
    /\ IF mounted /\ DetailsWatched(d, replaced)
       THEN LoadSessionDetails(d)
       ELSE UNCHANGED cardVars

\* A record is deselected: the dashboard is made anew.
Mount ==
    /\ ~mounted
    /\ mounted' = TRUE
    /\ SetSessionStatus(sessionDetails)
    /\ SetExpireAt(sessionDetails, intervals)
    /\ UNCHANGED <<tunnelVars, streamVars, sessionDetails, dateParses>>

\* beforeUnmount.  What the component held goes with it.
Unmount ==
    /\ mounted
    /\ mounted' = FALSE
    /\ intervals' = WithoutInterval(intervals, expireInterval)
    /\ expireInterval' = {} /\ expireRemaining' = {}
    /\ expireDate' = "none" /\ sessionStatus' = "none"
    /\ UNCHANGED <<tunnelVars, streamVars, sessionDetails, dateParses>>

\* setInterval calls back every PERIOD.
Again(i) == [id |-> i.id, due |-> now + PERIOD, expireTime |-> i.expireTime]

\* The callback of the interval i: where no time is left, setExpireAt decides.
IntervalFires(i) ==
    /\ i.due <= now
    /\ IF MinutesLeft(i.expireTime) = 0
       THEN SetExpireAt(sessionDetails, (intervals \ {i}) \cup {Again(i)})
       ELSE /\ expireRemaining' = {MinutesLeft(i.expireTime)}
            /\ intervals' = (intervals \ {i}) \cup {Again(i)}
            /\ UNCHANGED <<expireDate, expireInterval>>
    /\ UNCHANGED <<tunnelVars, streamVars, sessionDetails, dateParses, mounted, sessionStatus>>

-----------------------------------------------------------------------------
(* The stream.                                                              *)

\* connHandler, until it has flushed the first events: a page that comes
\* before there is a session waits.
SendSession ==
    /\ conn = "connecting" /\ ~esClosed /\ pc # "exited"
    /\ hasSession
    /\ conn' = "gap"
    /\ wire' = <<Details>>
    /\ UNCHANGED <<tunnelVars, dirty, errors, esClosed, TenSecondErrorThreshold, missed,
                   sessionDetails, dateParses, cardVars>>

SubscribeStatus ==
    /\ conn = "gap"
    /\ conn' = "listening"
    /\ UNCHANGED <<tunnelVars, dirty, wire, errors, esClosed, TenSecondErrorThreshold, missed,
                   sessionDetails, dateParses, cardVars>>

\* StatusBroker hands the message to whoever has subscribed.
HandStatus ==
    /\ published
    /\ published' = FALSE
    /\ dirty' = (conn = "listening" \/ dirty)
    /\ missed' = (conn = "gap" \/ missed)
    /\ UNCHANGED <<worldVars, loopVars, hasSession, expireAt, status,
                   conn, wire, errors, esClosed, TenSecondErrorThreshold,
                   sessionDetails, dateParses, cardVars>>

\* The goroutine that ranges over statusListener: a message says only that
\* something has changed, and the event tells what is so by now.
ForwardStatus ==
    /\ conn = "listening" /\ dirty /\ Len(wire) < WireSize
    /\ dirty' = FALSE /\ missed' = FALSE
    /\ wire' = Append(wire, Details)
    /\ UNCHANGED <<tunnelVars, conn, errors, esClosed, TenSecondErrorThreshold,
                   sessionDetails, dateParses, cardVars>>

\* The "session" event's listener.
OnSession ==
    /\ wire # <<>>
    /\ SetDetails(Head(wire), TRUE)
    /\ wire' = Tail(wire)
    /\ UNCHANGED <<tunnelVars, conn, dirty, errors, esClosed, TenSecondErrorThreshold,
                   missed, dateParses>>

\* Mutant: the threshold is not looked at.
OnErrorCounting ==
    /\ TenSecondErrorThreshold' = TenSecondErrorThreshold - 1
    /\ UNCHANGED <<esClosed, sessionDetails, cardVars>>

\* es.onerror: the first two errors within ten seconds are left to the
\* EventSource, which connects again.
OnError ==
    \/ /\ TenSecondErrorThreshold > 0
       /\ TenSecondErrorThreshold' = TenSecondErrorThreshold - 1
       /\ UNCHANGED <<esClosed, sessionDetails, cardVars>>
    \/ /\ TenSecondErrorThreshold = 0
       /\ esClosed' = TRUE
       /\ SetDetails([sessionDetails EXCEPT !.status = "DISCONNECTED"], FALSE)
       /\ UNCHANGED TenSecondErrorThreshold

\* Ten seconds after an error.
RestoreThreshold ==
    /\ TenSecondErrorThreshold < 2
    /\ TenSecondErrorThreshold' = TenSecondErrorThreshold + 1
    /\ UNCHANGED <<tunnelVars, conn, dirty, wire, errors, esClosed, missed,
                   sessionDetails, dateParses, cardVars>>

Disconnected == conn' = "connecting" /\ dirty' = FALSE /\ wire' = <<>> /\ missed' = FALSE

StreamBreaks ==
    /\ ~esClosed /\ pc # "exited" /\ errors < MaxErrors
    /\ errors' = errors + 1
    /\ Disconnected /\ OnError
    /\ UNCHANGED <<tunnelVars, dateParses>>

\* There is no program to connect to.
StreamFails ==
    /\ ~esClosed /\ pc = "exited"
    /\ Disconnected /\ OnError
    /\ UNCHANGED <<tunnelVars, errors, dateParses>>

-----------------------------------------------------------------------------
\* Timers fire when they are due.  While no session expires nobody looks at
\* the clock.
Tick ==
    /\ now < MaxTime /\ (connectionTimeout # 0 \/ expireAt # 0)
    /\ \A i \in intervals : i.due > now
    /\ now' = now + 1
    /\ UNCHANGED <<maxReconnectAttempts, serverVars, breaks, loopVars, sessionVars, pageVars>>

Init ==
    /\ TunnelInit
    /\ conn = "connecting" /\ dirty = FALSE /\ wire = <<>>
    /\ errors = 0 /\ esClosed = FALSE /\ TenSecondErrorThreshold = 2
    /\ missed = FALSE
    /\ dateParses \in BOOLEAN
    /\ sessionDetails = NoDetails
    /\ mounted = TRUE
    /\ sessionStatus = "CONNECTING" /\ expireDate = "-"
    /\ expireRemaining = {} /\ expireInterval = {} /\ intervals = {}

StreamStep == SendSession \/ SubscribeStatus \/ HandStatus \/ ForwardStatus \/ OnSession

Next ==
    \/ (TunnelStep \/ WorldStep) /\ UNCHANGED pageVars
    \/ StreamStep
    \/ StreamBreaks \/ StreamFails \/ RestoreThreshold
    \/ Mount \/ Unmount
    \/ \E i \in intervals : IntervalFires(i)
    \/ Tick

\* A program that runs goes on: the loop, the stream's goroutines, the
\* network between them and the page.
Fairness ==
    /\ WF_vars(LoopStep /\ UNCHANGED pageVars)
    /\ WF_vars(TunnelBreaks /\ ~up /\ UNCHANGED pageVars)
    /\ WF_vars(StreamStep)

Spec == Init /\ [][Next]_vars /\ Fairness

-----------------------------------------------------------------------------
\* A page whose stream is quiet shows the status and the expiry the client
\* has, unless the last change was published between the first "session"
\* event of its stream and the subscription to StatusBroker.  A session that
\* has been set and not yet published is on its way.
PageFollows ==
    conn = "listening" /\ ~dirty /\ ~published /\ wire = <<>> /\ ~missed
    /\ pc # "session" /\ ~esClosed => sessionDetails = Details

\* The status card follows the page's details through every event, every
\* selection and the page's own change of them when it closes the stream.
StatusShown ==
    sessionStatus = IF sessionDetails.status = "none" THEN "CONNECTING" ELSE sessionDetails.status

\* The expiry card tells a session that is over from one that is not: never
\* too early, and at the latest one PERIOD after its time; until then it
\* counts down, no further behind than one PERIOD.
ExpiryShown ==
    dateParses /\ sessionDetails.expireAt > 0 =>
        LET e == sessionDetails.expireAt
        IN  /\ expireDate = "Expired" => e < now
            /\ e + PERIOD < now => expireDate = "Expired"
            /\ e > now => \E n \in expireRemaining : n - (e - now) \in 0..PERIOD

\* The cards of the dashboard say what the page knows of the session: its
\* status, and whether its time is over.
CardsCurrent == mounted => StatusShown /\ ExpiryShown

\* At most one timer runs, it counts to the expiry the page knows, and none
\* outlives its dashboard.
OneInterval ==
    /\ Cardinality(intervals) <= 1
    /\ {i.id : i \in intervals} = expireInterval
    /\ ~mounted => intervals = {}
    /\ \A i \in intervals : i.expireTime = sessionDetails.expireAt

\* The loop comes to rest in a tunnel or at its end, and the page with it: it
\* has heard all there is, or there is nobody to hear it from.
AtRest ==
    /\ pc \in {"tunnel", "sniffing", "exited"}
    /\ \/ pc = "exited" \/ esClosed
       \/ conn = "listening" /\ ~dirty /\ ~published /\ wire = <<>>

Settles == <>[]AtRest
=============================================================================
