---------------------------- MODULE TunnelClient ----------------------------
(***************************************************************************)
(* The client's connection loop (startConnectionWithServer, connectClient, *)
(* isRetriable, onTunnelStart), the session it keeps over reconnections    *)
(* and the moment that session expires, which the server computes.         *)
(*                                                                         *)
(* The loop dials, is given a session, uses the tunnel until it breaks and *)
(* then tries again, a limited number of times; every attempt that failed  *)
(* and every tunnel that broke leads back to the head of the loop.         *)
(***************************************************************************)
EXTENDS Integers

CONSTANTS
    Limits,         \* the values of -reconnect-attempts
    Timeouts,       \* the server's limits of a tunnel's time, 0 for none
    MaxTime,        \* bound: the clock
    MaxBreaks       \* bound: how often the tunnel breaks or the server fails

ASSUME LimitsAssumption ==
    /\ Limits \subseteq Int /\ Timeouts \subseteq Nat
    /\ MaxTime \in Nat \ {0} /\ MaxBreaks \in Nat

VARIABLES
    maxReconnectAttempts, \* config.MaxReconnectAttempts
    connectionTimeout,    \* the server's TunnelConnectionTimeout
    serverTls,      \* the server's tunnel port speaks TLS
    up,             \* the server can be reached
    breaks,         \* how often that, or a tunnel, has broken
    now,            \* the time
    pc,             \* where the loop is
    attempt, err,   \* its variables
    enableTls,      \* config.EnableTLSTunnel
    hasSession,     \* HasSession()
    expireAt,       \* session.ExpireAt, 0 for never
    status,         \* session.Status
    published,      \* StatusBroker holds a message nobody has been handed
    dials           \* history: attempts since the last session

serverVars == <<connectionTimeout, serverTls, up>>
worldVars == <<maxReconnectAttempts, serverVars, breaks, now>>
loopVars == <<pc, attempt, err, enableTls, dials>>
sessionVars == <<hasSession, expireAt, status, published>>
tunnelVars == <<worldVars, loopVars, sessionVars>>

Status == {"CONNECTING", "CONNECTED", "RECONNECTING", "DISCONNECTED"}
Errors == {"none", "unavailable", "internal", "refused", "expired"}

TunnelTypeOK ==
    /\ maxReconnectAttempts \in Limits /\ connectionTimeout \in Timeouts
    /\ serverTls \in BOOLEAN /\ up \in BOOLEAN
    /\ breaks \in 0..MaxBreaks /\ now \in 1..MaxTime
    /\ pc \in {"head", "wait", "dial", "open", "session", "tunnel", "ended",
              "sniffing", "exited"}
    /\ attempt \in Int /\ err \in Errors
    /\ enableTls \in BOOLEAN /\ hasSession \in BOOLEAN
    /\ expireAt \in Nat /\ status \in Status /\ published \in BOOLEAN
    /\ dials \in Nat

\* 0 stands for "never" in an ExpireAt, so the clock starts at 1.
TunnelInit ==
    /\ maxReconnectAttempts \in Limits
    /\ connectionTimeout \in Timeouts
    /\ serverTls \in BOOLEAN
    /\ up = TRUE
    /\ breaks = 0
    /\ now = 1
    /\ pc = "head"
    /\ attempt = -1
    /\ err = "none"
    /\ enableTls = TRUE
    /\ hasSession = FALSE
    /\ expireAt = 0
    /\ status = "CONNECTING"
    /\ published = FALSE
    /\ dials = 0

-----------------------------------------------------------------------------
isRecoverable == err \in {"unavailable", "internal"}

\* Mutant: the attempt that is the last one counts as one that may be retried.
isRetriableLate == isRecoverable /\ hasSession /\ attempt <= maxReconnectAttempts

\* isRetriable(err, attempt >= config.MaxReconnectAttempts)
isRetriable == isRecoverable /\ hasSession /\ attempt < maxReconnectAttempts

\* Mutant: the status is changed and nobody is told.
ChangeStatusOnly(s) == status' = s /\ UNCHANGED published

ChangeStatusAndPublish(s) == status' = s /\ published' = TRUE

\* The loop's condition fails, which it can only for a negative limit: the
\* status is left as it is.
LoopEnds ==
    /\ pc = "head" /\ attempt > maxReconnectAttempts
    /\ pc' = "ended"
    /\ UNCHANGED <<attempt, err, enableTls, dials, sessionVars>>

\* The first attempt.
FirstAttempt ==
    /\ pc = "head" /\ attempt <= maxReconnectAttempts
    /\ err = "none"
    /\ ChangeStatusAndPublish("CONNECTING")
    /\ dials' = dials + 1
    /\ pc' = "dial"
    /\ UNCHANGED <<attempt, err, enableTls, hasSession, expireAt>>

\* Mutant: an expired session ends the loop without a word.
GiveUpSilently ==
    /\ pc = "head" /\ attempt <= maxReconnectAttempts
    /\ err # "none" /\ ~isRetriable
    /\ IF err = "expired" THEN UNCHANGED <<status, published>> ELSE ChangeStatusAndPublish("DISCONNECTED")
    /\ pc' = "ended"
    /\ UNCHANGED <<attempt, err, enableTls, dials, hasSession, expireAt>>

GiveUp ==
    /\ pc = "head" /\ attempt <= maxReconnectAttempts
    /\ err # "none" /\ ~isRetriable
    /\ ChangeStatusAndPublish("DISCONNECTED")
    /\ pc' = "ended"
    /\ UNCHANGED <<attempt, err, enableTls, dials, hasSession, expireAt>>

\* isRetriable itself waits for the reconnection interval, and the status is
\* published only when it has returned.
StartWaiting ==
    /\ pc = "head" /\ attempt <= maxReconnectAttempts
    /\ err # "none" /\ isRetriable
    /\ pc' = "wait"
    /\ UNCHANGED <<attempt, err, enableTls, dials, sessionVars>>

Waited ==
    /\ pc = "wait"
    /\ ChangeStatusAndPublish("RECONNECTING")
    /\ dials' = dials + 1
    /\ pc' = "dial"
    /\ UNCHANGED <<attempt, err, enableTls, hasSession, expireAt>>

\* The error leads to the next turn of the loop.
Fails(e) ==
    /\ err' = e
    /\ attempt' = attempt + 1
    /\ pc' = "head"

\* TestConn answers only over the transport the server speaks.
Reachable == up /\ enableTls = serverTls

\* Mutant: each of the two transports falls back on the other.
DialTogglesTls ==
    /\ pc = "dial"
    /\ \/ Reachable /\ pc' = "open" /\ err' = "none" /\ UNCHANGED enableTls
       \/ ~Reachable /\ enableTls' = ~enableTls /\ UNCHANGED <<pc, err>>
    /\ UNCHANGED <<attempt, dials, sessionVars>>

\* connectClient: where TLS fails, it is tried without, from now on.
Dial ==
    /\ pc = "dial"
    /\ \/ Reachable /\ pc' = "open" /\ err' = "none" /\ UNCHANGED <<attempt, enableTls>>
       \/ ~Reachable /\ enableTls /\ enableTls' = FALSE /\ UNCHANGED <<pc, attempt, err>>
       \/ ~Reachable /\ ~enableTls /\ Fails("unavailable") /\ UNCHANGED enableTls
    /\ UNCHANGED <<dials, sessionVars>>

\* Mutant: the handshake has no ExpireAt.
HandshakeExpireAtNever == 0

\* GetHandshake sends the time the session expires at.
HandshakeExpireAt == expireAt

\* Tunnel, on the server: its own limit, counted from now, unless the
\* handshake tells an earlier one.
ServerExpireAt ==
    LET own == now + connectionTimeout
        theirs == HandshakeExpireAt
    IN  IF connectionTimeout # 0 /\ (theirs = 0 \/ own <= theirs) THEN own ELSE theirs

\* onTunnelStart until SetSession.  The status of the new session is the
\* first of its values, CONNECTING.
OpenTunnel ==
    /\ pc = "open"
    /\ \/ /\ up
          /\ hasSession' = TRUE
          /\ expireAt' = ServerExpireAt
          /\ status' = "CONNECTING"
          /\ dials' = 0
          /\ pc' = "session"
          /\ UNCHANGED <<attempt, err, published>>
       \/ ~up /\ Fails("unavailable") /\ UNCHANGED <<dials, sessionVars>>
       \/ up /\ Fails("refused") /\ UNCHANGED <<dials, sessionVars>>
    /\ UNCHANGED enableTls

Connected ==
    /\ pc = "session"
    /\ ChangeStatusAndPublish("CONNECTED")
    /\ pc' = "tunnel"
    /\ UNCHANGED <<attempt, err, enableTls, dials, hasSession, expireAt>>

\* The tunnel breaks: attempt is set to -1, and then counted.
Broken(e) ==
    /\ pc = "tunnel"
    /\ err' = e
    /\ attempt' = 0
    /\ pc' = "head"
    /\ UNCHANGED <<enableTls, dials, sessionVars>>

\* Start, after the loop: without a session, or where the configuration does
\* not want it, the program does not stay to show its records.
SniffOnlyOrExit ==
    /\ pc = "ended"
    /\ \/ hasSession /\ pc' = "sniffing"
       \/ pc' = "exited"
    /\ UNCHANGED <<attempt, err, enableTls, dials, sessionVars>>

LoopStep ==
    /\ \/ LoopEnds \/ FirstAttempt \/ GiveUp \/ StartWaiting
       \/ Waited \/ Dial \/ OpenTunnel \/ Connected \/ SniffOnlyOrExit
    /\ UNCHANGED worldVars

\* The server is gone, or has reset the stream.
TunnelBreaks ==
    /\ \/ ~up /\ Broken("unavailable") /\ UNCHANGED breaks
       \/ up /\ breaks < MaxBreaks /\ breaks' = breaks + 1 /\ Broken("internal")
    /\ UNCHANGED <<maxReconnectAttempts, serverVars, now>>

\* The deadline of the tunnel's context on the server.
Expires ==
    /\ expireAt # 0 /\ now >= expireAt
    /\ Broken("expired")
    /\ UNCHANGED worldVars

ServerGoes ==
    /\ up /\ breaks < MaxBreaks
    /\ up' = FALSE /\ breaks' = breaks + 1
    /\ UNCHANGED <<maxReconnectAttempts, connectionTimeout, serverTls, now, loopVars, sessionVars>>

\* The server that returns may have been configured anew.
ServerReturns ==
    /\ ~up
    /\ up' = TRUE
    /\ connectionTimeout' \in Timeouts
    /\ serverTls' \in BOOLEAN
    /\ UNCHANGED <<maxReconnectAttempts, breaks, now, loopVars, sessionVars>>

TunnelStep == LoopStep \/ TunnelBreaks \/ Expires

WorldStep == ServerGoes \/ ServerReturns

-----------------------------------------------------------------------------
LoopOver == pc \in {"ended", "sniffing", "exited"}

\* What is published tells where the loop is.  A tunnel that broke is told of
\* only after the interval: until then the status stays CONNECTED.  A negative
\* limit ends the loop without a word.
StatusTellsPhase ==
    /\ pc = "tunnel" => status = "CONNECTED"
    /\ status = "CONNECTED" => pc \in {"tunnel", "head", "wait"} \/ maxReconnectAttempts < 0
    /\ status = "RECONNECTING" => hasSession /\ pc # "tunnel"
    /\ status = "DISCONNECTED" => LoopOver
    /\ LoopOver => status = "DISCONNECTED" \/ maxReconnectAttempts < 0

\* After a tunnel that broke the client dials again at most as often as it is
\* told to, and it gives up on an error that may pass only when it has.  Of 0,
\* which docs/client.md:81 and the flag's own help call infinite, this is not
\* said: isRetriable then gives up without a single attempt.
DialsAsOftenAsTold ==
    hasSession /\ maxReconnectAttempts > 0 =>
        /\ dials <= maxReconnectAttempts
        /\ LoopOver /\ isRecoverable => dials = maxReconnectAttempts

\* No reconnection, to the same server or to one that has forgotten the
\* session, puts off the moment a session expires.
ExpiryNeverExtended ==
    [][expireAt # 0 => expireAt' # 0 /\ expireAt' <= expireAt]_expireAt
=============================================================================
