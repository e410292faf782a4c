-------------------------- MODULE SessionRegistry --------------------------
(***************************************************************************)
(* The server's session registry: SessionManager, the idle timer of every  *)
(* Session, the Tunnel RPC handlers that attach to sessions and detach     *)
(* from them, and the goroutine of every registration that deregisters the *)
(* session once its idle timer runs out.                                   *)
(*                                                                         *)
(* One handler is one call of the Tunnel RPC.  A handler registers at most *)
(* one session, so the Session object a handler makes is named after the   *)
(* handler, and so is the goroutine its DeregisterOnTimeout starts.        *)
(*                                                                         *)
(* Abstractions: a bearer is the client key it hashes (GenerateBearer is   *)
(* injective), and the random hashes of generateClientId are never drawn   *)
(* twice.  A timer is armed or stopped: how long it runs is left out.      *)
(***************************************************************************)
EXTENDS Naturals, FiniteSets

CONSTANTS
    Tunnels,    \* calls of the Tunnel RPC
    Clients,    \* client keys, and the bearers generated from them
    Names,      \* client ids asked for on the command line
    HashIds,    \* client ids made with a random hash
    OtherSeed,  \* a bearer generated under another server's seed
    None        \* nil, the empty id and the empty bearer

ClientIds == Names \cup HashIds
Bearers == Clients \cup {OtherSeed}

ASSUME ConstantsAssumption ==
    /\ Names \cap HashIds = {}
    /\ None \notin Tunnels \cup Clients \cup ClientIds
    /\ OtherSeed \notin Clients \cup {None}

VARIABLES
    clients,        \* SessionManager.clients: the session of every client id
    sessionId,      \* Session.Id, settled before the session is made
    bearer,         \* Session.Bearer
    isIdle,         \* Session.IsIdle
    timer,          \* Session.IdleTimeout
    recordChannel,  \* Session.RecordChannel
    pc, hs, session,            \* handlers: step, handshake, session in use
    watch, watched, found,      \* deregistering goroutines: step, client,
                                \* and what Deregister's Get returned
    crashed         \* a goroutine panicked: the process is gone

registry == <<clients>>
identity == <<sessionId, bearer>>
idleTimer == <<isIdle, timer>>
handler == <<pc, hs, session>>
watcher == <<watch, watched, found>>
vars == <<registry, identity, idleTimer, recordChannel, handler, watcher, crashed>>

NoHandshake == [clientId |-> None, key |-> None, bearer |-> None]

HandlerSteps == {"start", "recover", "generate", "put", "watch", "busy", "stop",
                 "attached", "arm", "done"}
WatchSteps == {"none", "waiting", "fired", "close", "remove", "done"}

\* Every variable has its type, and a session that was made has an id and a
\* bearer (NewSession).
TypeOK ==
    /\ clients \in [ClientIds -> Tunnels \cup {None}]
    /\ sessionId \in [Tunnels -> ClientIds \cup {None}]
    /\ bearer \in [Tunnels -> Clients \cup {None}]
    /\ isIdle \in [Tunnels -> BOOLEAN]
    /\ timer \in [Tunnels -> {"stopped", "armed"}]
    /\ recordChannel \in [Tunnels -> {"unmade", "open", "closed"}]
    /\ pc \in [Tunnels -> HandlerSteps]
    /\ hs \in [Tunnels -> [clientId : ClientIds \cup {None},
                           key : Clients \cup {None},
                           bearer : Bearers \cup {None}]]
    /\ session \in [Tunnels -> Tunnels \cup {None}]
    /\ watch \in [Tunnels -> WatchSteps]
    /\ watched \in [Tunnels -> Tunnels \cup {None}]
    /\ found \in [Tunnels -> Tunnels \cup {None}]
    /\ crashed \in BOOLEAN
    /\ \A s \in Tunnels :
          recordChannel[s] # "unmade" => sessionId[s] \in ClientIds /\ bearer[s] \in Clients

Init ==
    /\ clients = [id \in ClientIds |-> None]
    /\ sessionId = [s \in Tunnels |-> None]
    /\ bearer = [s \in Tunnels |-> None]
    /\ isIdle = [s \in Tunnels |-> FALSE]
    /\ timer = [s \in Tunnels |-> "stopped"]
    /\ recordChannel = [s \in Tunnels |-> "unmade"]
    /\ pc = [t \in Tunnels |-> "start"]
    /\ hs = [t \in Tunnels |-> NoHandshake]
    /\ session = [t \in Tunnels |-> None]
    /\ watch = [t \in Tunnels |-> "none"]
    /\ watched = [t \in Tunnels |-> None]
    /\ found = [t \in Tunnels |-> None]
    /\ crashed = FALSE

Step(t, from, to) ==
    /\ pc[t] = from
    /\ pc' = [pc EXCEPT ![t] = to]

WatchStep(t, from, to) ==
    /\ watch[t] = from
    /\ watch' = [watch EXCEPT ![t] = to]

-----------------------------------------------------------------------------
(* The Tunnel handler.                                                     *)

\* The ids a client knows from the sessions it was sent.
IdsSentTo(key) ==
    {sessionId[session[t]] : t \in {u \in Tunnels : /\ hs[u].key = key
                                                    /\ session[u] # None
                                                    /\ pc[u] \in {"attached", "arm", "done"}}}

\* GetHandshake: the configured id or none, until there is a session; then the
\* session's id and bearer.  A session may be of an earlier server process, of
\* this seed or of another.
Handshakes ==
    UNION {[clientId : Names \cup {None}, key : {key}, bearer : {None}]
             \cup [clientId : Names \cup IdsSentTo(key), key : {key}, bearer : {key}]
             \cup [clientId : Names, key : {key}, bearer : {OtherSeed}] : key \in Clients}

\* The handshake is read; a version or a shared key that does not match ends
\* the call.
ReceiveHandshake(t) ==
    /\ \/ Step(t, "start", "recover")
       \/ Step(t, "start", "done")
    /\ \E h \in Handshakes : hs' = [hs EXCEPT ![t] = h]
    /\ UNCHANGED <<registry, identity, idleTimer, recordChannel, session, watcher, crashed>>

bearerEquals(b1, b2) == b1 # None /\ b2 # None /\ b1 = b2

\* The session a handshake recovers, None if it has to register one.
Recoverable(t) ==
    IF hs[t].bearer = None \/ hs[t].clientId = None THEN None ELSE clients[hs[t].clientId]

\* Mutant: any bearer recovers a session.
RecoverAnyBearer(t) ==
    /\ \/ /\ Recoverable(t) = None
          /\ Step(t, "recover", "generate")
          /\ UNCHANGED session
       \/ /\ Recoverable(t) # None
          /\ Step(t, "recover", "busy")
          /\ session' = [session EXCEPT ![t] = Recoverable(t)]
    /\ UNCHANGED <<registry, identity, idleTimer, recordChannel, hs, watcher, crashed>>

\* Mutant: the timer of the session found is stopped before the bearer check.
RecoverStopsTimer(t) ==
    /\ \/ /\ Recoverable(t) = None
          /\ Step(t, "recover", "generate")
          /\ UNCHANGED <<session, timer>>
       \/ /\ Recoverable(t) # None
          /\ timer' = [timer EXCEPT ![Recoverable(t)] = "stopped"]
          /\ IF bearerEquals(bearer[Recoverable(t)], hs[t].bearer)
             THEN /\ Step(t, "recover", "busy")
                  /\ session' = [session EXCEPT ![t] = Recoverable(t)]
             ELSE /\ Step(t, "recover", "done")
                  /\ UNCHANGED session
    /\ UNCHANGED <<registry, identity, isIdle, recordChannel, hs, watcher, crashed>>

RecoverSession(t) ==
    /\ \/ /\ Recoverable(t) = None
          /\ Step(t, "recover", "generate")
          /\ UNCHANGED session
       \/ /\ Recoverable(t) # None
          /\ ~bearerEquals(bearer[Recoverable(t)], hs[t].bearer)
          /\ Step(t, "recover", "done")
          /\ UNCHANGED session
       \/ /\ Recoverable(t) # None
          /\ bearerEquals(bearer[Recoverable(t)], hs[t].bearer)
          /\ Step(t, "recover", "busy")
          /\ session' = [session EXCEPT ![t] = Recoverable(t)]
    /\ UNCHANGED <<registry, identity, idleTimer, recordChannel, hs, watcher, crashed>>

Exists(id) == clients[id] # None

\* RandMD5: a hash nobody has drawn or presented.
FreshHashIds == HashIds \ {sessionId[u] : u \in Tunnels}

\* Mutant: the id asked for is given out whether it is in use or not.
GenerateUnchecked(clientId) ==
    IF clientId # None THEN {clientId} ELSE FreshHashIds

\* Mutant: an empty id that is not in use is given out as it is.
GenerateEmpty(clientId) ==
    IF clientId = None \/ ~Exists(clientId) THEN {clientId} ELSE FreshHashIds

generateClientId(clientId) ==
    IF clientId # None /\ ~Exists(clientId) THEN {clientId} ELSE FreshHashIds

BearerRefused(h) == h.bearer # None /\ ~bearerEquals(h.bearer, h.key)

\* The first half of Register: the id is chosen, outside the lock, and the
\* bearer checked.
GenerateClientId(t) ==
    /\ \/ /\ BearerRefused(hs[t])
          /\ Step(t, "generate", "done")
          /\ UNCHANGED sessionId
       \/ /\ ~BearerRefused(hs[t])
          /\ Step(t, "generate", "put")
          /\ \E id \in generateClientId(hs[t].clientId) :
                sessionId' = [sessionId EXCEPT ![t] = id]
    /\ UNCHANGED <<registry, bearer, idleTimer, recordChannel, hs, session, watcher, crashed>>

\* The second half of Register: NewSession, its timer stopped, and put.
PutSession(t) ==
    /\ Step(t, "put", "watch")
    /\ bearer' = [bearer EXCEPT ![t] = hs[t].key]
    /\ recordChannel' = [recordChannel EXCEPT ![t] = "open"]
    /\ clients' = [clients EXCEPT ![sessionId[t]] = t]
    /\ session' = [session EXCEPT ![t] = t]
    /\ UNCHANGED <<sessionId, idleTimer, hs, watcher, crashed>>

\* DeregisterOnTimeout looks the session up again by its id; the goroutine it
\* starts on a nil session panics.
DeregisterOnTimeout(t) ==
    /\ Step(t, "watch", "busy")
    /\ WatchStep(t, "none", "waiting")
    /\ watched' = [watched EXCEPT ![t] = clients[sessionId[t]]]
    /\ crashed' = (clients[sessionId[t]] = None)
    /\ UNCHANGED <<registry, identity, idleTimer, recordChannel, hs, session, found>>

\* StopIdleTimeout writes IsIdle, then stops the timer.
ClearIdle(t) ==
    /\ Step(t, "busy", "stop")
    /\ isIdle' = [isIdle EXCEPT ![session[t]] = FALSE]
    /\ UNCHANGED <<registry, identity, timer, recordChannel, hs, session, watcher, crashed>>

\* The session is sent and the tunnel is in use.
StopTimer(t) ==
    /\ Step(t, "stop", "attached")
    /\ timer' = [timer EXCEPT ![session[t]] = "stopped"]
    /\ UNCHANGED <<registry, identity, isIdle, recordChannel, hs, session, watcher, crashed>>

\* The stream's context is done: the tunnel disconnected or expired.
\* SetIdleTimeout writes IsIdle, then resets the timer.
Disconnect(t) ==
    /\ Step(t, "attached", "arm")
    /\ isIdle' = [isIdle EXCEPT ![session[t]] = TRUE]
    /\ UNCHANGED <<registry, identity, timer, recordChannel, hs, session, watcher, crashed>>

\* Mutant: the timer of a session that went idle is not reset.
ArmNoTimer(t) ==
    /\ Step(t, "arm", "done")
    /\ UNCHANGED <<registry, identity, idleTimer, recordChannel, hs, session, watcher, crashed>>

ArmTimer(t) ==
    /\ Step(t, "arm", "done")
    /\ timer' = [timer EXCEPT ![session[t]] = "armed"]
    /\ UNCHANGED <<registry, identity, isIdle, recordChannel, hs, session, watcher, crashed>>

-----------------------------------------------------------------------------
(* The goroutine of DeregisterOnTimeout.                                   *)

TimerFires(t) ==
    /\ WatchStep(t, "waiting", "fired")
    /\ timer[watched[t]] = "armed"
    /\ timer' = [timer EXCEPT ![watched[t]] = "stopped"]
    /\ UNCHANGED <<registry, identity, isIdle, recordChannel, handler, watched, found, crashed>>

\* Mutant: Deregister puts nil before it closes.
DeregisterPutsFirst(t) ==
    /\ WatchStep(t, "fired", "close")
    /\ found' = [found EXCEPT ![t] = clients[sessionId[watched[t]]]]
    /\ clients' = [clients EXCEPT ![sessionId[watched[t]]] = None]
    /\ UNCHANGED <<identity, idleTimer, recordChannel, handler, watched, crashed>>

\* Deregister: Get, Close, put nil.
DeregisterGet(t) ==
    /\ WatchStep(t, "fired", "close")
    /\ found' = [found EXCEPT ![t] = clients[sessionId[watched[t]]]]
    /\ UNCHANGED <<registry, identity, idleTimer, recordChannel, handler, watched, crashed>>

\* Closing a nil session, or a channel a second time, panics.
Closable(s) == s # None /\ recordChannel[s] = "open"

DeregisterClose(t) ==
    /\ WatchStep(t, "close", "remove")
    /\ \/ /\ Closable(found[t])
          /\ timer' = [timer EXCEPT ![found[t]] = "stopped"]
          /\ recordChannel' = [recordChannel EXCEPT ![found[t]] = "closed"]
          /\ UNCHANGED crashed
       \/ /\ ~Closable(found[t])
          /\ crashed' = TRUE
          /\ UNCHANGED <<timer, recordChannel>>
    /\ UNCHANGED <<registry, identity, isIdle, handler, watched, found>>

\* Mutant: the goroutine waits for the next tick instead of returning.
DeregisterAgain(t) ==
    /\ WatchStep(t, "remove", "waiting")
    /\ clients' = [clients EXCEPT ![sessionId[watched[t]]] = None]
    /\ UNCHANGED <<identity, idleTimer, recordChannel, handler, watched, found, crashed>>

DeregisterPut(t) ==
    /\ WatchStep(t, "remove", "done")
    /\ clients' = [clients EXCEPT ![sessionId[watched[t]]] = None]
    /\ UNCHANGED <<identity, idleTimer, recordChannel, handler, watched, found, crashed>>

-----------------------------------------------------------------------------
\* The steps the server takes on its own once it may.
ServerHandlerStep(t) ==
    \/ RecoverSession(t)
    \/ GenerateClientId(t)
    \/ PutSession(t)
    \/ DeregisterOnTimeout(t)
    \/ ClearIdle(t)
    \/ StopTimer(t)
    \/ ArmTimer(t)

WatcherStep(t) ==
    \/ TimerFires(t)
    \/ DeregisterGet(t)
    \/ DeregisterClose(t)
    \/ DeregisterPut(t)

Next ==
    /\ ~crashed
    /\ \E t \in Tunnels :
        \/ ReceiveHandshake(t)
        \/ ServerHandlerStep(t)
        \/ Disconnect(t)
        \/ WatcherStep(t)

Spec == Init /\ [][Next]_vars

\* The handlers and goroutines are scheduled and an armed timer runs out; no
\* client has to connect and no tunnel has to end.
Fairness ==
    \A t \in Tunnels :
        /\ WF_vars(~crashed /\ ServerHandlerStep(t))
        /\ WF_vars(~crashed /\ WatcherStep(t))

-----------------------------------------------------------------------------
Open(s) == recordChannel[s] = "open"

\* The session its id resolves to.
Resolved(s) == sessionId[s] # None /\ clients[sessionId[s]] = s

\* A handler uses a session from the moment it has it until it has armed its
\* timer again.
Holds(t, s) == session[t] = s /\ pc[t] \in {"watch", "busy", "stop", "attached", "arm"}

Attached(s) == \E t \in Tunnels : session[t] = s /\ pc[t] = "attached"

-----------------------------------------------------------------------------
(* An environment: clients that do not ask for the same id at once.        *)

\* No two registrations that ask for the same id overlap between
\* generateClientId and DeregisterOnTimeout.
Registering(t) == pc[t] \in {"put", "watch"}

SerialIds ==
    \A t, u \in Tunnels :
        /\ Registering(t)
        /\ Registering(u)
        /\ hs[t].clientId = hs[u].clientId
        /\ hs[t].clientId # None
        => t = u

SerialSpec == Init /\ [][Next /\ SerialIds']_vars
SerialFairSpec == SerialSpec /\ Fairness

-----------------------------------------------------------------------------
(* Properties of every environment.                                        *)

\* A session its id resolves to is not forgotten: a tunnel is using it, or its
\* timer runs, or the goroutine that deregisters it is on its way.  It is what
\* StopIdleTimeout in Tunnel and SetIdleTimeout after ctx.Done owe each other.
NoForgottenSession ==
    \A s \in Tunnels :
        Open(s) /\ Resolved(s) /\ timer[s] = "stopped" =>
            \/ \E t \in Tunnels : Holds(t, s)
            \/ \E t \in Tunnels : watched[t] = s /\ watch[t] \in {"fired", "close"}

\* A tunnel is only ever given a session of its own client key, whatever ids
\* the clients present and whenever sessions end and are made anew
\* (RecoverSession, Register).
OwnSession ==
    \A t \in Tunnels : session[t] # None => bearer[session[t]] = hs[t].key

-----------------------------------------------------------------------------
(* Properties of SerialSpec.                                               *)

\* The registry knows the open sessions and no other: an open session is the
\* one its id resolves to, and an id resolves to a closed session only while
\* Deregister is between Close and put.
RegistryExact ==
    \A s \in Tunnels :
        /\ Open(s) => Resolved(s)
        /\ recordChannel[s] = "closed" /\ Resolved(s) => watch[s] = "remove"

\* No goroutine of the registry panics: Deregister never finds a nil or an
\* already closed session, DeregisterOnTimeout never a nil one.
ServerStaysUp == ~crashed

\* A session is closed by its own timer, never by the timer of a session that
\* had the same id.
ClosedByOwnTimer ==
    [][\A s \in Tunnels :
          Open(s) /\ recordChannel'[s] = "closed" => watch[s] = "close" /\ watch'[s] = "remove"]_vars

\* docs/server.md, Custom URL Rules: the client id becomes available again
\* once the tunnel detaches.  A session no tunnel uses is deregistered, unless
\* a tunnel takes it up in time.
DetachedIdFreed ==
    \A s \in Tunnels :
        (Open(s) /\ ~\E t \in Tunnels : Holds(t, s))
            ~> ((\E t \in Tunnels : Holds(t, s)) \/ ~Resolved(s))

-----------------------------------------------------------------------------
(* What the documentation says.                                            *)

\* docs/server.md, Custom URL Rules: the id is used for the first attached
\* tunnel, later ones get a hash appended: open sessions never share an id.
DistinctIds ==
    \A s, u \in Tunnels : Open(s) /\ Open(u) /\ sessionId[s] = sessionId[u] => s = u

\* controller.go, recorderHandler: the requests of an idle session are refused
\* as "Session started but not in use", so no tunnel is attached to it.
IdleMeansUnused == \A s \in Tunnels : isIdle[s] => ~Attached(s)
=============================================================================
