----------------------- MODULE SessionRegistryProofs -----------------------
(* Theorems about SessionRegistry, for every set of tunnels, clients and   *)
(* ids.                                                                    *)
EXTENDS SessionRegistry, TLAPS

\* The handshake read is one a client sends.
HandshakeShape ==
    \A t \in Tunnels : pc[t] # "start" =>
        hs[t].key \in Clients /\ hs[t].bearer \in {None, hs[t].key, OtherSeed}

\* Until a handler has put its session there is none, nor a goroutine to
\* deregister it.
EarlyShape ==
    \A t \in Tunnels :
        /\ pc[t] \in {"start", "recover", "generate", "put"} =>
              recordChannel[t] = "unmade" /\ session[t] = None
        /\ pc[t] \in {"start", "recover", "generate", "put", "watch"} => watch[t] = "none"

\* What a handler works on is there.
HandlerShape ==
    \A t \in Tunnels :
        /\ pc[t] \in {"put", "watch"} => sessionId[t] \in ClientIds
        /\ pc[t] = "watch" => session[t] = t
        /\ pc[t] \in {"busy", "stop", "attached", "arm"} => session[t] # None
        /\ session[t] # None => recordChannel[session[t]] # "unmade"

\* An id resolves to a session that was made under this id.
RegistryShape ==
    \A id \in ClientIds : clients[id] # None =>
        recordChannel[clients[id]] # "unmade" /\ sessionId[clients[id]] = id

\* A goroutine waits on a session that was made, unless it has panicked.
WatchShape ==
    \A t \in Tunnels : ~crashed /\ watch[t] # "none" =>
        watched[t] # None /\ recordChannel[watched[t]] # "unmade"

Shape ==
    /\ TypeOK
    /\ HandshakeShape
    /\ EarlyShape
    /\ HandlerShape
    /\ RegistryShape
    /\ WatchShape

LEMMA ShapeInit == Init => Shape
<1> SUFFICES ASSUME Init PROVE Shape
  OBVIOUS
<1> USE DEF Init
<1>1. TypeOK
  BY DEF TypeOK, NoHandshake, HandlerSteps, WatchSteps
<1>2. HandshakeShape /\ EarlyShape /\ HandlerShape
  BY DEF HandshakeShape, EarlyShape, HandlerShape
<1>3. RegistryShape /\ WatchShape
  BY DEF RegistryShape, WatchShape
<1> QED
  BY <1>1, <1>2, <1>3 DEF Shape

\* A client only presents ids there are.
LEMMA HandshakeType ==
    ASSUME Shape, NEW h \in Handshakes
    PROVE  /\ h \in [clientId : ClientIds \cup {None}, key : Clients, bearer : Bearers \cup {None}]
           /\ h.bearer \in {None, h.key, OtherSeed}
<1>1. PICK key \in Clients :
        h \in [clientId : Names \cup {None}, key : {key}, bearer : {None}]
                \cup [clientId : Names \cup IdsSentTo(key), key : {key}, bearer : {key}]
                \cup [clientId : Names, key : {key}, bearer : {OtherSeed}]
  BY DEF Handshakes
<1>2. IdsSentTo(key) \subseteq ClientIds
  BY ConstantsAssumption DEF IdsSentTo, Shape, TypeOK, HandlerShape
<1> QED
  BY <1>1, <1>2 DEF ClientIds, Bearers

LEMMA ShapeHandshake ==
    ASSUME Shape, ~crashed, NEW t \in Tunnels, ReceiveHandshake(t)
    PROVE  Shape'
<1>1. PICK h \in Handshakes : hs' = [hs EXCEPT ![t] = h]
  BY DEF ReceiveHandshake
<1>2. /\ h \in [clientId : ClientIds \cup {None}, key : Clients, bearer : Bearers \cup {None}]
      /\ h.bearer \in {None, h.key, OtherSeed}
  BY HandshakeType
<1>3. /\ pc[t] = "start"
      /\ pc' = [pc EXCEPT ![t] = "recover"] \/ pc' = [pc EXCEPT ![t] = "done"]
      /\ UNCHANGED <<registry, identity, idleTimer, recordChannel, session, watcher, crashed>>
  BY DEF ReceiveHandshake, Step
<1> USE DEF Shape, registry, identity, idleTimer, watcher
<1>4. TypeOK'
  BY <1>1, <1>2, <1>3 DEF TypeOK, HandlerSteps
<1>5. HandshakeShape'
  BY <1>1, <1>2, <1>3 DEF HandshakeShape, TypeOK
<1>6. EarlyShape' /\ HandlerShape'
  BY <1>3 DEF EarlyShape, HandlerShape, TypeOK
<1>7. RegistryShape' /\ WatchShape'
  BY <1>3 DEF RegistryShape, WatchShape
<1> QED
  BY <1>4, <1>5, <1>6, <1>7

LEMMA ShapeRecover ==
    ASSUME Shape, ~crashed, NEW t \in Tunnels, RecoverSession(t)
    PROVE  Shape'
<1> USE ConstantsAssumption DEF Shape, registry, identity, idleTimer, watcher, Step
<1>1. /\ pc[t] = "recover"
      /\ UNCHANGED <<registry, identity, idleTimer, recordChannel, hs, watcher, crashed>>
      /\ \/ pc' = [pc EXCEPT ![t] = "generate"] /\ session' = session
         \/ pc' = [pc EXCEPT ![t] = "done"] /\ session' = session
         \/ /\ Recoverable(t) # None
            /\ pc' = [pc EXCEPT ![t] = "busy"]
            /\ session' = [session EXCEPT ![t] = Recoverable(t)]
  BY DEF RecoverSession
<1>2. Recoverable(t) # None =>
        Recoverable(t) \in Tunnels /\ recordChannel[Recoverable(t)] # "unmade"
  BY DEF Recoverable, RegistryShape, TypeOK
<1>3. /\ pc' \in [Tunnels -> HandlerSteps]
      /\ session' \in [Tunnels -> Tunnels \cup {None}]
  <2> pc \in [Tunnels -> HandlerSteps] /\ session \in [Tunnels -> Tunnels \cup {None}]
    BY DEF TypeOK
  <2>1. pc' \in [Tunnels -> HandlerSteps]
    BY <1>1 DEF HandlerSteps
  <2>2. session' \in [Tunnels -> Tunnels \cup {None}]
    BY <1>1, <1>2
  <2> QED
    BY <2>1, <2>2
<1>4. TypeOK'
  BY <1>1, <1>3 DEF TypeOK
<1>5. HandshakeShape'
  BY <1>1 DEF HandshakeShape, TypeOK
<1>6. EarlyShape' /\ HandlerShape'
  BY <1>1, <1>2 DEF EarlyShape, HandlerShape, TypeOK
<1>7. RegistryShape' /\ WatchShape'
  BY <1>1 DEF RegistryShape, WatchShape
<1> QED
  BY <1>4, <1>5, <1>6, <1>7

LEMMA ShapeGenerate ==
    ASSUME Shape, ~crashed, NEW t \in Tunnels, GenerateClientId(t)
    PROVE  Shape'
<1> USE ConstantsAssumption DEF Shape, registry, idleTimer, watcher, Step
<1>1. /\ pc[t] = "generate"
      /\ UNCHANGED <<registry, bearer, idleTimer, recordChannel, hs, session, watcher, crashed>>
      /\ \/ pc' = [pc EXCEPT ![t] = "done"] /\ sessionId' = sessionId
         \/ /\ pc' = [pc EXCEPT ![t] = "put"]
            /\ \E id \in ClientIds : sessionId' = [sessionId EXCEPT ![t] = id]
  <2>1. generateClientId(hs[t].clientId) \subseteq ClientIds
    BY DEF generateClientId, FreshHashIds, ClientIds, TypeOK
  <2> QED
    BY <2>1 DEF GenerateClientId, identity
<1>2. recordChannel[t] = "unmade"
  BY <1>1 DEF EarlyShape
<1>3. /\ pc' \in [Tunnels -> HandlerSteps]
      /\ sessionId' \in [Tunnels -> ClientIds \cup {None}]
      /\ \A s \in Tunnels : s # t => sessionId'[s] = sessionId[s]
  <2> USE DEF TypeOK, HandlerSteps
  <2>1. CASE pc' = [pc EXCEPT ![t] = "done"] /\ sessionId' = sessionId
    BY <2>1
  <2>2. ASSUME pc' = [pc EXCEPT ![t] = "put"],
               NEW id \in ClientIds, sessionId' = [sessionId EXCEPT ![t] = id]
        PROVE  <1>3!1 /\ <1>3!2 /\ <1>3!3
    BY <2>2
  <2> QED
    BY <2>1, <2>2, <1>1
<1>4. TypeOK'
  BY <1>1, <1>2, <1>3 DEF TypeOK
<1>5. HandshakeShape'
  BY <1>1 DEF HandshakeShape, TypeOK
<1>6. EarlyShape' /\ HandlerShape'
  BY <1>1 DEF EarlyShape, HandlerShape, TypeOK
<1>7. RegistryShape' /\ WatchShape'
  BY <1>1, <1>2 DEF RegistryShape, WatchShape, TypeOK
<1> QED
  BY <1>4, <1>5, <1>6, <1>7

LEMMA ShapePut ==
    ASSUME Shape, ~crashed, NEW t \in Tunnels, PutSession(t)
    PROVE  Shape'
<1> USE ConstantsAssumption DEF Shape, idleTimer, watcher, Step, PutSession
<1>1. sessionId[t] \in ClientIds /\ hs[t].key \in Clients
  BY DEF HandlerShape, HandshakeShape
<1>4. TypeOK'
  BY <1>1 DEF TypeOK, HandlerSteps
<1>5. HandshakeShape'
  BY DEF HandshakeShape, TypeOK
<1>6. EarlyShape' /\ HandlerShape'
  BY <1>1 DEF EarlyShape, HandlerShape, TypeOK
<1>7. RegistryShape' /\ WatchShape'
  BY <1>1 DEF RegistryShape, WatchShape, TypeOK
<1> QED
  BY <1>4, <1>5, <1>6, <1>7

LEMMA ShapeWatch ==
    ASSUME Shape, ~crashed, NEW t \in Tunnels, DeregisterOnTimeout(t)
    PROVE  Shape'
<1> USE ConstantsAssumption
        DEF Shape, registry, identity, idleTimer, Step, WatchStep, DeregisterOnTimeout
<1>1. sessionId[t] \in ClientIds /\ session[t] = t
  BY DEF HandlerShape
<1>2. clients[sessionId[t]] # None => recordChannel[clients[sessionId[t]]] # "unmade"
  BY <1>1 DEF RegistryShape
<1>4. TypeOK'
  <2> clients[sessionId[t]] \in Tunnels \cup {None}
    BY <1>1 DEF TypeOK
  <2> QED
    BY <1>1 DEF TypeOK, HandlerSteps, WatchSteps
<1>5. HandshakeShape'
  BY DEF HandshakeShape, TypeOK
<1>6. EarlyShape' /\ HandlerShape'
  BY <1>1 DEF EarlyShape, HandlerShape, TypeOK
<1>7. RegistryShape' /\ WatchShape'
  BY <1>2 DEF RegistryShape, WatchShape, TypeOK
<1> QED
  BY <1>4, <1>5, <1>6, <1>7

\* The steps of StopIdleTimeout and SetIdleTimeout.
IdleStep(t) == ClearIdle(t) \/ StopTimer(t) \/ Disconnect(t) \/ ArmTimer(t)

LEMMA ShapeIdle ==
    ASSUME Shape, ~crashed, NEW t \in Tunnels, IdleStep(t)
    PROVE  Shape'
<1> USE DEF Shape, registry, identity, watcher
<1>1. /\ pc[t] \in {"busy", "stop", "attached", "arm"}
      /\ \E to \in {"stop", "attached", "arm", "done"} : pc' = [pc EXCEPT ![t] = to]
      /\ UNCHANGED <<registry, identity, recordChannel, hs, session, watcher, crashed>>
  BY DEF IdleStep, ClearIdle, StopTimer, Disconnect, ArmTimer, Step
<1>2. isIdle' \in [Tunnels -> BOOLEAN] /\ timer' \in [Tunnels -> {"stopped", "armed"}]
  BY DEF IdleStep, ClearIdle, StopTimer, Disconnect, ArmTimer, Step, TypeOK
<1>4. TypeOK'
  <2> pc' \in [Tunnels -> HandlerSteps]
    BY <1>1 DEF TypeOK, HandlerSteps
  <2> QED
    BY <1>1, <1>2 DEF TypeOK
<1>5. HandshakeShape'
  BY <1>1 DEF HandshakeShape, TypeOK
<1>6. EarlyShape' /\ HandlerShape'
  BY <1>1 DEF EarlyShape, HandlerShape, TypeOK
<1>7. RegistryShape' /\ WatchShape'
  BY <1>1 DEF RegistryShape, WatchShape
<1> QED
  BY <1>4, <1>5, <1>6, <1>7

LEMMA ShapeWatcher ==
    ASSUME Shape, ~crashed, NEW t \in Tunnels, WatcherStep(t)
    PROVE  Shape'
<1> USE ConstantsAssumption DEF Shape, registry, identity, idleTimer, handler, WatchStep
<1>1. /\ watch[t] \in {"waiting", "fired", "close", "remove"}
      /\ \E to \in {"fired", "close", "remove", "done"} : watch' = [watch EXCEPT ![t] = to]
      /\ UNCHANGED <<identity, isIdle, handler, watched>>
  BY DEF WatcherStep, TimerFires, DeregisterGet, DeregisterClose, DeregisterPut
<1>w. watched[t] \in Tunnels /\ sessionId[watched[t]] \in ClientIds
  BY <1>1 DEF WatchShape, TypeOK
<1>2. /\ timer' \in [Tunnels -> {"stopped", "armed"}]
      /\ found' \in [Tunnels -> Tunnels \cup {None}]
      /\ crashed' \in BOOLEAN
  <2> USE <1>w DEF TypeOK
  <2>1. CASE TimerFires(t)
    BY <2>1 DEF TimerFires
  <2>2. CASE DeregisterGet(t)
    BY <2>2 DEF DeregisterGet
  <2>3. CASE DeregisterClose(t)
    BY <2>3 DEF DeregisterClose
  <2>4. CASE DeregisterPut(t)
    BY <2>4 DEF DeregisterPut
  <2> QED
    BY <2>1, <2>2, <2>3, <2>4 DEF WatcherStep
<1>3. /\ recordChannel' \in [Tunnels -> {"unmade", "open", "closed"}]
      /\ \A s \in Tunnels : recordChannel'[s] = "unmade" <=> recordChannel[s] = "unmade"
  BY DEF WatcherStep, TimerFires, DeregisterGet, DeregisterClose, DeregisterPut, TypeOK, Closable
<1>c. /\ clients' \in [ClientIds -> Tunnels \cup {None}]
      /\ \A id \in ClientIds : clients'[id] \in {clients[id], None}
  BY <1>w DEF WatcherStep, TimerFires, DeregisterGet, DeregisterClose, DeregisterPut, TypeOK
<1>4. TypeOK'
  <2> watch' \in [Tunnels -> WatchSteps]
    BY <1>1 DEF TypeOK, WatchSteps
  <2> QED
    BY <1>1, <1>2, <1>3, <1>c DEF TypeOK
<1>5. HandshakeShape'
  BY <1>1 DEF HandshakeShape
<1>6. EarlyShape' /\ HandlerShape'
  <2> \A s \in Tunnels : session[s] \in Tunnels \cup {None}
    BY DEF TypeOK
  <2> QED
    BY <1>1, <1>3 DEF EarlyShape, HandlerShape, TypeOK
<1>7. RegistryShape'
  BY <1>1, <1>3, <1>c DEF RegistryShape, TypeOK
<1>8. WatchShape'
  BY <1>1, <1>3, <1>w DEF WatchShape, TypeOK
<1> QED
  BY <1>4, <1>5, <1>6, <1>7, <1>8

LEMMA ShapeStep == Shape /\ [Next]_vars => Shape'
<1> SUFFICES ASSUME Shape, [Next]_vars PROVE Shape'
  OBVIOUS
<1>1. CASE Next
  <2>1. PICK t \in Tunnels : /\ ~crashed
                             /\ \/ ReceiveHandshake(t)
                                \/ ServerHandlerStep(t)
                                \/ Disconnect(t)
                                \/ WatcherStep(t)
    BY <1>1 DEF Next
  <2> QED
    BY <2>1, ShapeHandshake, ShapeRecover, ShapeGenerate, ShapePut, ShapeWatch, ShapeIdle,
       ShapeWatcher DEF ServerHandlerStep, IdleStep
<1>2. CASE UNCHANGED vars
  BY <1>2 DEF vars, registry, identity, idleTimer, handler, watcher, Shape, TypeOK,
              HandshakeShape, EarlyShape, HandlerShape, RegistryShape, WatchShape
<1> QED
  BY <1>1, <1>2

THEOREM ShapeHolds == Spec => []Shape
  BY ShapeInit, ShapeStep, PTL DEF Spec

\* Every variable always has its type, and a session that was made has an id
\* and a bearer.
THEOREM TypeCorrect == Spec => []TypeOK
<1>1. Shape => TypeOK
  BY DEF Shape
<1> QED
  BY <1>1, ShapeHolds, PTL

-----------------------------------------------------------------------------
(* Tunnels and sessions belong to the same client.                         *)

LEMMA OwnStep == Shape /\ OwnSession /\ [Next]_vars => OwnSession'
<1> SUFFICES ASSUME Shape, OwnSession, [Next]_vars PROVE OwnSession'
  OBVIOUS
<1> USE ConstantsAssumption DEF OwnSession
<1>t. /\ session \in [Tunnels -> Tunnels \cup {None}]
      /\ bearer \in [Tunnels -> Clients \cup {None}]
      /\ hs \in [Tunnels -> [clientId : ClientIds \cup {None}, key : Clients \cup {None},
                             bearer : Bearers \cup {None}]]
  BY DEF Shape, TypeOK
<1>1. ASSUME NEW t \in Tunnels, ReceiveHandshake(t) PROVE OwnSession'
  <2>1. session[t] = None /\ session' = session /\ bearer' = bearer
    BY <1>1 DEF ReceiveHandshake, Step, Shape, EarlyShape, identity
  <2>2. \A u \in Tunnels : u # t => hs'[u] = hs[u]
    BY <1>1, <1>t DEF ReceiveHandshake
  <2> QED
    BY <2>1, <2>2, <1>t
<1>2. ASSUME NEW t \in Tunnels, RecoverSession(t) PROVE OwnSession'
  <2>1. hs' = hs /\ bearer' = bearer
    BY <1>2 DEF RecoverSession, identity
  <2>2. CASE session' = session
    BY <2>1, <2>2
  <2>3. CASE /\ Recoverable(t) # None
             /\ bearerEquals(bearer[Recoverable(t)], hs[t].bearer)
             /\ session' = [session EXCEPT ![t] = Recoverable(t)]
    <3>1. pc[t] = "recover"
      BY <1>2 DEF RecoverSession, Step
    <3>2. hs[t].key \in Clients /\ hs[t].bearer \in {None, hs[t].key, OtherSeed}
      BY <3>1 DEF Shape, HandshakeShape
    <3>3. Recoverable(t) \in Tunnels
      BY <2>3 DEF Recoverable, Shape, TypeOK
    <3>4. bearer[Recoverable(t)] = hs[t].key
      BY <2>3, <3>2, <3>3, <1>t DEF bearerEquals
    <3> QED
      BY <2>1, <2>3, <3>3, <3>4, <1>t
  <2> QED
    BY <1>2, <2>2, <2>3 DEF RecoverSession
<1>3. ASSUME NEW t \in Tunnels, PutSession(t) PROVE OwnSession'
  <2>1. recordChannel[t] = "unmade"
    BY <1>3 DEF PutSession, Step, Shape, EarlyShape
  <2>2. \A u \in Tunnels : session[u] # t
    BY <2>1, ConstantsAssumption DEF Shape, HandlerShape
  <2>3. /\ hs' = hs /\ bearer' = [bearer EXCEPT ![t] = hs[t].key]
        /\ session' = [session EXCEPT ![t] = t]
    BY <1>3 DEF PutSession
  <2> QED
    BY <2>2, <2>3, <1>t
<1>4. ASSUME UNCHANGED <<session, bearer, hs>> PROVE OwnSession'
  BY <1>4
<1>5. ASSUME NEW t \in Tunnels,
             GenerateClientId(t) \/ DeregisterOnTimeout(t) \/ IdleStep(t) \/ WatcherStep(t)
      PROVE  UNCHANGED <<session, bearer, hs>>
  BY <1>5 DEF GenerateClientId, DeregisterOnTimeout, IdleStep, ClearIdle, StopTimer, Disconnect,
              ArmTimer, WatcherStep, TimerFires, DeregisterGet, DeregisterClose, DeregisterPut,
              identity, handler
<1> QED
  BY <1>1, <1>2, <1>3, <1>4, <1>5
     DEF Next, ServerHandlerStep, IdleStep, vars, identity, handler

\* Whatever ids and bearers clients present, no tunnel is attached to a
\* session of another client key.
THEOREM OwnSessionHolds == Spec => []OwnSession
<1>1. Init => OwnSession
  BY DEF Init, OwnSession
<1> QED
  BY <1>1, OwnStep, ShapeHolds, PTL DEF Spec

-----------------------------------------------------------------------------
(* No session is forgotten.                                                *)

\* What Deregister found is the session whose timer ran out, if that one is
\* still open and the one its id resolves to.
FoundOwn ==
    \A t \in Tunnels :
        watch[t] = "close" /\ watched[t] # None /\ Open(watched[t]) /\ Resolved(watched[t])
        => found[t] = watched[t]

KeptInv == Shape /\ FoundOwn /\ NoForgottenSession

\* The session s is in use, or about to be deregistered.
Kept(s) ==
    \/ \E t \in Tunnels : Holds(t, s)
    \/ \E t \in Tunnels : watched[t] = s /\ watch[t] \in {"fired", "close"}

LEMMA KeptHandler ==
    ASSUME KeptInv, ~crashed, NEW t \in Tunnels,
           \/ ReceiveHandshake(t) \/ RecoverSession(t) \/ GenerateClientId(t) \/ PutSession(t)
    PROVE  FoundOwn' /\ NoForgottenSession'
<1> USE ConstantsAssumption DEF KeptInv, Step
<1>1. /\ pc[t] \in {"start", "recover", "generate", "put"}
      /\ recordChannel[t] = "unmade" /\ session[t] = None
      /\ \A u \in Tunnels : u # t => pc'[u] = pc[u] /\ session'[u] = session[u]
      /\ timer' = timer /\ watch' = watch /\ watched' = watched /\ found' = found
  <2>1. pc[t] \in {"start", "recover", "generate", "put"}
    BY DEF ReceiveHandshake, RecoverSession, GenerateClientId, PutSession
  <2>2. recordChannel[t] = "unmade" /\ session[t] = None
    BY <2>1 DEF Shape, EarlyShape
  <2>3. \A u \in Tunnels : u # t => pc'[u] = pc[u] /\ session'[u] = session[u]
    BY DEF ReceiveHandshake, RecoverSession, GenerateClientId, PutSession, Shape, TypeOK
  <2> QED
    BY <2>1, <2>2, <2>3
       DEF ReceiveHandshake, RecoverSession, GenerateClientId, PutSession, idleTimer, watcher
<1>2. \A s \in Tunnels : s # t /\ Open(s)' /\ Resolved(s)' => Open(s) /\ Resolved(s)
  <2>1. \/ clients' = clients /\ recordChannel' = recordChannel
        \/ PutSession(t)
    BY DEF ReceiveHandshake, RecoverSession, GenerateClientId, registry
  <2>2. \A s \in Tunnels : s # t => sessionId'[s] = sessionId[s]
    BY DEF ReceiveHandshake, RecoverSession, GenerateClientId, PutSession, Shape, TypeOK, identity
  <2>3. CASE clients' = clients /\ recordChannel' = recordChannel
    BY <2>2, <2>3 DEF Open, Resolved
  <2>4. CASE PutSession(t)
    BY <2>2, <2>4 DEF Open, Resolved, PutSession, Shape, TypeOK
  <2> QED
    BY <2>1, <2>3, <2>4
<1>3. FoundOwn'
  <2> SUFFICES ASSUME NEW u \in Tunnels, watch[u] = "close", watched[u] # None,
                      Open(watched[u])', Resolved(watched[u])'
               PROVE  found[u] = watched[u]
    BY <1>1 DEF FoundOwn, Open, Resolved
  <2>1. watched[u] \in Tunnels /\ watched[u] # t
    BY <1>1 DEF Shape, TypeOK, WatchShape
  <2>2. Open(watched[u]) /\ Resolved(watched[u])
    BY <2>1, <1>1, <1>2 DEF Open, Resolved
  <2> QED
    BY <2>2 DEF FoundOwn
<1>4. NoForgottenSession'
  <2> SUFFICES ASSUME NEW s \in Tunnels, Open(s)', Resolved(s)', timer'[s] = "stopped"
               PROVE  Kept(s)'
    BY DEF NoForgottenSession, Kept
  <2>1. CASE s = t
    <3>1. PutSession(t)
      BY <2>1, <1>1 DEF Open, ReceiveHandshake, RecoverSession, GenerateClientId
    <3>2. Holds(t, t)'
      BY <3>1 DEF PutSession, Holds, Shape, TypeOK
    <3> QED
      BY <3>2, <2>1 DEF Kept
  <2>2. CASE s # t
    <3>1. Kept(s)
      BY <2>2, <1>1, <1>2 DEF NoForgottenSession, Kept
    <3>2. \A u \in Tunnels : Holds(u, s) => Holds(u, s)'
      BY <1>1 DEF Holds
    <3> QED
      BY <3>1, <3>2, <1>1 DEF Kept
  <2> QED
    BY <2>1, <2>2
<1> QED
  BY <1>3, <1>4

LEMMA KeptIdle ==
    ASSUME KeptInv, ~crashed, NEW t \in Tunnels, DeregisterOnTimeout(t) \/ IdleStep(t)
    PROVE  FoundOwn' /\ NoForgottenSession'
<1> USE ConstantsAssumption DEF KeptInv, Step, WatchStep
<1>1. /\ clients' = clients /\ sessionId' = sessionId /\ recordChannel' = recordChannel
      /\ session' = session /\ found' = found
      /\ session[t] \in Tunnels
  BY DEF DeregisterOnTimeout, IdleStep, ClearIdle, StopTimer, Disconnect, ArmTimer,
         registry, identity, watcher, Shape, TypeOK, HandlerShape
<1>2. \A s \in Tunnels : (Open(s)' <=> Open(s)) /\ (Resolved(s)' <=> Resolved(s))
  BY <1>1 DEF Open, Resolved
<1>3. \A u \in Tunnels : watch[u] \in {"fired", "close"} \/ watch'[u] \in {"fired", "close"} =>
        watch'[u] = watch[u] /\ watched'[u] = watched[u]
  BY DEF DeregisterOnTimeout, IdleStep, ClearIdle, StopTimer, Disconnect, ArmTimer, watcher,
         Shape, TypeOK
<1>4. FoundOwn'
  BY <1>1, <1>2, <1>3 DEF FoundOwn, Open, Resolved
<1>5. NoForgottenSession'
  <2> SUFFICES ASSUME NEW s \in Tunnels, Open(s), Resolved(s), timer'[s] = "stopped"
               PROVE  Kept(s)'
    BY <1>2 DEF NoForgottenSession, Kept
  <2>1. CASE ArmTimer(t)
    <3>1. s # session[t] /\ timer[s] = "stopped"
      BY <2>1, <1>1 DEF ArmTimer, Shape, TypeOK
    <3>2. \A u \in Tunnels : Holds(u, s) => Holds(u, s)'
      BY <2>1, <3>1 DEF ArmTimer, Holds, Shape, TypeOK
    <3> QED
      BY <3>1, <3>2, <1>3 DEF NoForgottenSession, Kept
  <2>2. CASE ~ArmTimer(t)
    <3>1. \A u \in Tunnels : Holds(u, s) => Holds(u, s)'
      BY <2>2 DEF DeregisterOnTimeout, IdleStep, ClearIdle, StopTimer, Disconnect, Holds,
                  Shape, TypeOK
    <3>2. CASE s = session[t] /\ StopTimer(t)
      <4>1. Holds(t, s)'
        BY <3>2 DEF StopTimer, Holds, Shape, TypeOK
      <4> QED
        BY <4>1 DEF Kept
    <3>3. CASE ~(s = session[t] /\ StopTimer(t))
      <4>1. timer[s] = "stopped"
        BY <2>2, <3>3 DEF DeregisterOnTimeout, IdleStep, ClearIdle, StopTimer, Disconnect,
                          idleTimer, Shape, TypeOK
      <4> QED
        BY <4>1, <3>1, <1>3 DEF NoForgottenSession, Kept
    <3> QED
      BY <3>2, <3>3
  <2> QED
    BY <2>1, <2>2
<1> QED
  BY <1>4, <1>5

LEMMA KeptWatcher ==
    ASSUME KeptInv, ~crashed, NEW t \in Tunnels, WatcherStep(t)
    PROVE  FoundOwn' /\ NoForgottenSession'
<1> USE ConstantsAssumption DEF KeptInv, WatchStep
<1>1. /\ sessionId' = sessionId /\ session' = session /\ pc' = pc /\ watched' = watched
      /\ \A u \in Tunnels : u # t => watch'[u] = watch[u] /\ found'[u] = found[u]
      /\ watch[t] \in {"waiting", "fired", "close", "remove"}
  BY DEF WatcherStep, TimerFires, DeregisterGet, DeregisterClose, DeregisterPut,
         identity, handler, Shape, TypeOK
<1>2. watched[t] \in Tunnels /\ sessionId[watched[t]] \in ClientIds
  BY <1>1 DEF Shape, TypeOK, WatchShape
<1>3. \A s \in Tunnels : Open(s)' /\ Resolved(s)' => Open(s) /\ Resolved(s)
  <2>1. \A s \in Tunnels : recordChannel'[s] = "open" => recordChannel[s] = "open"
    BY DEF WatcherStep, TimerFires, DeregisterGet, DeregisterClose, DeregisterPut, Shape, TypeOK
  <2>2. \A id \in ClientIds : clients'[id] \in {clients[id], None}
    BY <1>2 DEF WatcherStep, TimerFires, DeregisterGet, DeregisterClose, DeregisterPut,
                registry, Shape, TypeOK
  <2>3. \A s \in Tunnels : sessionId[s] \in ClientIds \cup {None}
    BY DEF Shape, TypeOK
  <2> QED
    BY <1>1, <2>1, <2>2, <2>3 DEF Open, Resolved
<1>4. FoundOwn'
  <2> SUFFICES ASSUME NEW u \in Tunnels, watch'[u] = "close", watched[u] # None,
                      Open(watched[u])', Resolved(watched[u])'
               PROVE  found'[u] = watched[u]
    BY <1>1 DEF FoundOwn, Open, Resolved
  <2>1. watched[u] \in Tunnels
    BY DEF Shape, TypeOK
  <2>2. Open(watched[u]) /\ Resolved(watched[u])
    BY <1>1, <1>3, <2>1 DEF Open, Resolved
  <2>3. CASE u # t
    BY <1>1, <2>2, <2>3 DEF FoundOwn
  <2>4. CASE u = t
    <3>1. DeregisterGet(t)
      BY <2>4, <1>1 DEF WatcherStep, TimerFires, DeregisterClose, DeregisterPut, Shape, TypeOK
    <3> QED
      BY <2>2, <2>4, <3>1 DEF DeregisterGet, Resolved, Shape, TypeOK
  <2> QED
    BY <2>3, <2>4
<1>5. NoForgottenSession'
  <2> SUFFICES ASSUME NEW s \in Tunnels, Open(s)', Resolved(s)', timer'[s] = "stopped"
               PROVE  Kept(s)'
    BY DEF NoForgottenSession, Kept
  <2>1. Open(s) /\ Resolved(s)
    BY <1>3
  <2>2. \A u \in Tunnels : Holds(u, s) => Holds(u, s)'
    BY <1>1 DEF Holds
  <2>3. CASE TimerFires(t)
    <3>1. watch'[t] = "fired"
      BY <2>3 DEF TimerFires, Shape, TypeOK
    <3>2. s # watched[t] => timer'[s] = timer[s]
      BY <2>3 DEF TimerFires, Shape, TypeOK
    <3> QED
      BY <3>1, <3>2, <1>1, <2>1, <2>2, <2>3 DEF NoForgottenSession, Kept, TimerFires
  <2>4. CASE DeregisterGet(t)
    <3>1. timer' = timer /\ watch[t] = "fired" /\ watch'[t] = "close"
      BY <2>4 DEF DeregisterGet, idleTimer, Shape, TypeOK
    <3> QED
      BY <3>1, <1>1, <2>1, <2>2 DEF NoForgottenSession, Kept
  <2>5. CASE DeregisterClose(t)
    <3>1. watch[t] = "close"
      BY <2>5 DEF DeregisterClose
    <3>2. found[t] # s
      BY <2>1, <2>5 DEF DeregisterClose, Closable, Open, Shape, TypeOK
    <3>3. watched[t] # s
      BY <2>1, <3>1, <3>2, <1>2 DEF FoundOwn
    <3>4. timer'[s] = timer[s]
      BY <2>5, <3>2 DEF DeregisterClose, Shape, TypeOK
    <3> QED
      BY <3>3, <3>4, <1>1, <2>1, <2>2 DEF NoForgottenSession, Kept
  <2>6. CASE DeregisterPut(t)
    <3>1. timer' = timer /\ watch[t] = "remove"
      BY <2>6 DEF DeregisterPut, idleTimer
    <3> QED
      BY <3>1, <1>1, <2>1, <2>2 DEF NoForgottenSession, Kept
  <2> QED
    BY <2>3, <2>4, <2>5, <2>6 DEF WatcherStep
<1> QED
  BY <1>4, <1>5

LEMMA KeptStep == KeptInv /\ Shape' /\ [Next]_vars => KeptInv'
<1> SUFFICES ASSUME KeptInv, Shape', [Next]_vars PROVE FoundOwn' /\ NoForgottenSession'
  BY DEF KeptInv
<1>1. CASE Next
  <2>1. PICK t \in Tunnels : /\ ~crashed
                             /\ \/ ReceiveHandshake(t)
                                \/ ServerHandlerStep(t)
                                \/ Disconnect(t)
                                \/ WatcherStep(t)
    BY <1>1 DEF Next
  <2> QED
    BY <2>1, KeptHandler, KeptIdle, KeptWatcher DEF ServerHandlerStep, IdleStep
<1>2. CASE UNCHANGED vars
  BY <1>2 DEF vars, registry, identity, idleTimer, handler, watcher, KeptInv, FoundOwn,
              NoForgottenSession, Open, Resolved, Holds
<1> QED
  BY <1>1, <1>2

\* However tunnels come, go and meet, a session that can be found is in use,
\* or its timer runs, or it is about to be deregistered.
THEOREM NoForgottenHolds == Spec => []NoForgottenSession
<1>1. Init => FoundOwn /\ NoForgottenSession
  BY ConstantsAssumption DEF Init, FoundOwn, NoForgottenSession, Open
<1>2. Spec => []KeptInv
  BY <1>1, ShapeInit, ShapeStep, KeptStep, PTL DEF Spec, KeptInv
<1> QED
  BY <1>2, PTL DEF KeptInv

-----------------------------------------------------------------------------
(* Sessions in use and idle sessions.                                      *)

\* A client comes back only once the server has seen its last tunnel end.
OneHolder ==
    \A t, u, s \in Tunnels : Holds(t, s) /\ Holds(u, s) => t = u

OneHolderSpec == Init /\ [][Next /\ OneHolder']_vars

\* From ClearIdle on a tunnel keeps its session from being idle.
UsedNotIdle ==
    \A t \in Tunnels : pc[t] \in {"stop", "attached"} => ~isIdle[session[t]]

LEMMA UsedStep == Shape /\ OneHolder /\ UsedNotIdle /\ [Next]_vars => UsedNotIdle'
<1> SUFFICES ASSUME Shape, OneHolder, UsedNotIdle, [Next]_vars PROVE UsedNotIdle'
  OBVIOUS
<1> USE ConstantsAssumption DEF UsedNotIdle, Step
<1>t. /\ pc \in [Tunnels -> HandlerSteps]
      /\ session \in [Tunnels -> Tunnels \cup {None}]
      /\ isIdle \in [Tunnels -> BOOLEAN]
      /\ \A t \in Tunnels : pc[t] \in {"busy", "stop", "attached", "arm"} => session[t] \in Tunnels
  BY DEF Shape, TypeOK, HandlerShape
<1>1. ASSUME NEW t \in Tunnels, Disconnect(t) PROVE UsedNotIdle'
  <2> SUFFICES ASSUME NEW u \in Tunnels, pc'[u] \in {"stop", "attached"}
               PROVE  ~isIdle'[session'[u]]
    OBVIOUS
  <2>1. u # t /\ pc[u] = pc'[u] /\ session' = session
    BY <1>1, <1>t DEF Disconnect
  <2>2. session[u] # session[t]
    BY <1>1, <1>t, <2>1 DEF Disconnect, OneHolder, Holds
  <2> QED
    BY <1>1, <1>t, <2>1, <2>2 DEF Disconnect
<1>2. ASSUME NEW t \in Tunnels, ClearIdle(t) PROVE UsedNotIdle'
  <2> SUFFICES ASSUME NEW u \in Tunnels, pc'[u] \in {"stop", "attached"}
               PROVE  ~isIdle'[session'[u]]
    OBVIOUS
  <2>1. session' = session /\ isIdle' = [isIdle EXCEPT ![session[t]] = FALSE]
    BY <1>2 DEF ClearIdle
  <2>2. u # t => pc[u] = pc'[u]
    BY <1>2, <1>t DEF ClearIdle
  <2>3. session[u] \in Tunnels /\ session[t] \in Tunnels
    BY <1>2, <1>t, <2>2 DEF ClearIdle
  <2> QED
    BY <1>t, <2>1, <2>2, <2>3
<1>3. ASSUME NEW t \in Tunnels,
             \/ ReceiveHandshake(t) \/ RecoverSession(t) \/ GenerateClientId(t) \/ PutSession(t)
             \/ DeregisterOnTimeout(t) \/ StopTimer(t) \/ ArmTimer(t) \/ WatcherStep(t)
      PROVE  UsedNotIdle'
  <2>1. isIdle' = isIdle
    BY <1>3 DEF ReceiveHandshake, RecoverSession, GenerateClientId, PutSession, DeregisterOnTimeout,
                StopTimer, ArmTimer, WatcherStep, TimerFires, DeregisterGet, DeregisterClose,
                DeregisterPut, idleTimer
  <2>2. \A u \in Tunnels : pc'[u] \in {"stop", "attached"} =>
          pc[u] \in {"stop", "attached"} /\ session'[u] = session[u]
    BY <1>3, <1>t DEF ReceiveHandshake, RecoverSession, GenerateClientId, PutSession,
                DeregisterOnTimeout, StopTimer, ArmTimer, WatcherStep, TimerFires, DeregisterGet,
                DeregisterClose, DeregisterPut, handler
  <2> QED
    BY <2>1, <2>2
<1>4. CASE UNCHANGED vars
  BY <1>4 DEF vars, idleTimer, handler
<1> QED
  BY <1>1, <1>2, <1>3, <1>4 DEF Next, ServerHandlerStep, IdleStep

\* If no tunnel overlaps the last one of its session, a session in use is
\* never idle: the late end of an old tunnel is all that makes it so.
THEOREM IdleMeansUnusedHolds == OneHolderSpec => []IdleMeansUnused
<1> DEFINE Inv == Shape /\ OneHolder /\ UsedNotIdle
<1>1. Init => Inv
  BY ShapeInit, ConstantsAssumption DEF Init, OneHolder, Holds, UsedNotIdle
<1>2. Inv /\ [Next /\ OneHolder']_vars => Inv'
  <2> SUFFICES ASSUME Inv, [Next /\ OneHolder']_vars PROVE Inv'
    OBVIOUS
  <2>1. Shape' /\ UsedNotIdle'
    BY ShapeStep, UsedStep
  <2>2. OneHolder'
    <3>1. CASE UNCHANGED vars
      BY <3>1 DEF vars, handler, OneHolder, Holds
    <3> QED
      BY <3>1
  <2> QED
    BY <2>1, <2>2
<1>3. Inv => IdleMeansUnused
  BY DEF UsedNotIdle, IdleMeansUnused, Attached
<1> QED
  BY <1>1, <1>2, <1>3, PTL DEF OneHolderSpec

-----------------------------------------------------------------------------
(* Where registrations that ask for the same id do not overlap             *)
(* (SerialSpec).                                                           *)

\* A session id is chosen once.
IdsChosenOnce ==
    \A t \in Tunnels : pc[t] \in {"start", "recover", "generate"} => sessionId[t] = None

\* A random hash that a client presents was given to a session before.
HashesKnown ==
    \A t \in Tunnels : hs[t].clientId \in HashIds => \E s \in Tunnels : sessionId[s] = hs[t].clientId

\* A session that is about to be put has its id for itself: no session is
\* found under it, nor is another to be put under it ...
PutAlone ==
    \A t \in Tunnels : pc[t] = "put" =>
        /\ clients[sessionId[t]] = None
        /\ \A u \in Tunnels : pc[u] = "put" /\ sessionId[u] = sessionId[t] => u = t

\* ... and an id it did not ask for is a hash nobody else has or presents.
PutFresh ==
    \A t \in Tunnels : pc[t] = "put" /\ sessionId[t] # hs[t].clientId =>
        /\ sessionId[t] \in HashIds
        /\ \A u \in Tunnels : u # t => /\ sessionId[u] # sessionId[t]
                                       /\ hs[u].clientId # sessionId[t]

\* Every goroutine waits on the session of its own handler, which is open
\* until this goroutine closes it.
WatchOwn ==
    \A t \in Tunnels :
        /\ watch[t] # "none" => watched[t] = t
        /\ watch[t] \in {"waiting", "fired", "close"} \/ pc[t] = "watch" => Open(t)
        /\ watch[t] = "close" => found[t] = t
        /\ watch[t] = "remove" => recordChannel[t] = "closed" /\ Resolved(t)

SerialInv ==
    /\ Shape
    /\ ServerStaysUp
    /\ SerialIds
    /\ IdsChosenOnce
    /\ HashesKnown
    /\ PutAlone
    /\ PutFresh
    /\ WatchOwn
    /\ RegistryExact

\* What is left to show of a step.
SerialParts == IdsChosenOnce /\ HashesKnown /\ PutAlone /\ PutFresh /\ WatchOwn /\ RegistryExact

LEMMA SerialInit == Init => SerialInv
<1> SUFFICES ASSUME Init PROVE SerialInv
  OBVIOUS
<1> USE ConstantsAssumption DEF Init
<1>1. Shape
  BY ShapeInit
<1>2. ServerStaysUp /\ SerialIds /\ IdsChosenOnce /\ HashesKnown
  BY DEF ServerStaysUp, SerialIds, Registering, IdsChosenOnce, HashesKnown, NoHandshake, ClientIds
<1>3. PutAlone /\ PutFresh /\ WatchOwn /\ RegistryExact
  BY DEF PutAlone, PutFresh, WatchOwn, RegistryExact, Open
<1> QED
  BY <1>1, <1>2, <1>3 DEF SerialInv

\* The id a client presents is no hash, or the id of a session that was made.
LEMMA HandshakeIds ==
    ASSUME Shape, NEW h \in Handshakes, h.clientId \in HashIds
    PROVE  \E s \in Tunnels : recordChannel[s] # "unmade" /\ sessionId[s] = h.clientId
<1> USE ConstantsAssumption DEF ClientIds
<1>1. PICK key \in Clients :
        h \in [clientId : Names \cup {None}, key : {key}, bearer : {None}]
                \cup [clientId : Names \cup IdsSentTo(key), key : {key}, bearer : {key}]
                \cup [clientId : Names, key : {key}, bearer : {OtherSeed}]
  BY DEF Handshakes
<1>2. h.clientId \in IdsSentTo(key)
  BY <1>1
<1>3. PICK t \in Tunnels : session[t] # None /\ h.clientId = sessionId[session[t]]
  BY <1>2 DEF IdsSentTo
<1> QED
  BY <1>3 DEF Shape, TypeOK, HandlerShape

LEMMA SerialHandshake ==
    ASSUME SerialInv, NEW t \in Tunnels, ReceiveHandshake(t)
    PROVE  SerialParts'
<1> USE ConstantsAssumption DEF SerialInv
<1>1. PICK h \in Handshakes : hs' = [hs EXCEPT ![t] = h]
  BY DEF ReceiveHandshake
<1>2. /\ pc[t] = "start" /\ pc'[t] \in {"recover", "done"}
      /\ \A u \in Tunnels : u # t => pc'[u] = pc[u]
      /\ clients' = clients /\ sessionId' = sessionId /\ recordChannel' = recordChannel
      /\ watch' = watch /\ watched' = watched /\ found' = found
  BY DEF ReceiveHandshake, Step, registry, identity, watcher, Shape, TypeOK
<1>3. hs'[t] = h /\ \A u \in Tunnels : u # t => hs'[u] = hs[u]
  BY <1>1 DEF Shape, TypeOK
<1>4. IdsChosenOnce' /\ PutAlone'
  BY <1>2 DEF IdsChosenOnce, PutAlone
<1>5. HashesKnown'
  BY <1>2, <1>3, HandshakeIds DEF HashesKnown
<1>6. PutFresh'
  <2> SUFFICES ASSUME NEW u \in Tunnels, pc[u] = "put", sessionId[u] # hs[u].clientId, u # t
               PROVE  h.clientId # sessionId[u]
    BY <1>2, <1>3 DEF PutFresh
  <2>1. sessionId[u] \in HashIds /\ \A v \in Tunnels : v # u => sessionId[v] # sessionId[u]
    BY DEF PutFresh
  <2>2. recordChannel[u] = "unmade"
    BY DEF Shape, EarlyShape
  <2> QED
    BY <2>1, <2>2, HandshakeIds
<1>7. WatchOwn' /\ RegistryExact'
  BY <1>2 DEF WatchOwn, RegistryExact, Open, Resolved
<1> QED
  BY <1>4, <1>5, <1>6, <1>7 DEF SerialParts

\* Steps that touch no id, no registration and no goroutine.
LEMMA SerialQuiet ==
    ASSUME SerialInv, NEW t \in Tunnels, RecoverSession(t) \/ IdleStep(t)
    PROVE  SerialParts'
<1> USE DEF SerialInv
<1>1. /\ clients' = clients /\ sessionId' = sessionId /\ recordChannel' = recordChannel
      /\ hs' = hs /\ watch' = watch /\ watched' = watched /\ found' = found
  BY DEF RecoverSession, IdleStep, ClearIdle, StopTimer, Disconnect, ArmTimer, registry,
         identity, watcher
<1>2. /\ pc'[t] \in {"put", "watch"} => FALSE
      /\ pc'[t] \in {"start", "recover", "generate"} => pc[t] = "recover"
      /\ \A u \in Tunnels : u # t => pc'[u] = pc[u]
  BY DEF RecoverSession, IdleStep, ClearIdle, StopTimer, Disconnect, ArmTimer, Step, Shape, TypeOK
<1>3. IdsChosenOnce' /\ HashesKnown' /\ PutAlone' /\ PutFresh'
  BY <1>1, <1>2 DEF IdsChosenOnce, HashesKnown, PutAlone, PutFresh
<1>4. WatchOwn' /\ RegistryExact'
  BY <1>1, <1>2 DEF WatchOwn, RegistryExact, Open, Resolved
<1> QED
  BY <1>3, <1>4 DEF SerialParts

LEMMA SerialGenerate ==
    ASSUME SerialInv, SerialIds', NEW t \in Tunnels, GenerateClientId(t)
    PROVE  SerialParts'
<1> USE ConstantsAssumption DEF SerialInv
<1>1. /\ pc[t] = "generate" /\ pc'[t] \in {"put", "done"}
      /\ \A u \in Tunnels : u # t => pc'[u] = pc[u] /\ sessionId'[u] = sessionId[u]
      /\ clients' = clients /\ recordChannel' = recordChannel /\ hs' = hs
      /\ watch' = watch /\ watched' = watched /\ found' = found
  BY DEF GenerateClientId, Step, registry, watcher, Shape, TypeOK
<1>2. sessionId[t] = None /\ recordChannel[t] = "unmade" /\ watch[t] = "none"
  BY <1>1 DEF IdsChosenOnce, Shape, EarlyShape
<1>3. CASE pc'[t] = "done"
  <2>1. sessionId' = sessionId
    BY <1>3 DEF GenerateClientId, Step, Shape, TypeOK
  <2>2. IdsChosenOnce' /\ HashesKnown' /\ PutAlone' /\ PutFresh'
    BY <1>1, <1>3, <2>1 DEF IdsChosenOnce, HashesKnown, PutAlone, PutFresh
  <2>3. WatchOwn' /\ RegistryExact'
    BY <1>1, <1>3, <2>1 DEF WatchOwn, RegistryExact, Open, Resolved
  <2> QED
    BY <2>2, <2>3 DEF SerialParts
<1>4. CASE pc'[t] = "put"
  <2> DEFINE id == sessionId'[t]
  <2>1. id \in generateClientId(hs[t].clientId)
    BY <1>4 DEF GenerateClientId, Step, Shape, TypeOK
  <2>2. \/ id = hs[t].clientId /\ id # None /\ clients[id] = None
        \/ id \in HashIds /\ \A u \in Tunnels : sessionId[u] # id
    BY <2>1 DEF generateClientId, FreshHashIds, Exists
  <2>3. id \in ClientIds
    BY <2>2 DEF Shape, TypeOK, ClientIds
  <2>4. clients[id] = None
    BY <2>2, <2>3 DEF Shape, TypeOK, RegistryShape
  <2>5. IdsChosenOnce'
    BY <1>1, <1>4 DEF IdsChosenOnce
  <2>6. HashesKnown'
    BY <1>1, <1>2 DEF HashesKnown, ClientIds
  <2>7. \A u \in Tunnels : u # t /\ pc[u] = "put" => sessionId[u] # id
    <3> SUFFICES ASSUME NEW u \in Tunnels, u # t, pc[u] = "put", sessionId[u] = id
                 PROVE  FALSE
      OBVIOUS
    <3>1. id = hs[t].clientId /\ id # None
      BY <2>2
    <3>2. sessionId[u] = hs[u].clientId
      BY <3>1 DEF PutFresh
    <3> QED
      BY <3>1, <3>2, <1>1, <1>4 DEF SerialIds, Registering
  <2>8. PutAlone'
    BY <1>1, <2>4, <2>7 DEF PutAlone
  <2>9. PutFresh'
    <3>1. ASSUME NEW u \in Tunnels, u # t, pc[u] = "put", sessionId[u] # hs[u].clientId
          PROVE  /\ sessionId[u] \in HashIds
                 /\ \A v \in Tunnels : v # u => /\ sessionId'[v] # sessionId[u]
                                                /\ hs[v].clientId # sessionId[u]
      BY <3>1, <1>1, <2>7 DEF PutFresh
    <3>2. ASSUME id # hs[t].clientId
          PROVE  /\ id \in HashIds
                 /\ \A v \in Tunnels : v # t => sessionId[v] # id /\ hs[v].clientId # id
      BY <3>2, <2>2 DEF HashesKnown
    <3> QED
      BY <1>1, <3>1, <3>2 DEF PutFresh
  <2>10. \A s \in Tunnels : s # t => (Resolved(s)' <=> Resolved(s))
    BY <1>1 DEF Resolved
  <2>11. WatchOwn'
    BY <1>1, <1>2, <1>4, <2>10 DEF WatchOwn, Open
  <2>12. RegistryExact'
    BY <1>1, <1>2, <2>10 DEF RegistryExact, Open
  <2> QED
    BY <2>5, <2>6, <2>8, <2>9, <2>11, <2>12 DEF SerialParts
<1> QED
  BY <1>1, <1>3, <1>4

LEMMA SerialPut ==
    ASSUME SerialInv, NEW t \in Tunnels, PutSession(t)
    PROVE  SerialParts'
<1> USE ConstantsAssumption DEF SerialInv
<1>1. /\ pc[t] = "put" /\ pc'[t] = "watch"
      /\ \A u \in Tunnels : u # t => pc'[u] = pc[u] /\ recordChannel'[u] = recordChannel[u]
      /\ recordChannel'[t] = "open"
      /\ clients' = [clients EXCEPT ![sessionId[t]] = t]
      /\ sessionId' = sessionId /\ hs' = hs
      /\ watch' = watch /\ watched' = watched /\ found' = found
  BY DEF PutSession, Step, watcher, Shape, TypeOK
<1>2. /\ sessionId[t] \in ClientIds /\ watch[t] = "none" /\ clients[sessionId[t]] = None
      /\ clients \in [ClientIds -> Tunnels \cup {None}]
  BY <1>1 DEF Shape, TypeOK, HandlerShape, EarlyShape, PutAlone
<1>3. IdsChosenOnce' /\ HashesKnown' /\ PutFresh'
  BY <1>1 DEF IdsChosenOnce, HashesKnown, PutFresh
<1>4. PutAlone'
  <2> SUFFICES ASSUME NEW u \in Tunnels, pc[u] = "put", u # t
               PROVE  clients'[sessionId[u]] = None
    BY <1>1 DEF PutAlone
  <2>1. sessionId[u] # sessionId[t] /\ clients[sessionId[u]] = None
    BY <1>1 DEF PutAlone
  <2>2. sessionId[u] \in ClientIds
    BY DEF Shape, HandlerShape
  <2> QED
    BY <1>1, <1>2, <2>1, <2>2
<1>5. \A s \in Tunnels : s # t => (Resolved(s)' <=> Resolved(s))
  <2>1. \A s \in Tunnels : sessionId[s] \in ClientIds \cup {None}
    BY DEF Shape, TypeOK
  <2> QED
    BY <1>1, <1>2, <2>1 DEF Resolved
<1>6. Resolved(t)' /\ Open(t)'
  BY <1>1, <1>2 DEF Resolved, Open, ClientIds
<1>7. WatchOwn'
  BY <1>1, <1>2, <1>5, <1>6 DEF WatchOwn, Open
<1>8. RegistryExact'
  BY <1>1, <1>5, <1>6 DEF RegistryExact, Open
<1> QED
  BY <1>3, <1>4, <1>7, <1>8 DEF SerialParts

LEMMA SerialWatch ==
    ASSUME SerialInv, NEW t \in Tunnels, DeregisterOnTimeout(t)
    PROVE  SerialParts' /\ ServerStaysUp'
<1> USE ConstantsAssumption DEF SerialInv
<1>1. /\ pc[t] = "watch" /\ pc'[t] = "busy" /\ watch'[t] = "waiting"
      /\ watched'[t] = clients[sessionId[t]]
      /\ \A u \in Tunnels : u # t => pc'[u] = pc[u] /\ watch'[u] = watch[u] /\ watched'[u] = watched[u]
      /\ clients' = clients /\ sessionId' = sessionId /\ recordChannel' = recordChannel
      /\ hs' = hs /\ found' = found
  BY DEF DeregisterOnTimeout, Step, WatchStep, registry, identity, Shape, TypeOK
<1>2. Open(t) /\ clients[sessionId[t]] = t
  BY <1>1 DEF WatchOwn, RegistryExact, Resolved
<1>3. ServerStaysUp'
  BY <1>2 DEF DeregisterOnTimeout, ServerStaysUp
<1>4. IdsChosenOnce' /\ HashesKnown' /\ PutAlone' /\ PutFresh'
  BY <1>1 DEF IdsChosenOnce, HashesKnown, PutAlone, PutFresh
<1>5. WatchOwn'
  BY <1>1, <1>2 DEF WatchOwn, Open, Resolved
<1>6. RegistryExact'
  BY <1>1 DEF RegistryExact, Open, Resolved, Shape, EarlyShape
<1> QED
  BY <1>3, <1>4, <1>5, <1>6 DEF SerialParts

LEMMA SerialWatcher ==
    ASSUME SerialInv, NEW t \in Tunnels, WatcherStep(t)
    PROVE  SerialParts' /\ ServerStaysUp'
<1> USE ConstantsAssumption DEF SerialInv, WatchStep
<1>1. /\ pc' = pc /\ sessionId' = sessionId /\ hs' = hs /\ watched' = watched
      /\ \A u \in Tunnels : u # t => watch'[u] = watch[u] /\ found'[u] = found[u]
      /\ watch[t] \in {"waiting", "fired", "close", "remove"}
  BY DEF WatcherStep, TimerFires, DeregisterGet, DeregisterClose, DeregisterPut,
         identity, handler, Shape, TypeOK
<1>2. /\ watched[t] = t /\ pc[t] # "watch" /\ sessionId[t] \in ClientIds
      /\ Resolved(t)
  <2>1. watched[t] = t
    BY <1>1 DEF WatchOwn
  <2>2. recordChannel[t] # "unmade" /\ Resolved(t)
    BY <1>1 DEF WatchOwn, RegistryExact, Open
  <2> QED
    BY <1>1, <2>1, <2>2 DEF Shape, TypeOK, EarlyShape
<1>3. IdsChosenOnce' /\ HashesKnown' /\ PutFresh'
  BY <1>1 DEF IdsChosenOnce, HashesKnown, PutFresh
<1>4. CASE TimerFires(t) \/ DeregisterGet(t)
  <2>1. /\ clients' = clients /\ recordChannel' = recordChannel /\ crashed' = crashed
        /\ watch[t] \in {"waiting", "fired"} /\ watch'[t] \in {"fired", "close"}
        /\ watch'[t] = "close" => found'[t] = clients[sessionId[t]]
    BY <1>2, <1>4 DEF TimerFires, DeregisterGet, registry, Shape, TypeOK
  <2>2. PutAlone' /\ ServerStaysUp'
    BY <1>1, <2>1 DEF PutAlone, ServerStaysUp
  <2>3. WatchOwn'
    BY <1>1, <1>2, <2>1 DEF WatchOwn, Open, Resolved
  <2>4. RegistryExact'
    BY <1>1, <2>1 DEF RegistryExact, Open, Resolved
  <2> QED
    BY <1>3, <2>2, <2>3, <2>4 DEF SerialParts
<1>5. CASE DeregisterClose(t)
  <2>1. watch[t] = "close" /\ watch'[t] = "remove" /\ clients' = clients
    BY <1>5 DEF DeregisterClose, registry, Shape, TypeOK
  <2>2. found[t] = t /\ Closable(t)
    BY <2>1 DEF WatchOwn, Closable, Open
  <2>3. /\ recordChannel'[t] = "closed" /\ crashed' = crashed
        /\ \A s \in Tunnels : s # t => recordChannel'[s] = recordChannel[s]
    BY <1>5, <2>2 DEF DeregisterClose, Shape, TypeOK
  <2>4. PutAlone' /\ ServerStaysUp'
    BY <1>1, <2>1, <2>3 DEF PutAlone, ServerStaysUp
  <2>5. WatchOwn'
    BY <1>1, <1>2, <2>1, <2>3 DEF WatchOwn, Open, Resolved
  <2>6. RegistryExact'
    BY <1>1, <2>1, <2>3 DEF RegistryExact, Open, Resolved
  <2> QED
    BY <1>3, <2>4, <2>5, <2>6 DEF SerialParts
<1>6. CASE DeregisterPut(t)
  <2>1. /\ watch[t] = "remove" /\ watch'[t] = "done" /\ recordChannel' = recordChannel
        /\ clients' = [clients EXCEPT ![sessionId[t]] = None] /\ crashed' = crashed
    BY <1>2, <1>6 DEF DeregisterPut, Shape, TypeOK
  <2>2. clients \in [ClientIds -> Tunnels \cup {None}]
        /\ \A s \in Tunnels : sessionId[s] \in ClientIds \cup {None}
    BY DEF Shape, TypeOK
  <2>3. recordChannel[t] = "closed"
    BY <2>1 DEF WatchOwn
  <2>4. \A s \in Tunnels : s # t => (Resolved(s)' <=> Resolved(s))
    BY <1>1, <1>2, <2>1, <2>2 DEF Resolved
  <2>5. ~Resolved(t)'
    BY <1>1, <1>2, <2>1, <2>2 DEF Resolved
  <2>6. PutAlone' /\ ServerStaysUp'
    BY <1>1, <2>1, <2>2 DEF PutAlone, ServerStaysUp
  <2>7. WatchOwn'
    BY <1>1, <1>2, <2>1, <2>4 DEF WatchOwn, Open
  <2>8. RegistryExact'
    BY <1>1, <2>1, <2>3, <2>4, <2>5 DEF RegistryExact, Open
  <2> QED
    BY <1>3, <2>6, <2>7, <2>8 DEF SerialParts
<1> QED
  BY <1>4, <1>5, <1>6 DEF WatcherStep

LEMMA SerialStep == SerialInv /\ [Next /\ SerialIds']_vars => SerialInv'
<1> SUFFICES ASSUME SerialInv, [Next /\ SerialIds']_vars PROVE SerialInv'
  OBVIOUS
<1>1. Shape'
  BY ShapeStep DEF SerialInv
<1>2. CASE Next /\ SerialIds'
  <2>1. PICK t \in Tunnels : \/ ReceiveHandshake(t)
                             \/ ServerHandlerStep(t)
                             \/ Disconnect(t)
                             \/ WatcherStep(t)
    BY <1>2 DEF Next
  <2>2. SerialParts'
    BY <1>2, <2>1, SerialHandshake, SerialQuiet, SerialGenerate, SerialPut, SerialWatch,
       SerialWatcher DEF ServerHandlerStep, IdleStep
  <2>3. CASE DeregisterOnTimeout(t) \/ WatcherStep(t)
    BY <1>1, <1>2, <2>2, <2>3, SerialWatch, SerialWatcher DEF SerialInv, SerialParts
  <2>4. CASE ~(DeregisterOnTimeout(t) \/ WatcherStep(t))
    <3>1. crashed' = crashed
      BY <2>1, <2>4 DEF ReceiveHandshake, ServerHandlerStep, RecoverSession, GenerateClientId,
                        PutSession, IdleStep, ClearIdle, StopTimer, Disconnect, ArmTimer
    <3> QED
      BY <1>1, <1>2, <2>2, <3>1 DEF SerialInv, SerialParts, ServerStaysUp
  <2> QED
    BY <2>3, <2>4
<1>3. CASE UNCHANGED vars
  <2> USE <1>3 DEF vars, registry, identity, idleTimer, handler, watcher, SerialInv
  <2>1. SerialIds' /\ ServerStaysUp' /\ IdsChosenOnce' /\ HashesKnown' /\ PutAlone' /\ PutFresh'
    BY DEF SerialIds, Registering, ServerStaysUp, IdsChosenOnce, HashesKnown, PutAlone, PutFresh
  <2>2. WatchOwn' /\ RegistryExact'
    BY DEF WatchOwn, RegistryExact, Open, Resolved
  <2> QED
    BY <1>1, <2>1, <2>2
<1> QED
  BY <1>2, <1>3

THEOREM SerialHolds == SerialSpec => []SerialInv
  BY SerialInit, SerialStep, PTL DEF SerialSpec

\* If no two registrations for an id overlap, the registry knows exactly the
\* open sessions, but for those Deregister is about to remove.
THEOREM RegistryExactHolds == SerialSpec => []RegistryExact
<1>1. SerialInv => RegistryExact
  BY DEF SerialInv
<1> QED
  BY <1>1, SerialHolds, PTL

\* Then no goroutine of the registry panics either ...
THEOREM ServerStaysUpHolds == SerialSpec => []ServerStaysUp
<1>1. SerialInv => ServerStaysUp
  BY DEF SerialInv
<1> QED
  BY <1>1, SerialHolds, PTL

\* ... two open sessions never share an id, as docs/server.md says ...
THEOREM DistinctIdsHolds == SerialSpec => []DistinctIds
<1>1. SerialInv => DistinctIds
  BY DEF SerialInv, RegistryExact, DistinctIds, Resolved
<1> QED
  BY <1>1, SerialHolds, PTL

\* ... and a session is only ever closed by its own timer.
THEOREM ClosedByOwnTimerHolds == SerialSpec => ClosedByOwnTimer
<1> DEFINE Closed ==
      \A s \in Tunnels :
          Open(s) /\ recordChannel'[s] = "closed" => watch[s] = "close" /\ watch'[s] = "remove"
<1>1. SerialInv /\ [Next /\ SerialIds']_vars => [Closed]_vars
  <2> SUFFICES ASSUME SerialInv, Next, NEW s \in Tunnels, Open(s), recordChannel'[s] = "closed"
               PROVE  watch[s] = "close" /\ watch'[s] = "remove"
    OBVIOUS
  <2>1. PICK t \in Tunnels : \/ ReceiveHandshake(t)
                             \/ ServerHandlerStep(t)
                             \/ Disconnect(t)
                             \/ WatcherStep(t)
    BY DEF Next
  <2>2. DeregisterClose(t)
    BY <2>1 DEF ReceiveHandshake, ServerHandlerStep, RecoverSession, GenerateClientId, PutSession,
                DeregisterOnTimeout, IdleStep, ClearIdle, StopTimer, Disconnect, ArmTimer,
                WatcherStep, TimerFires, DeregisterGet, DeregisterPut, Open, SerialInv, Shape, TypeOK
  <2>3. watch[t] = "close" /\ watch'[t] = "remove" /\ found[t] = t
    BY <2>2 DEF DeregisterClose, WatchStep, SerialInv, WatchOwn, Shape, TypeOK
  <2> QED
    BY <2>2, <2>3 DEF DeregisterClose, Open, SerialInv, Shape, TypeOK
<1> QED
  BY <1>1, SerialHolds, PTL DEF SerialSpec, ClosedByOwnTimer
=============================================================================
