------------------------- MODULE SessionStatusProofs -------------------------
(***************************************************************************)
(* Theorems about TunnelClient, the connection loop, and SessionStatus,    *)
(* what the page tells of it.                                              *)
(***************************************************************************)
EXTENDS SessionStatus, FiniteSetTheorems, SequenceTheorems, TLAPS

-----------------------------------------------------------------------------
(* The loop.                                                               *)

\* What a step that is not the loop's or the server's leaves alone.
quietVars == <<maxReconnectAttempts, serverVars, loopVars, breaks, hasSession, expireAt, status>>

Advances == (TunnelStep \/ WorldStep) /\ UNCHANGED pageVars

LEMMA PageStep ==
    ASSUME Next, ~Advances
    PROVE  /\ UNCHANGED quietVars
           /\ now' = now \/ (now < MaxTime /\ now' = now + 1)
           /\ published' = published \/ published' = FALSE
<1> USE DEF quietVars, Advances, tunnelVars, serverVars, worldVars, loopVars, sessionVars
<1>1. CASE StreamStep
  BY <1>1 DEF StreamStep, SendSession, SubscribeStatus, HandStatus, ForwardStatus, OnSession
<1>2. CASE StreamBreaks \/ StreamFails \/ RestoreThreshold
  BY <1>2 DEF StreamBreaks, StreamFails, RestoreThreshold
<1>3. CASE Mount \/ Unmount
  BY <1>3 DEF Mount, Unmount
<1>4. CASE \E i \in intervals : IntervalFires(i)
  BY <1>4 DEF IntervalFires
<1>5. CASE Tick
  BY <1>5 DEF Tick
<1> QED BY <1>1, <1>2, <1>3, <1>4, <1>5 DEF Next

\* The parts of TunnelTypeOK that are about truth values, and the others.
TunnelFlags ==
    /\ serverTls \in BOOLEAN /\ up \in BOOLEAN /\ enableTls \in BOOLEAN
    /\ hasSession \in BOOLEAN /\ published \in BOOLEAN

TunnelValues ==
    /\ maxReconnectAttempts \in Limits /\ connectionTimeout \in Timeouts
    /\ breaks \in 0..MaxBreaks /\ now \in 1..MaxTime
    /\ pc \in {"head", "wait", "dial", "open", "session", "tunnel", "ended",
              "sniffing", "exited"}
    /\ attempt \in Int /\ err \in Errors
    /\ expireAt \in Nat /\ status \in Status /\ dials \in Nat

LEMMA TunnelTypeParts == TunnelTypeOK <=> TunnelFlags /\ TunnelValues
BY DEF TunnelTypeOK, TunnelFlags, TunnelValues

LEMMA TunnelFlagsStep ==
    ASSUME TunnelFlags, [Next]_vars
    PROVE  TunnelFlags'
<1> USE DEF TunnelFlags, serverVars, worldVars, loopVars, sessionVars, tunnelVars
<1>1. CASE LoopStep
  <2>1. CASE LoopEnds \/ StartWaiting \/ SniffOnlyOrExit
    BY <2>1, <1>1, Zenon DEF LoopStep, LoopEnds, StartWaiting, SniffOnlyOrExit
  <2>2. CASE FirstAttempt \/ GiveUp \/ Waited \/ Connected
    BY <2>2, <1>1, Zenon DEF LoopStep, FirstAttempt, GiveUp, Waited, Connected, ChangeStatusAndPublish
  <2>3. CASE Dial
    BY <2>3, <1>1, Zenon DEF LoopStep, Dial, Fails
  <2>4. CASE OpenTunnel
    BY <2>4, <1>1, Zenon DEF LoopStep, OpenTunnel, Fails
  <2> QED BY <2>1, <2>2, <2>3, <2>4, <1>1 DEF LoopStep
<1>2. CASE TunnelBreaks \/ Expires
  BY <1>2, Zenon DEF TunnelBreaks, Expires, Broken
<1>3. CASE WorldStep
  BY <1>3, Zenon DEF WorldStep, ServerGoes, ServerReturns
<1>4. CASE Next /\ ~Advances
  <2>1. UNCHANGED quietVars /\ (published' = published \/ published' = FALSE)
    BY <1>4, PageStep
  <2> QED BY <2>1, Zenon DEF quietVars
<1>5. CASE UNCHANGED vars
  BY <1>5, Zenon DEF vars
<1> QED BY <1>1, <1>2, <1>3, <1>4, <1>5 DEF Advances, TunnelStep

LEMMA TunnelValuesStep ==
    ASSUME TunnelValues, [Next]_vars
    PROVE  TunnelValues'
<1> USE LimitsAssumption DEF TunnelValues, Status, Errors
<1> USE DEF serverVars, worldVars, loopVars, sessionVars, tunnelVars
<1>1. CASE LoopStep
  <2>1. CASE LoopEnds \/ StartWaiting \/ SniffOnlyOrExit
    BY <2>1, <1>1 DEF LoopStep, LoopEnds, StartWaiting, SniffOnlyOrExit
  <2>2. CASE FirstAttempt \/ GiveUp \/ Waited \/ Connected
    BY <2>2, <1>1 DEF LoopStep, FirstAttempt, GiveUp, Waited, Connected, ChangeStatusAndPublish
  <2>3. CASE Dial
    BY <2>3, <1>1 DEF LoopStep, Dial, Fails
  <2>4. CASE OpenTunnel
    <3>1. ServerExpireAt \in Nat
      BY DEF ServerExpireAt, HandshakeExpireAt
    <3> QED BY <3>1, <2>4, <1>1 DEF LoopStep, OpenTunnel, Fails
  <2> QED BY <2>1, <2>2, <2>3, <2>4, <1>1 DEF LoopStep
<1>2. CASE TunnelBreaks \/ Expires
  BY <1>2 DEF TunnelBreaks, Expires, Broken
<1>3. CASE WorldStep
  BY <1>3 DEF WorldStep, ServerGoes, ServerReturns
<1>4. CASE Next /\ ~Advances
  <2>1. UNCHANGED quietVars /\ (now' = now \/ (now < MaxTime /\ now' = now + 1))
    BY <1>4, PageStep
  <2> QED BY <2>1 DEF quietVars
<1>5. CASE UNCHANGED vars
  BY <1>5 DEF vars
<1> QED BY <1>1, <1>2, <1>3, <1>4, <1>5 DEF Advances, TunnelStep

(* The connection loop keeps its types.                                    *)
THEOREM TunnelTypeCorrect == Spec => []TunnelTypeOK
<1>1. Init => TunnelTypeOK
  <2> SUFFICES ASSUME Init PROVE TunnelFlags /\ TunnelValues
    BY TunnelTypeParts
  <2>1. TunnelFlags
    BY Zenon DEF Init, TunnelInit, TunnelFlags
  <2>2. TunnelValues
    BY LimitsAssumption DEF Init, TunnelInit, TunnelValues, Status, Errors
  <2> QED BY <2>1, <2>2
<1>2. TunnelTypeOK /\ [Next]_vars => TunnelTypeOK'
  <2> SUFFICES ASSUME TunnelTypeOK, [Next]_vars PROVE TunnelFlags' /\ TunnelValues'
    BY DEF TunnelTypeOK, TunnelFlags, TunnelValues
  <2> QED BY TunnelTypeParts, TunnelFlagsStep, TunnelValuesStep
<1> QED BY <1>1, <1>2, PTL DEF Spec

LEMMA TunnelTypeStep ==
    ASSUME TunnelTypeOK, [Next]_vars
    PROVE  TunnelTypeOK'
<1>1. TunnelFlags' /\ TunnelValues'
  BY TunnelTypeParts, TunnelFlagsStep, TunnelValuesStep
<1> QED BY <1>1 DEF TunnelTypeOK, TunnelFlags, TunnelValues

\* What the loop's condition and isRetriable leave of the attempts at each
\* of its points, and how the attempts made follow from them.
LoopInv ==
    /\ pc = "wait" => hasSession
    /\ maxReconnectAttempts >= 0 =>
        /\ pc \in {"head", "ended", "sniffing", "exited"} => attempt <= maxReconnectAttempts
        /\ pc \in {"wait", "dial", "open"} => attempt < maxReconnectAttempts
        /\ pc = "head" /\ err = "none" => attempt = -1
        /\ hasSession =>
            /\ pc \in {"head", "wait", "ended", "sniffing", "exited"} => dials = attempt
            /\ pc \in {"dial", "open"} => dials = attempt + 1
            /\ pc \in {"session", "tunnel"} => dials = 0
            /\ LoopOver /\ isRecoverable => dials = maxReconnectAttempts

LEMMA LoopInvStep ==
    ASSUME TunnelTypeOK, LoopInv, [Next]_vars
    PROVE  LoopInv'
<1>0. /\ maxReconnectAttempts \in Int /\ attempt \in Int /\ dials \in Nat
      /\ pc \in {"head", "wait", "dial", "open", "session", "tunnel", "ended",
                "sniffing", "exited"}
  BY LimitsAssumption DEF TunnelTypeOK
<1> USE <1>0 DEF LoopInv, LoopOver, isRecoverable
<1> USE DEF serverVars, worldVars, loopVars, sessionVars, tunnelVars
<1>1. CASE LoopStep
  <2>1. CASE LoopEnds \/ StartWaiting \/ SniffOnlyOrExit
    BY <2>1, <1>1 DEF LoopStep, LoopEnds, StartWaiting, SniffOnlyOrExit, isRetriable
  <2>2. CASE FirstAttempt \/ Waited \/ Connected
    BY <2>2, <1>1 DEF LoopStep, FirstAttempt, Waited, Connected, ChangeStatusAndPublish
  <2>3. CASE GiveUp
    BY <2>3, <1>1 DEF LoopStep, GiveUp, ChangeStatusAndPublish, isRetriable
  <2>4. CASE Dial
    BY <2>4, <1>1 DEF LoopStep, Dial, Fails
  <2>5. CASE OpenTunnel
    BY <2>5, <1>1 DEF LoopStep, OpenTunnel, Fails
  <2> QED BY <2>1, <2>2, <2>3, <2>4, <2>5, <1>1 DEF LoopStep
<1>2. CASE TunnelBreaks \/ Expires
  BY <1>2 DEF TunnelBreaks, Expires, Broken
<1>3. CASE WorldStep
  BY <1>3 DEF WorldStep, ServerGoes, ServerReturns
<1>4. CASE Next /\ ~Advances
  <2>1. UNCHANGED quietVars
    BY <1>4, PageStep
  <2> QED BY <2>1 DEF quietVars
<1>5. CASE UNCHANGED vars
  BY <1>5 DEF vars
<1> QED BY <1>1, <1>2, <1>3, <1>4, <1>5 DEF Advances, TunnelStep

LEMMA LoopInvHolds == Spec => [](TunnelTypeOK /\ LoopInv)
<1>1. Init => LoopInv
  BY LimitsAssumption DEF Init, TunnelInit, LoopInv, LoopOver
<1>2. TunnelTypeOK /\ LoopInv /\ [Next]_vars => LoopInv'
  BY LoopInvStep
<1> QED BY <1>1, <1>2, TunnelTypeCorrect, PTL DEF Spec

(* For every positive limit: after a tunnel that broke the client dials     *)
(* again at most as often as it is told to, and gives up on an error that   *)
(* may pass only when it has.  0 is left out: the docs call it infinite,    *)
(* isRetriable gives up at once.                                            *)
THEOREM DialsHold == Spec => []DialsAsOftenAsTold
<1>1. TunnelTypeOK /\ LoopInv => DialsAsOftenAsTold
  <2> SUFFICES ASSUME TunnelTypeOK, LoopInv, hasSession, maxReconnectAttempts > 0
               PROVE  /\ dials <= maxReconnectAttempts
                      /\ LoopOver /\ isRecoverable => dials = maxReconnectAttempts
    BY DEF DialsAsOftenAsTold
  <2>1. maxReconnectAttempts \in Int /\ attempt \in Int /\ dials \in Nat
    BY LimitsAssumption DEF TunnelTypeOK
  <2> QED BY <2>1 DEF TunnelTypeOK, LoopInv
<1> QED BY <1>1, LoopInvHolds, PTL

LEMMA StatusStep ==
    ASSUME TunnelTypeOK, LoopInv, StatusTellsPhase, [Next]_vars
    PROVE  StatusTellsPhase'
<1>0. maxReconnectAttempts \in Int /\ attempt \in Int
  BY LimitsAssumption DEF TunnelTypeOK
<1> USE <1>0 DEF StatusTellsPhase, LoopInv, LoopOver
<1> USE DEF serverVars, worldVars, loopVars, sessionVars, tunnelVars
<1>1. CASE LoopStep
  <2>1. CASE LoopEnds \/ StartWaiting \/ SniffOnlyOrExit
    BY <2>1, <1>1 DEF LoopStep, LoopEnds, StartWaiting, SniffOnlyOrExit
  <2>2. CASE FirstAttempt \/ GiveUp \/ Waited \/ Connected
    BY <2>2, <1>1 DEF LoopStep, FirstAttempt, GiveUp, Waited, Connected, ChangeStatusAndPublish
  <2>3. CASE Dial
    BY <2>3, <1>1 DEF LoopStep, Dial, Fails
  <2>4. CASE OpenTunnel
    BY <2>4, <1>1 DEF LoopStep, OpenTunnel, Fails
  <2> QED BY <2>1, <2>2, <2>3, <2>4, <1>1 DEF LoopStep
<1>2. CASE TunnelBreaks \/ Expires
  BY <1>2 DEF TunnelBreaks, Expires, Broken
<1>3. CASE WorldStep
  BY <1>3 DEF WorldStep, ServerGoes, ServerReturns
<1>4. CASE Next /\ ~Advances
  <2>1. UNCHANGED quietVars
    BY <1>4, PageStep
  <2> QED BY <2>1 DEF quietVars
<1>5. CASE UNCHANGED vars
  BY <1>5 DEF vars
<1> QED BY <1>1, <1>2, <1>3, <1>4, <1>5 DEF Advances, TunnelStep

(* What is published tells where the loop is.                              *)
THEOREM StatusHolds == Spec => []StatusTellsPhase
<1>1. Init => StatusTellsPhase
  BY DEF Init, TunnelInit, StatusTellsPhase, LoopOver
<1>2. TunnelTypeOK /\ LoopInv /\ StatusTellsPhase /\ [Next]_vars => StatusTellsPhase'
  BY StatusStep
<1> QED BY <1>1, <1>2, LoopInvHolds, PTL DEF Spec

LEMMA OnlyTunnelsMoveExpiry ==
    ASSUME [Next]_vars, expireAt' # expireAt
    PROVE  expireAt' = ServerExpireAt
<1> USE DEF serverVars, worldVars, loopVars, sessionVars, tunnelVars
<1>1. CASE LoopStep
  BY <1>1 DEF LoopStep, LoopEnds, FirstAttempt, GiveUp, StartWaiting, Waited, Dial, OpenTunnel,
              Connected, SniffOnlyOrExit, Fails, ChangeStatusAndPublish
<1>2. CASE TunnelBreaks \/ Expires \/ WorldStep
  BY <1>2 DEF TunnelBreaks, Expires, Broken, WorldStep, ServerGoes, ServerReturns
<1>3. CASE Next /\ ~Advances
  <2>1. UNCHANGED quietVars
    BY <1>3, PageStep
  <2> QED BY <2>1 DEF quietVars
<1>4. CASE UNCHANGED vars
  BY <1>4 DEF vars
<1> QED BY <1>1, <1>2, <1>3, <1>4 DEF Advances, TunnelStep

(* No reconnection puts off the moment a session expires.                  *)
THEOREM ExpiryHolds == Spec => ExpiryNeverExtended
<1>1. ASSUME TunnelTypeOK, [Next]_vars
      PROVE  [expireAt # 0 => expireAt' # 0 /\ expireAt' <= expireAt]_expireAt
  <2>1. now \in 1..MaxTime /\ connectionTimeout \in Nat /\ expireAt \in Nat
    BY <1>1, LimitsAssumption DEF TunnelTypeOK
  <2>2. expireAt # 0 => ServerExpireAt # 0 /\ ServerExpireAt <= expireAt
    BY <2>1, LimitsAssumption DEF ServerExpireAt, HandshakeExpireAt
  <2> QED BY <1>1, <2>2, OnlyTunnelsMoveExpiry
<1> QED BY <1>1, TunnelTypeCorrect, PTL DEF Spec, ExpiryNeverExtended

-----------------------------------------------------------------------------
(* The page.                                                               *)

\* What a page may know of a session.
Known == [status : Status \cup {"none"}, expireAt : Int]

PageValues ==
    /\ conn \in {"connecting", "gap", "listening"}
    /\ wire \in Seq(Known) /\ Len(wire) <= WireSize
    /\ errors \in 0..MaxErrors /\ TenSecondErrorThreshold \in 0..2
    /\ sessionDetails \in Known

LEMMA DetailsKnown ==
    ASSUME TunnelTypeOK
    PROVE  Details \in Known
<1>1. status \in Status /\ expireAt \in Nat
  BY Zenon DEF TunnelTypeOK
<1> QED BY <1>1 DEF Details, Known

LEMMA AdvancesKeepPage ==
    ASSUME Advances \/ UNCHANGED vars
    PROVE  UNCHANGED pageVars
BY DEF Advances, vars

LEMMA PageValuesStep ==
    ASSUME TunnelTypeOK, PageValues, [Next]_vars
    PROVE  PageValues'
<1> USE PageAssumption DEF PageValues
<1>0. Details \in Known
  BY DetailsKnown
<1>1. CASE SendSession
  BY <1>0, <1>1 DEF SendSession
<1>2. CASE SubscribeStatus \/ HandStatus
  BY <1>2 DEF SubscribeStatus, HandStatus
<1>3. CASE ForwardStatus
  BY <1>0, <1>3 DEF ForwardStatus
<1>4. CASE OnSession
  <2>1. wire # <<>> /\ sessionDetails' = Head(wire) /\ wire' = Tail(wire)
        /\ UNCHANGED <<conn, errors, TenSecondErrorThreshold>>
    BY <1>4 DEF OnSession, SetDetails
  <2> QED BY <2>1
<1>5. CASE StreamBreaks \/ StreamFails
  <2>1. /\ conn' = "connecting" /\ wire' = <<>>
        /\ errors' = errors \/ (errors < MaxErrors /\ errors' = errors + 1)
        /\ OnError
    BY <1>5 DEF StreamBreaks, StreamFails, Disconnected
  <2>2. /\ TenSecondErrorThreshold' \in 0..2
        /\ sessionDetails' = sessionDetails
           \/ sessionDetails' = [sessionDetails EXCEPT !.status = "DISCONNECTED"]
    <3>1. \/ TenSecondErrorThreshold > 0 /\ TenSecondErrorThreshold' = TenSecondErrorThreshold - 1
             /\ sessionDetails' = sessionDetails
          \/ TenSecondErrorThreshold' = TenSecondErrorThreshold
             /\ sessionDetails' = [sessionDetails EXCEPT !.status = "DISCONNECTED"]
      BY <2>1, Zenon DEF OnError, SetDetails
    <3> QED BY <3>1
  <2>3. sessionDetails' \in Known
    BY <2>2 DEF Known, Status
  <2> QED BY <2>1, <2>2, <2>3
<1>6. CASE RestoreThreshold
  BY <1>6 DEF RestoreThreshold
<1>7. CASE Mount \/ Unmount \/ (\E i \in intervals : IntervalFires(i)) \/ Tick
  <2>1. UNCHANGED <<streamVars, sessionDetails>>
    BY <1>7 DEF Mount, Unmount, IntervalFires, Tick, pageVars
  <2> QED BY <2>1 DEF streamVars
<1>8. CASE Advances \/ UNCHANGED vars
  BY <1>8, AdvancesKeepPage DEF pageVars, streamVars
<1> QED BY <1>1, <1>2, <1>3, <1>4, <1>5, <1>6, <1>7, <1>8 DEF Next, StreamStep, Advances

LEMMA PageValuesHold == Spec => []PageValues
<1>1. Init => PageValues
  BY PageAssumption DEF Init, PageValues, NoDetails, Known
<1>2. TunnelTypeOK /\ PageValues /\ [Next]_vars => PageValues'
  BY PageValuesStep
<1> QED BY <1>1, <1>2, TunnelTypeCorrect, PTL DEF Spec

-----------------------------------------------------------------------------
(* The page and its stream.                                                *)

\* The last event of the stream, or what the page knows if there is none.
LastTold == IF wire = <<>> THEN sessionDetails ELSE wire[Len(wire)]

\* PageFollows while events are on their way, from the first on.
Told ==
    conn # "connecting" /\ ~dirty /\ ~published /\ ~missed /\ pc # "session" /\ ~esClosed
        => LastTold = Details

LEMMA AdvancesTell ==
    ASSUME Advances
    PROVE  \/ published'
           \/ pc' = "session"
           \/ pc # "session" /\ UNCHANGED <<status, expireAt, published>>
<1> USE DEF serverVars, worldVars, loopVars, sessionVars, tunnelVars
<1>1. CASE LoopStep
  BY <1>1 DEF LoopStep, LoopEnds, FirstAttempt, GiveUp, StartWaiting, Waited, Dial, OpenTunnel,
              Connected, SniffOnlyOrExit, Fails, ChangeStatusAndPublish
<1>2. CASE TunnelBreaks \/ Expires
  BY <1>2 DEF TunnelBreaks, Expires, Broken
<1>3. CASE WorldStep
  BY <1>3 DEF WorldStep, ServerGoes, ServerReturns
<1> QED BY <1>1, <1>2, <1>3 DEF Advances, TunnelStep

LEMMA OneOrMore ==
    ASSUME NEW n \in Nat \ {0} PROVE n = 1 \/ n > 1
OBVIOUS

LEMMA TailKeepsLast ==
    ASSUME NEW S, NEW s \in Seq(S), Len(s) \in Nat, Len(s) > 1
    PROVE  Tail(s) # <<>> /\ Tail(s)[Len(Tail(s))] = s[Len(s)]
<1>1. Len(s) \in Nat /\ Len(s) > 1
  OBVIOUS
<1>2. s # <<>>
  BY EmptySeq
<1>3. /\ Tail(s) \in Seq(S) /\ Len(Tail(s)) = Len(s) - 1
      /\ \A i \in 1..Len(Tail(s)) : Tail(s)[i] = s[i + 1]
  BY <1>2, HeadTailProperties
<1>4. Len(Tail(s)) \in 1..Len(Tail(s)) /\ Len(Tail(s)) + 1 = Len(s)
  BY <1>1, <1>3
<1>5. Tail(s)[Len(Tail(s))] = s[Len(Tail(s)) + 1]
  BY <1>3, <1>4
<1>6. Tail(s) # <<>>
  <2>1. Len(Tail(s)) # 0
    BY <1>1, <1>3
  <2>2. Len(<<>>) = 0
    OBVIOUS
  <2> QED BY <2>1, <2>2
<1> QED BY <1>4, <1>5, <1>6

LEMMA ToldStep ==
    ASSUME TunnelTypeOK, PageValues, Told, [Next]_vars
    PROVE  Told'
<1>1. CASE SendSession
  <2>1. wire' = <<Details>> /\ Details' = Details
    BY <1>1 DEF SendSession, Details, tunnelVars, sessionVars
  <2> QED BY <2>1 DEF Told, LastTold
<1>2. CASE SubscribeStatus
  <2>1. /\ UNCHANGED <<tunnelVars, dirty, wire, esClosed, missed, sessionDetails>>
        /\ conn = "gap"
    BY <1>2 DEF SubscribeStatus
  <2>2. Details' = Details /\ LastTold' = LastTold /\ pc' = pc /\ published' = published
    BY <2>1 DEF Details, LastTold, tunnelVars, sessionVars, loopVars
  <2> QED BY <2>1, <2>2 DEF Told
<1>3. CASE HandStatus
  <2>1. conn' = conn /\ (conn = "listening" => dirty') /\ (conn = "gap" => missed')
    BY <1>3 DEF HandStatus
  <2> QED BY <2>1 DEF Told, PageValues
<1>4. CASE ForwardStatus
  <2>1. wire' = Append(wire, Details) /\ Details' = Details
    BY <1>4 DEF ForwardStatus, Details, tunnelVars, sessionVars
  <2>2. wire' # <<>> /\ wire'[Len(wire')] = Details
    BY <2>1, DetailsKnown DEF PageValues
  <2> QED BY <2>1, <2>2 DEF Told, LastTold
<1>5. CASE OnSession
  <2>1. /\ wire # <<>> /\ sessionDetails' = Head(wire) /\ wire' = Tail(wire)
        /\ UNCHANGED <<tunnelVars, conn, dirty, esClosed, missed>>
    BY <1>5 DEF OnSession, SetDetails
  <2>2. LastTold' = LastTold
    <3>0. wire \in Seq(Known) /\ Len(wire) \in Nat \ {0}
      BY <2>1 DEF PageValues
    <3>1. CASE Len(wire) = 1
      <4>1. wire' = <<>> /\ Head(wire) = wire[Len(wire)]
        BY <2>1, <3>0, <3>1
      <4> QED BY <2>1, <4>1 DEF LastTold
    <3>2. CASE Len(wire) > 1
      <4>1. wire' # <<>> /\ wire'[Len(wire')] = wire[Len(wire)]
        BY <2>1, <3>0, <3>2, TailKeepsLast
      <4> QED BY <2>1, <4>1 DEF LastTold
    <3>3. Len(wire) = 1 \/ Len(wire) > 1
      BY <3>0, OneOrMore
    <3> QED BY <3>1, <3>2, <3>3, Zenon
  <2>3. Details' = Details /\ pc' = pc /\ published' = published
    BY <2>1 DEF Details, tunnelVars, sessionVars, loopVars
  <2> QED BY <2>1, <2>2, <2>3 DEF Told
<1>6. CASE StreamBreaks \/ StreamFails
  BY <1>6 DEF StreamBreaks, StreamFails, Disconnected, Told
<1>7. CASE RestoreThreshold \/ Mount \/ Unmount \/ (\E i \in intervals : IntervalFires(i)) \/ Tick
  <2>1. UNCHANGED <<conn, dirty, wire, esClosed, missed, sessionDetails>>
    BY <1>7 DEF RestoreThreshold, Mount, Unmount, IntervalFires, Tick, pageVars, streamVars
  <2>2. UNCHANGED <<loopVars, sessionVars>>
    BY <1>7 DEF RestoreThreshold, Mount, Unmount, IntervalFires, Tick, tunnelVars
  <2>3. Details' = Details /\ LastTold' = LastTold /\ pc' = pc /\ published' = published
    BY <2>1, <2>2 DEF Details, LastTold, sessionVars, loopVars
  <2> QED BY <2>1, <2>3 DEF Told
<1>8. CASE Advances
  <2>1. UNCHANGED <<conn, dirty, wire, esClosed, missed, sessionDetails>>
    BY <1>8, AdvancesKeepPage DEF pageVars, streamVars
  <2>2. CASE pc # "session" /\ UNCHANGED <<status, expireAt, published>>
    <3>1. Details' = Details /\ LastTold' = LastTold
      BY <2>1, <2>2 DEF Details, LastTold
    <3> QED BY <2>1, <2>2, <3>1 DEF Told
  <2> QED BY <1>8, <2>2, AdvancesTell DEF Told
<1>9. CASE UNCHANGED vars
  BY <1>9 DEF vars, tunnelVars, loopVars, sessionVars, pageVars, streamVars, Told, LastTold, Details
<1> QED BY <1>1, <1>2, <1>3, <1>4, <1>5, <1>6, <1>7, <1>8, <1>9 DEF Next, StreamStep, Advances

(* A page whose stream is quiet shows the status and the expiry the client  *)
(* has, unless one was published before its stream listened.                *)
THEOREM PageFollowsHolds == Spec => []PageFollows
<1>1. Init => Told
  BY DEF Init, Told
<1>2. TunnelTypeOK /\ PageValues /\ Told /\ [Next]_vars => Told'
  BY ToldStep
<1>3. Told => PageFollows
  BY DEF Told, LastTold, PageFollows
<1> QED BY <1>1, <1>2, <1>3, TunnelTypeCorrect, PageValuesHold, PTL DEF Spec

-----------------------------------------------------------------------------
(* The cards of the dashboard: what they show is what the page knows, and  *)
(* one timer at most keeps them so.                                        *)


Timers == [id : IntervalIds, due : Nat, expireTime : Int]

\* The timer i counts down to the expiry the page knows, and the card shows
\* what was left when it last fired.
Counting(i) ==
    /\ intervals = {i} /\ expireInterval = {i.id}
    /\ mounted /\ dateParses /\ expireDate = "date"
    /\ i.expireTime = sessionDetails.expireAt /\ i.expireTime > 0
    /\ i.due - PERIOD <= now /\ now <= i.due /\ i.due - PERIOD <= i.expireTime
    /\ expireRemaining = {i.expireTime - (i.due - PERIOD)}

\* No timer runs, as there is nothing to count down to any more, or yet.
Resting ==
    /\ intervals = {} /\ expireInterval = {} /\ expireRemaining = {}
    /\ expireDate \in {"none", "-", "never", "Expired"}
    /\ mounted /\ dateParses /\ sessionDetails.expireAt > 0
            => expireDate = "Expired" /\ sessionDetails.expireAt < now

ExpiryInv == Resting \/ \E i \in Timers : Counting(i)

StatusInv ==
    /\ sessionStatus \in Status \cup {"none"}
    /\ mounted => StatusShown

CardsInv == ExpiryInv /\ StatusInv

-----------------------------------------------------------------------------
LEMMA NowIsNat ==
    ASSUME TunnelTypeOK
    PROVE  now \in Nat /\ PERIOD \in Nat \ {0}
<1>1. now \in 1..MaxTime /\ MaxTime \in Nat
  BY LimitsAssumption, Zenon DEF TunnelTypeOK
<1> QED BY <1>1, PageAssumption

LEMMA StartedInterval ==
    ASSUME TunnelTypeOK, NEW e \in Int
    PROVE  \E j \in Timers : /\ j = StartInterval({}, e)
                             /\ j.due = now + PERIOD /\ j.expireTime = e
<1> DEFINE id == CHOOSE k \in IntervalIds : \A i \in {} : i.id # k
<1>1. 1 \in IntervalIds /\ \A i \in {} : i.id # 1
  BY DEF IntervalIds
<1>2. id \in IntervalIds
  BY <1>1, Zenon
<1>3. StartInterval({}, e) = [id |-> id, due |-> now + PERIOD, expireTime |-> e]
  BY Zenon DEF StartInterval
<1> HIDE DEF id
<1> QED BY <1>2, <1>3, NowIsNat DEF Timers

\* setExpireAt lets go of the timer that runs, and starts one or none.
LEMMA SetExpireAtStep ==
    ASSUME TunnelTypeOK, NEW d \in Known, NEW is, \A i \in is : i.id \in expireInterval,
           SetExpireAt(d, is), sessionDetails' = d, mounted', UNCHANGED <<now, dateParses>>
    PROVE  ExpiryInv'
<1>1. WithoutInterval(is, expireInterval) = {}
  BY DEF WithoutInterval
<1>2. d.expireAt \in Int
  BY DEF Known
<1>3. CASE \/ d.expireAt = 0 /\ expireDate' = "never"
           \/ (d.expireAt < 0 \/ (d.expireAt > 0 /\ ~dateParses)) /\ expireDate' = "-"
           \/ d.expireAt > 0 /\ dateParses /\ d.expireAt < now /\ expireDate' = "Expired"
  <2>1. expireRemaining' = {} /\ expireInterval' = {} /\ intervals' = {}
    BY <1>1, <1>2, <1>3 DEF SetExpireAt, HasExpired
  <2> QED BY <1>2, <1>3, <2>1 DEF ExpiryInv, Resting
<1>4. CASE /\ d.expireAt > 0 /\ dateParses /\ ~HasExpired(d.expireAt)
           /\ expireDate' = "date"
           /\ expireRemaining' = {MinutesLeft(d.expireAt)}
           /\ expireInterval' = {StartInterval({}, d.expireAt).id}
           /\ intervals' = {StartInterval({}, d.expireAt)}
  <2>1. PICK j \in Timers : /\ j = StartInterval({}, d.expireAt)
                            /\ j.due = now + PERIOD /\ j.expireTime = d.expireAt
    BY <1>2, StartedInterval
  <2>2. intervals' = {j} /\ expireInterval' = {j.id}
    BY <1>4, <2>1
  <2>3. /\ j.due - PERIOD = now /\ now <= j.due /\ now <= d.expireAt
        /\ MinutesLeft(d.expireAt) = d.expireAt - now
    BY <1>2, <1>4, <2>1, NowIsNat DEF HasExpired, MinutesLeft
  <2>4. /\ j.expireTime > 0 /\ j.due - PERIOD <= j.expireTime
        /\ j.expireTime - (j.due - PERIOD) = MinutesLeft(d.expireAt)
    BY <1>2, <1>4, <2>1, <2>3, NowIsNat
  <2>5. PERIOD' = PERIOD /\ expireRemaining' = {j.expireTime - (j.due - PERIOD)}
    BY <1>4, <2>4
  <2>6. now' = now /\ mounted' /\ dateParses' /\ sessionDetails'.expireAt = j.expireTime
    BY <1>4, <2>1
  <2>7. j.due - PERIOD <= now /\ now <= j.due
    BY <2>1, <2>3, NowIsNat
  <2>8. Counting(j)'
    BY <1>4, <2>2, <2>4, <2>5, <2>6, <2>7 DEF Counting
  <2> QED BY <2>8 DEF ExpiryInv
<1>5. {} \cup {StartInterval({}, d.expireAt)} = {StartInterval({}, d.expireAt)}
  OBVIOUS
<1> QED BY <1>1, <1>3, <1>4, <1>5 DEF SetExpireAt, HasExpired

\* The timers the page holds are those that run.
LEMMA HeldTimers ==
    ASSUME ExpiryInv
    PROVE  \A i \in intervals : i.id \in expireInterval
BY DEF ExpiryInv, Resting, Counting

LEMMA SetStatusStep ==
    ASSUME NEW d \in Known, SetSessionStatus(d), sessionDetails' = d
    PROVE  StatusInv'
<1>1. d.status \in Status \cup {"none"}
  BY DEF Known
<1>2. "CONNECTING" \in Status
  BY DEF Status
<1> QED BY <1>1, <1>2 DEF StatusInv, StatusShown, SetSessionStatus

\* The details change: a dashboard that is there loads them.
LEMMA SetDetailsStep ==
    ASSUME TunnelTypeOK, PageValues, CardsInv, NEW d \in Known, NEW replaced,
           SetDetails(d, replaced), UNCHANGED <<now, dateParses>>
    PROVE  CardsInv'
<1>1. sessionDetails' = d
  BY DEF SetDetails
<1>2. CASE mounted /\ DetailsWatched(d, replaced)
  <2>1. SetSessionStatus(d) /\ SetExpireAt(d, intervals) /\ mounted' = mounted
    BY <1>2 DEF SetDetails, LoadSessionDetails
  <2>2. \A i \in intervals : i.id \in expireInterval
    BY HeldTimers DEF CardsInv
  <2>3. mounted'
    BY <1>2, <2>1
  <2>4. ExpiryInv'
    BY <1>1, <2>1, <2>2, <2>3, SetExpireAtStep
  <2>5. StatusInv'
    BY <1>1, <2>1, SetStatusStep
  <2> QED BY <2>4, <2>5 DEF CardsInv
<1>3. CASE ~mounted
  <2>1. UNCHANGED cardVars
    BY <1>3 DEF SetDetails
  <2> QED BY <1>3, <2>1 DEF CardsInv, ExpiryInv, StatusInv, Resting, Counting, cardVars
<1>4. CASE mounted /\ ~DetailsWatched(d, replaced)
  <2>1. UNCHANGED cardVars /\ d = sessionDetails
    BY <1>4 DEF SetDetails, DetailsWatched
  <2> QED BY <1>1, <2>1 DEF CardsInv, ExpiryInv, StatusInv, StatusShown, Resting, Counting, cardVars
<1> QED BY <1>2, <1>3, <1>4

LEMMA FiresStep ==
    ASSUME TunnelTypeOK, PageValues, CardsInv, NEW k \in intervals, IntervalFires(k)
    PROVE  CardsInv'
<1>1. PICK i \in Timers : Counting(i)
  BY DEF CardsInv, ExpiryInv, Resting
<1>2. k = i /\ intervals = {i} /\ expireInterval = {i.id}
  BY <1>1 DEF Counting
<1>3. /\ i.id \in IntervalIds /\ i.due \in Nat /\ i.expireTime \in Int
      /\ now \in Nat /\ PERIOD \in Nat \ {0}
  BY <1>2, NowIsNat DEF Timers
<1>4. UNCHANGED <<now, dateParses, sessionDetails, mounted, sessionStatus>>
  BY DEF IntervalFires, tunnelVars, worldVars
<1>5. StatusInv'
  BY <1>4 DEF CardsInv, StatusInv, StatusShown
<1>6. PICK j \in Timers : /\ j = Again(i) /\ j.id = i.id
                          /\ j.due = now + PERIOD /\ j.expireTime = i.expireTime
  <2>1. now + PERIOD \in Nat
    BY <1>3
  <2>2. Again(i) = [id |-> i.id, due |-> now + PERIOD, expireTime |-> i.expireTime]
    BY Zenon DEF Again
  <2>3. Again(i) \in Timers
    BY <1>3, <2>1, <2>2 DEF Timers
  <2> QED BY <2>2, <2>3
<1>7. (intervals \ {k}) \cup {Again(k)} = {j}
  BY <1>2, <1>6
<1>8. CASE MinutesLeft(k.expireTime) = 0
  <2>1. SetExpireAt(sessionDetails, {j})
    BY <1>7, <1>8 DEF IntervalFires
  <2>2. \A h \in {j} : h.id \in expireInterval
    BY <1>2, <1>6
  <2>3. mounted' /\ sessionDetails \in Known /\ sessionDetails' = sessionDetails
    BY <1>1, <1>4 DEF Counting, PageValues
  <2>4. ExpiryInv'
    BY <1>4, <2>1, <2>2, <2>3, SetExpireAtStep
  <2> QED BY <1>5, <2>4 DEF CardsInv
<1>9. CASE MinutesLeft(k.expireTime) # 0
  <2>1. /\ expireRemaining' = {MinutesLeft(i.expireTime)} /\ intervals' = {j}
        /\ UNCHANGED <<expireDate, expireInterval>>
    BY <1>2, <1>7, <1>9 DEF IntervalFires
  <2>2. /\ MinutesLeft(i.expireTime) = i.expireTime - now
        /\ now < i.expireTime /\ j.due - PERIOD = now /\ now <= j.due
    BY <1>2, <1>3, <1>6, <1>9 DEF MinutesLeft
  <2>3. Counting(j)'
    BY <1>1, <1>2, <1>3, <1>4, <1>6, <2>1, <2>2 DEF Counting
  <2> QED BY <1>5, <2>3 DEF CardsInv, ExpiryInv
<1> QED BY <1>8, <1>9

LEMMA TickStep ==
    ASSUME TunnelTypeOK, PageValues, CardsInv, Tick
    PROVE  CardsInv'
<1>1. /\ now' = now + 1 /\ \A i \in intervals : i.due > now
      /\ UNCHANGED <<sessionDetails, dateParses, mounted, sessionStatus, expireDate,
                     expireRemaining, expireInterval, intervals>>
  BY DEF Tick, pageVars, cardVars
<1>2. StatusInv'
  BY <1>1 DEF CardsInv, StatusInv, StatusShown
<1>3. now \in Nat /\ sessionDetails.expireAt \in Int /\ PERIOD \in Nat
  BY NowIsNat DEF PageValues, Known
<1>4. CASE Resting
  BY <1>1, <1>2, <1>3, <1>4 DEF CardsInv, ExpiryInv, Resting
<1>5. ASSUME NEW i \in Timers, Counting(i)
      PROVE  CardsInv'
  <2>1. i.due \in Nat /\ i.due > now
    BY <1>1, <1>5 DEF Timers, Counting
  <2>2. Counting(i)'
    BY <1>1, <1>3, <1>5, <2>1 DEF Counting
  <2> QED BY <1>2, <2>2 DEF CardsInv, ExpiryInv
<1> QED BY <1>4, <1>5 DEF CardsInv, ExpiryInv

LEMMA CardsStep ==
    ASSUME TunnelTypeOK, PageValues, CardsInv, [Next]_vars
    PROVE  CardsInv'
<1>0. ASSUME UNCHANGED <<now, dateParses, sessionDetails, cardVars>>
      PROVE  CardsInv'
  BY <1>0 DEF CardsInv, ExpiryInv, StatusInv, StatusShown, Resting, Counting, cardVars
<1>1. CASE SendSession \/ SubscribeStatus \/ HandStatus \/ ForwardStatus \/ RestoreThreshold
  <2>1. UNCHANGED <<now, dateParses, sessionDetails, cardVars>>
    BY <1>1 DEF SendSession, SubscribeStatus, HandStatus, ForwardStatus, RestoreThreshold,
                tunnelVars, worldVars
  <2> QED BY <1>0, <2>1
<1>2. CASE OnSession
  <2>1. /\ SetDetails(Head(wire), TRUE) /\ UNCHANGED <<now, dateParses>>
        /\ wire # <<>>
    BY <1>2 DEF OnSession, tunnelVars, worldVars
  <2>2. Head(wire) \in Known
    BY <2>1 DEF PageValues
  <2> QED BY <2>1, <2>2, SetDetailsStep
<1>3. CASE StreamBreaks \/ StreamFails
  <2>1. OnError /\ UNCHANGED <<now, dateParses>>
    BY <1>3 DEF StreamBreaks, StreamFails, tunnelVars, worldVars
  <2>2. CASE UNCHANGED <<sessionDetails, cardVars>>
    BY <1>0, <2>1, <2>2
  <2>3. CASE SetDetails([sessionDetails EXCEPT !.status = "DISCONNECTED"], FALSE)
    <3>1. [sessionDetails EXCEPT !.status = "DISCONNECTED"] \in Known
      BY DEF PageValues, Known, Status
    <3> QED BY <2>1, <2>3, <3>1, SetDetailsStep
  <2> QED BY <2>1, <2>2, <2>3 DEF OnError
<1>4. CASE Mount
  <2>1. /\ mounted' /\ SetSessionStatus(sessionDetails) /\ SetExpireAt(sessionDetails, intervals)
        /\ UNCHANGED <<now, dateParses, sessionDetails>>
    BY <1>4 DEF Mount, tunnelVars, worldVars
  <2>2. /\ sessionDetails \in Known /\ sessionDetails' = sessionDetails
        /\ \A i \in intervals : i.id \in expireInterval
    BY <2>1, HeldTimers DEF PageValues, CardsInv
  <2> QED BY <2>1, <2>2, SetExpireAtStep, SetStatusStep DEF CardsInv
<1>5. CASE Unmount
  <2>1. /\ ~mounted' /\ intervals' = WithoutInterval(intervals, expireInterval)
        /\ expireInterval' = {} /\ expireRemaining' = {}
        /\ expireDate' = "none" /\ sessionStatus' = "none"
    BY <1>5 DEF Unmount
  <2>2. intervals' = {}
    BY <2>1, HeldTimers DEF CardsInv, WithoutInterval
  <2> QED BY <2>1, <2>2 DEF CardsInv, ExpiryInv, StatusInv, Resting
<1>6. CASE \E i \in intervals : IntervalFires(i)
  BY <1>6, FiresStep
<1>7. CASE Tick
  BY <1>7, TickStep
<1>8. CASE Advances \/ UNCHANGED vars
  <2>1. UNCHANGED <<now, dateParses, sessionDetails, cardVars>>
    <3>1. UNCHANGED pageVars
      BY <1>8, AdvancesKeepPage
    <3>2. now' = now
      BY <1>8 DEF Advances, TunnelStep, WorldStep, LoopStep, TunnelBreaks, Expires,
                  ServerGoes, ServerReturns, worldVars, vars, tunnelVars
    <3> QED BY <3>1, <3>2 DEF pageVars
  <2> QED BY <1>0, <2>1
<1> QED BY <1>1, <1>2, <1>3, <1>4, <1>5, <1>6, <1>7, <1>8 DEF Next, StreamStep, Advances

LEMMA CardsInvHolds == Spec => []CardsInv
<1>1. Init => CardsInv
  BY DEF Init, NoDetails, CardsInv, ExpiryInv, StatusInv, StatusShown, Resting, Status
<1>2. TunnelTypeOK /\ PageValues /\ CardsInv /\ [Next]_vars => CardsInv'
  BY CardsStep
<1> QED BY <1>1, <1>2, TunnelTypeCorrect, PageValuesHold, PTL DEF Spec

-----------------------------------------------------------------------------
LEMMA CardsTell ==
    ASSUME TunnelTypeOK, PageValues, CardsInv
    PROVE  CardsCurrent
<1>1. now \in Nat /\ PERIOD \in Nat \ {0} /\ sessionDetails.expireAt \in Int
  BY NowIsNat DEF PageValues, Known
<1>2. CASE Resting
  BY <1>1, <1>2 DEF CardsInv, StatusInv, CardsCurrent, ExpiryShown, Resting
<1>3. ASSUME NEW i \in Timers, Counting(i)
      PROVE  CardsCurrent
  <2>1. i.due \in Nat /\ i.expireTime \in Int
    BY DEF Timers
  <2> DEFINE n == i.expireTime - (i.due - PERIOD)
  <2>2. /\ i.expireTime = sessionDetails.expireAt /\ expireDate = "date"
        /\ i.due - PERIOD <= now /\ now <= i.due /\ i.due - PERIOD <= i.expireTime
        /\ expireRemaining = {n}
    BY <1>3 DEF Counting
  <2>3. n - (i.expireTime - now) \in 0..PERIOD
    BY <1>1, <2>1, <2>2
  <2>4. ~(i.expireTime + PERIOD < now)
    BY <1>1, <2>1, <2>2
  <2> HIDE DEF n
  <2>5. ExpiryShown
    BY <2>2, <2>3, <2>4 DEF ExpiryShown
  <2> QED BY <2>5 DEF CardsInv, StatusInv, CardsCurrent
<1> QED BY <1>2, <1>3 DEF CardsInv, ExpiryInv

(* The cards of the dashboard say what the page knows of the session: its   *)
(* status, and whether its time is over.                                    *)
THEOREM CardsHold == Spec => []CardsCurrent
BY CardsInvHolds, CardsTell, TunnelTypeCorrect, PageValuesHold, PTL

(* At most one timer runs, it counts to the expiry the page knows, and none *)
(* outlives its dashboard.                                                  *)
THEOREM OneIntervalHolds == Spec => []OneInterval
<1>1. CardsInv => OneInterval
  <2>1. CASE Resting
    <3>1. Cardinality(intervals) = 0
      BY <2>1, FS_EmptySet DEF Resting
    <3> QED BY <2>1, <3>1 DEF Resting, OneInterval
  <2>2. ASSUME NEW i \in Timers, Counting(i)
        PROVE  OneInterval
    <3>1. Cardinality(intervals) = 1
      BY <2>2, FS_Singleton DEF Counting
    <3>2. {j.id : j \in intervals} = expireInterval
      BY <2>2 DEF Counting
    <3> QED BY <2>2, <3>1, <3>2 DEF Counting, OneInterval
  <2> QED BY <2>1, <2>2 DEF CardsInv, ExpiryInv
<1> QED BY <1>1, CardsInvHolds, PTL

-----------------------------------------------------------------------------
\* The page's truth values.
PageFlags ==
    /\ dirty \in BOOLEAN /\ esClosed \in BOOLEAN /\ missed \in BOOLEAN
    /\ dateParses \in BOOLEAN /\ mounted \in BOOLEAN

LEMMA PageFlagsStep ==
    ASSUME PageFlags, [Next]_vars
    PROVE  PageFlags'
<1> USE DEF PageFlags
<1>1. CASE SendSession \/ SubscribeStatus \/ ForwardStatus \/ RestoreThreshold
  BY <1>1, Zenon DEF SendSession, SubscribeStatus, ForwardStatus, RestoreThreshold, cardVars
<1>2. CASE HandStatus
  BY <1>2, Zenon DEF HandStatus, cardVars
<1>3. CASE OnSession
  BY <1>3, Zenon DEF OnSession, SetDetails, LoadSessionDetails, cardVars
<1>4. CASE StreamBreaks \/ StreamFails
  BY <1>4, Zenon DEF StreamBreaks, StreamFails, Disconnected, OnError, SetDetails,
                     LoadSessionDetails, cardVars
<1>5. CASE Mount \/ Unmount \/ (\E i \in intervals : IntervalFires(i))
  BY <1>5, Zenon DEF Mount, Unmount, IntervalFires, streamVars
<1>6. CASE Tick \/ Advances \/ UNCHANGED vars
  BY <1>6, Zenon DEF Tick, Advances, vars, pageVars, streamVars, cardVars
<1> QED BY <1>1, <1>2, <1>3, <1>4, <1>5, <1>6 DEF Next, StreamStep, Advances

(* The type invariant of the composed specification.                        *)
THEOREM TypeCorrect == Spec => []TypeOK
<1>1. Init => PageFlags
  <2>1. Init => dateParses \in BOOLEAN
    BY Zenon DEF Init
  <2> QED BY <2>1, Zenon DEF Init, PageFlags
<1>2. PageFlags /\ [Next]_vars => PageFlags'
  BY PageFlagsStep
<1>3. TunnelTypeOK /\ PageValues /\ CardsInv /\ PageFlags => TypeOK
  <2> SUFFICES ASSUME TunnelTypeOK, PageValues, CardsInv, PageFlags
               PROVE  TypeOK
    OBVIOUS
  <2>1. /\ expireDate \in {"none", "-", "never", "Expired", "date"}
        /\ \A n \in expireRemaining : n >= 0
        /\ expireInterval \subseteq IntervalIds
        /\ \A i \in intervals : i.id \in IntervalIds
    <3>1. CASE Resting
      BY <3>1 DEF Resting
    <3>2. ASSUME NEW i \in Timers, Counting(i)
          PROVE  /\ expireDate = "date" /\ \A n \in expireRemaining : n >= 0
                 /\ expireInterval \subseteq IntervalIds
                 /\ \A k \in intervals : k.id \in IntervalIds
      <4>1. i.due \in Nat /\ i.expireTime \in Int /\ i.id \in IntervalIds
            /\ PERIOD \in Nat
        BY PageAssumption DEF Timers
      <4> QED BY <3>2, <4>1 DEF Counting
    <3> QED BY <3>1, <3>2 DEF CardsInv, ExpiryInv
  <2> QED BY <2>1, Zenon DEF TypeOK, PageValues, CardsInv, StatusInv, PageFlags, Known
<1> QED BY <1>1, <1>2, <1>3, TunnelTypeCorrect, PageValuesHold, CardsInvHolds, PTL DEF Spec
=============================================================================
