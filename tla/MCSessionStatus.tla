-------------------------- MODULE MCSessionStatus --------------------------
(* Small instances of SessionStatus for TLC.                               *)
EXTENDS SessionStatus

UpToOne == {-1, 0, 1}
NoneAndOne == {0, 1}

\* Both transports where no session expires, TLS where sessions do: falling
\* back from TLS has nothing to do with time.  A server that returns has
\* changed in one respect at most.
TlsWhereTimed == connectionTimeout # 0 => serverTls

OneChange == UNCHANGED connectionTimeout \/ UNCHANGED serverTls

\* Dates that do not parse matter to the card only: for one limit, and a
\* server that has one from the start.
MCInit ==
    /\ Init
    /\ TlsWhereTimed
    /\ ~dateParses => connectionTimeout # 0 /\ maxReconnectAttempts = 1

MCSpec == MCInit /\ [][Next /\ OneChange /\ TlsWhereTimed']_vars /\ Fairness
=============================================================================
