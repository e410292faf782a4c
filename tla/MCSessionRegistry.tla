------------------------- MODULE MCSessionRegistry -------------------------
(* Small instances of SessionRegistry for TLC.                             *)
EXTENDS SessionRegistry, TLC

\* Handlers, clients and hashes are interchangeable: used by the runs that
\* check no liveness.
Symmetry == Permutations(Tunnels) \cup Permutations(Clients) \cup Permutations(HashIds)
=============================================================================
