------------------------------ MODULE LossyFeed ------------------------------
(***************************************************************************)
(* What a subscriber of the message broker may rely on: it may miss any    *)
(* message, but those it gets come in the order of their publication and   *)
(* each at most once.  Messages are numbered as they are published.        *)
(***************************************************************************)
EXTENDS Naturals

CONSTANT Listeners

VARIABLES
    sent,       \* how many messages have been published
    last,       \* last[l]: the number of the last message l was given
    got         \* got[l]: how many messages l was given

vars == <<sent, last, got>>

Init ==
    /\ sent = 0
    /\ last = [l \in Listeners |-> 0]
    /\ got = [l \in Listeners |-> 0]

Publish ==
    /\ sent' = sent + 1
    /\ UNCHANGED <<last, got>>

\* A listener is given a message later than any it had before.
Deliver(l) ==
    /\ \E n \in last[l] + 1..sent : last' = [last EXCEPT ![l] = n]
    /\ got' = [got EXCEPT ![l] = @ + 1]
    /\ UNCHANGED sent

Next == Publish \/ \E l \in Listeners : Deliver(l)

Spec == Init /\ [][Next]_vars
=============================================================================
