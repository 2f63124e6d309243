------------------------------ MODULE Broadcast -----------------------------
(***************************************************************************)
(* What gossip promises a subscriber: only messages somebody published,    *)
(* and each at most once as long as the node is up.                        *)
(***************************************************************************)
EXTENDS Integers

CONSTANTS Nodes, Messages

VARIABLES
    sent, \* the messages published
    got   \* got[n][m]: how often m was handed to the subscriber of n

Init ==
    /\ sent = {}
    /\ got = [n \in Nodes |-> [m \in Messages |-> 0]]

\* A message is published, and may be handed to the publisher's own subscriber.
Send(n, m) ==
    /\ m \notin sent
    /\ sent' = sent \cup {m}
    /\ \/ got' = got
       \/ got[n][m] = 0 /\ got' = [got EXCEPT ![n][m] = 1]

Deliver(n, m) ==
    /\ m \in sent /\ got[n][m] = 0
    /\ got' = [got EXCEPT ![n][m] = 1]
    /\ UNCHANGED sent

\* A node that starts again has received nothing yet.
Forget(n) ==
    /\ got' = [got EXCEPT ![n] = [m \in Messages |-> 0]]
    /\ UNCHANGED sent

Next == \E n \in Nodes : Forget(n) \/ \E m \in Messages : Send(n, m) \/ Deliver(n, m)

Spec == Init /\ [][Next]_<<sent, got>>
=============================================================================
