-------------------------- MODULE ContactReconnect --------------------------
(* contact_reconnect_loop: every minute the node dials, one after the other, *)
(* the contacts that had no connection when the round began.                 *)
EXTENDS Integers, Sequences

CONSTANTS
    Rows,       \* the contacts in the order in which the query returns them
    MaxFlaps    \* bound: changes of the network, the identity and the contacts

VARIABLES
    online,    \* contacts that a dial would reach
    linked,    \* contacts in the table of peers
    ready,     \* the identity is unlocked and the network is there
    round,     \* the round under way: its snapshot and the rows left, or {}
    flaps      \* history: changes so far

reconnectVars == <<online, linked, ready, round, flaps>>

People == {Rows[i] : i \in DOMAIN Rows}

\* auto_connect_to_contacts up to its loop; nothing is done without an
\* identity, contacts or a network.
BeginRound ==
    /\ round = {} /\ ready /\ Rows # <<>>
    /\ round' = {[already |-> linked, rows |-> Rows]}
    /\ UNCHANGED <<online, linked, ready, flaps>>

Rest(r) == IF Len(r.rows) = 1 THEN {} ELSE {[r EXCEPT !.rows = Tail(@)]}

SkipContact ==
    \E r \in round :
        /\ Head(r.rows) \in r.already \cup linked
        /\ round' = Rest(r)
        /\ UNCHANGED <<online, linked, ready, flaps>>

\* Mutant: the round ends with the first contact that cannot be reached.
MutTryContact ==
    \E r \in round :
        LET c == Head(r.rows) IN
        /\ c \notin r.already \cup linked
        /\ linked' = IF c \in online THEN linked \cup {c} ELSE linked
        /\ round' = IF c \in online THEN Rest(r) ELSE {}
        /\ UNCHANGED <<online, ready, flaps>>

\* connect_to_peer, with a timeout of ten seconds; a failure is logged.
TryContact ==
    \E r \in round :
        LET c == Head(r.rows) IN
        /\ c \notin r.already \cup linked
        /\ linked' = IF c \in online THEN linked \cup {c} ELSE linked
        /\ round' = Rest(r)
        /\ UNCHANGED <<online, ready, flaps>>

\* Contacts come and go, dial us, and lose their connection.
Dials(c) ==
    /\ c \in online \ linked /\ ready
    /\ linked' = linked \cup {c}
    /\ UNCHANGED <<online, ready, round, flaps>>

Change(c) ==
    /\ flaps' = flaps + 1
    /\ \/ online' = online \cup {c} /\ UNCHANGED <<linked, ready>>
       \/ online' = online \ {c} /\ linked' = linked \ {c} /\ UNCHANGED ready
       \/ linked' = linked \ {c} /\ UNCHANGED <<online, ready>>
       \/ ready' = ~ready /\ UNCHANGED <<online, linked>>
    /\ UNCHANGED round

ReconnectInit ==
    /\ online \in SUBSET People /\ linked \in SUBSET online
    /\ ready \in BOOLEAN /\ round = {} /\ flaps = 0

ReconnectNext ==
    \/ BeginRound \/ SkipContact \/ TryContact
    \/ \E c \in People : Dials(c) \/ (flaps < MaxFlaps /\ Change(c))

------------------------------------------------------------------------------
\* A contact that stays reachable is connected in the end, whoever is offline
\* before it in the table and whatever changes while a round is under way.  The
\* loop ticks and a dial returns; the contact is not obliged to dial.
ReachableIsLinked ==
    \A c \in People : [](<>[](c \in online /\ ready) => <>(c \in linked))
=============================================================================
