------------------------------- MODULE Gossip -------------------------------
(***************************************************************************)
(* EagerGossipService at several nodes, on one topic. A publisher pushes   *)
(* the whole message to some of its peers and announces it to the others;  *)
(* whoever receives it for the first time forwards it to all its peers; an *)
(* announced message that does not come is asked for, once. A message is   *)
(* its content hash: payloads carry identifiers and times and are distinct.*)
(* The envelopes on the wire are those handed to the transport; the ones   *)
(* that a failed send or a stopped node takes away are dropped by a fault. *)
(***************************************************************************)
EXTENDS Integers, FiniteSets

CONSTANTS
    Nodes, Messages,
    Author,         \* Author[m]: the node that publishes m
    Links,          \* the connections: pairs of nodes, in both directions
    EagerPushPeers, \* FanoutConfig::eager_push_peers
    QueueSize,      \* capacity of a subscriber's channel (256)
    MaxFaults       \* bound: lost sends, restarts and unsubscriptions together

ASSUME LinksAssumption == Links \subseteq Nodes \X Nodes
ASSUME AuthorAssumption == Author \in [Messages -> Nodes]

VARIABLES
    seen,      \* seen[n]: content hashes n has seen
    cache,     \* cache[n]: messages n can answer an IWANT with
    pending,   \* <<n, m, p>>: n has an announcement of m, by p, to follow up
    subscribed,\* the nodes with a subscriber
    queue,     \* queue[n]: how much the subscriber of n has not taken yet
    delivered, \* delivered[n][m]: how often m entered that queue
    wire,      \* envelopes on their way
    published, \* history: the messages published so far
    overflow,  \* history: <<n, m>> dropped because the queue was full
    unsteady,  \* history: the nodes that restarted or unsubscribed
    faults

vars == <<seen, cache, pending, subscribed, queue, delivered, wire, published,
          overflow, unsteady, faults>>

Peers(n) == {p \in Nodes : <<n, p>> \in Links}

Envelope(kind, m, from, to) == [kind |-> kind, m |-> m, from |-> from, to |-> to]

Init ==
    /\ seen = [n \in Nodes |-> {}]
    /\ cache = [n \in Nodes |-> {}]
    /\ pending = {}
    /\ subscribed = Nodes
    /\ queue = [n \in Nodes |-> 0]
    /\ delivered = [n \in Nodes |-> [m \in Messages |-> 0]]
    /\ wire = {}
    /\ published = {}
    /\ overflow = {} /\ unsteady = {} /\ faults = 0

\* try_send to the subscriber of the topic, if there is one.
DeliverLocally(n, m) ==
    LET room == queue[n] < QueueSize IN
    IF n \in subscribed
    THEN /\ queue' = IF room THEN [queue EXCEPT ![n] = @ + 1] ELSE queue
         /\ delivered' = IF room THEN [delivered EXCEPT ![n][m] = @ + 1] ELSE delivered
         /\ overflow' = IF room THEN overflow ELSE overflow \cup {<<n, m>>}
    ELSE UNCHANGED <<queue, delivered, overflow>>

\* select_fanout: any peers, as many as there are up to the eager number.
Fanouts(n) ==
    {E \in SUBSET Peers(n) :
       \/ Cardinality(E) = EagerPushPeers
       \/ E = Peers(n) /\ Cardinality(E) <= EagerPushPeers}

\* publish: full messages to the eager peers, IHAVE to all the others.
Publish(n, m) ==
    /\ n = Author[m] /\ m \notin published
    /\ published' = published \cup {m}
    /\ seen' = [seen EXCEPT ![n] = @ \cup {m}]
    /\ cache' = [cache EXCEPT ![n] = @ \cup {m}]
    /\ DeliverLocally(n, m)
    /\ \E E \in Fanouts(n) :
          wire' = wire \cup {Envelope("msg", m, n, p) : p \in E}
                       \cup {Envelope("ihave", m, n, p) : p \in Peers(n) \ E}
    /\ UNCHANGED <<pending, subscribed, unsteady, faults>>

\* Mutant: no deduplication.
HandleFullAgain(e) ==
    LET n == e.to IN
    /\ seen' = [seen EXCEPT ![n] = @ \cup {e.m}]
    /\ cache' = [cache EXCEPT ![n] = @ \cup {e.m}]
    /\ pending' = {q \in pending : ~(q[1] = n /\ q[2] = e.m)}
    /\ DeliverLocally(n, e.m)
    /\ wire' = (wire \ {e}) \cup
          {Envelope("msg", e.m, n, p) : p \in Peers(n) \ {e.from, Author[e.m]}}

\* handle_full_message, of a message not seen before.
HandleFull(e) ==
    LET n == e.to IN
    /\ e.m \notin seen[n]
    /\ seen' = [seen EXCEPT ![n] = @ \cup {e.m}]
    /\ cache' = [cache EXCEPT ![n] = @ \cup {e.m}]
    /\ pending' = {q \in pending : ~(q[1] = n /\ q[2] = e.m)}
    /\ DeliverLocally(n, e.m)
    /\ wire' = (wire \ {e}) \cup
          {Envelope("msg", e.m, n, p) : p \in Peers(n) \ {e.from, Author[e.m]}}

\* handle_full_message, of a duplicate.
HandleDuplicate(e) ==
    /\ e.m \in seen[e.to]
    /\ wire' = wire \ {e}
    /\ UNCHANGED <<seen, cache, pending, queue, delivered, overflow>>

\* handle_ihave: the first announcement of an unseen message is kept.
HandleIHave(e) ==
    LET n == e.to IN
    /\ wire' = wire \ {e}
    /\ pending' = IF e.m \in seen[n] \/ \E p \in Nodes : <<n, e.m, p>> \in pending
                  THEN pending ELSE pending \cup {<<n, e.m, e.from>>}
    /\ UNCHANGED <<seen, cache, queue, delivered, overflow>>

\* Mutant: a request is not answered.
HandleIWantNever(e) ==
    /\ wire' = wire \ {e}
    /\ UNCHANGED <<seen, cache, pending, queue, delivered, overflow>>

\* handle_iwant
HandleIWant(e) ==
    LET n == e.to IN
    /\ wire' = (wire \ {e}) \cup
          (IF e.m \in cache[n] THEN {Envelope("msg", e.m, n, e.from)} ELSE {})
    /\ UNCHANGED <<seen, cache, pending, queue, delivered, overflow>>

\* receive_loop: the next envelope for a node, in any order.
Receive(e) ==
    /\ e \in wire
    /\ \/ e.kind = "msg" /\ (HandleFull(e) \/ HandleDuplicate(e))
       \/ e.kind = "ihave" /\ HandleIHave(e)
       \/ e.kind = "iwant" /\ HandleIWant(e)
    /\ UNCHANGED <<subscribed, published, unsteady, faults>>

\* lazy_timeout_loop: an announcement is seen by now, or its time is over.
LazyTimeout(q) ==
    /\ q \in pending
    /\ pending' = pending \ {q}
    /\ wire' = IF q[2] \in seen[q[1]] THEN wire
               ELSE wire \cup {Envelope("iwant", q[2], q[1], q[3])}
    /\ UNCHANGED <<seen, cache, subscribed, queue, delivered, published, overflow,
                   unsteady, faults>>

\* TopicSubscription::recv
Consume(n) ==
    /\ queue[n] > 0
    /\ queue' = [queue EXCEPT ![n] = @ - 1]
    /\ UNCHANGED <<seen, cache, pending, subscribed, delivered, wire, published,
                   overflow, unsteady, faults>>

Subscribe(n) ==
    /\ n \notin subscribed
    /\ subscribed' = subscribed \cup {n}
    /\ queue' = [queue EXCEPT ![n] = 0]
    /\ UNCHANGED <<seen, cache, pending, delivered, wire, published, overflow,
                   unsteady, faults>>

Unsubscribe(n) ==
    /\ faults < MaxFaults /\ faults' = faults + 1
    /\ n \in subscribed
    /\ subscribed' = subscribed \ {n}
    /\ unsteady' = unsteady \cup {n}
    /\ UNCHANGED <<seen, cache, pending, queue, delivered, wire, published, overflow>>

\* A send fails.
Lose(e) ==
    /\ faults < MaxFaults /\ faults' = faults + 1
    /\ e \in wire
    /\ wire' = wire \ {e}
    /\ UNCHANGED <<seen, cache, pending, subscribed, queue, delivered, published,
                   overflow, unsteady>>

\* A node stops, with some of what it was sending and all that was sent to it,
\* and starts again with nothing.
Restart(n) ==
    /\ faults < MaxFaults /\ faults' = faults + 1
    /\ seen' = [seen EXCEPT ![n] = {}]
    /\ cache' = [cache EXCEPT ![n] = {}]
    /\ pending' = {q \in pending : q[1] # n}
    /\ subscribed' = subscribed \cup {n}
    /\ queue' = [queue EXCEPT ![n] = 0]
    /\ delivered' = [delivered EXCEPT ![n] = [m \in Messages |-> 0]]
    /\ \E out \in SUBSET {e \in wire : e.from = n} :
          wire' = {e \in wire : e.to # n} \ out
    /\ unsteady' = unsteady \cup {n}
    /\ UNCHANGED <<published, overflow>>

Next ==
    \/ \E n \in Nodes, m \in Messages : Publish(n, m)
    \/ \E e \in wire : Receive(e) \/ Lose(e)
    \/ \E q \in pending : LazyTimeout(q)
    \/ \E n \in Nodes : Consume(n) \/ Subscribe(n) \/ Unsubscribe(n) \/ Restart(n)

Spec == Init /\ [][Next]_vars

-----------------------------------------------------------------------------
(* Properties. *)

TypeOK ==
    /\ seen \in [Nodes -> SUBSET Messages]
    /\ cache \in [Nodes -> SUBSET Messages]
    /\ pending \subseteq Nodes \X Messages \X Nodes
    /\ subscribed \subseteq Nodes
    /\ queue \in [Nodes -> Nat]
    /\ delivered \in [Nodes -> [Messages -> Nat]]
    /\ wire \subseteq [kind : {"msg", "ihave", "iwant"}, m : Messages, from : Nodes, to : Nodes]
    /\ published \subseteq Messages
    /\ overflow \subseteq Nodes \X Messages
    /\ unsteady \subseteq Nodes /\ faults \in Nat

\* The service implements Broadcast: a subscriber gets only published messages
\* and none twice, through flooding, pulls, losses and restarts of others.
Abstract == INSTANCE Broadcast WITH sent <- published, got <- delivered

\* Every step of the service is one of Broadcast or changes nothing there.
ImplementsBroadcast == Abstract!Spec

\* The single IWANT is worth sending: whoever announced a message can still
\* give it, unless it restarted since (message_cache keeps what was announced).
AnnouncerHasIt ==
    \A q \in pending : q[2] \in cache[q[3]] \/ q[3] \in unsteady

\* Flooding and pulling repair one fault: in a mesh of three, a message
\* reaches every subscriber that stayed, or finds its queue full, whatever
\* single send is lost, node restarts or subscription ends.
Reached(n, m) == delivered[n][m] > 0 \/ <<n, m>> \in overflow \/ n \in unsteady
EventualDelivery ==
    <>[](\A n \in Nodes, m \in published : Reached(n, m) \/ Author[m] \in unsteady)

=============================================================================
