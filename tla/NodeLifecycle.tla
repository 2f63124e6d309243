---------------------------- MODULE NodeLifecycle ----------------------------
(* Start and shutdown of a node, and the start of its network, which every   *)
(* call that unlocks the identity asks for: the check that the network is    *)
(* not running, the endpoint, the four ingest loops and the reference that   *)
(* the services use are separate steps of calls that may overlap.  A loop    *)
(* ends when its receiver sees a shutdown signal sent after it subscribed.   *)
EXTENDS Integers, Sequences, FiniteSets

CONSTANTS
    Callers,      \* unlocking calls that may be under way at once
    Background,   \* the background loops: gc, epoch, handle_gc, dead_drop, ...
    TopicOrder,   \* the topics with a loop: public feed, direct messages, moderation, DHT
    NoNet,
    MaxNets,      \* bound: endpoints created
    MaxSignals,   \* bound: shutdowns
    MaxLocks      \* bound: times the identity is locked

Topics == {TopicOrder[i] : i \in DOMAIN TopicOrder}

ASSUME NodeAssumption == NoNet \notin Nat /\ Background \cap Topics = {}

VARIABLES
    running,   \* EphemeraNode.running
    node,      \* "idle", or the step of EphemeraNode::start under way
    txSet,     \* ServiceContainer.shutdown_tx is set
    signal,    \* how often the shutdown signal was sent
    unlocked,  \* the identity service has a signing key
    svcNet,    \* ServiceContainer.network
    nodeNet,   \* EphemeraNode.network
    calls,     \* calls[c]: a start_network under way, its step and endpoint
    loops,     \* [name, net, seen]: the loops that run
    endpoints, \* history: endpoints created
    locks,     \* history: times locked
    overlap,   \* history: two calls were past the check together
    halfway,   \* history: a start_network failed after it had spawned a loop
    late       \* history: a start_network under way at a shutdown, or after it

nodeVars ==
    <<running, node, txSet, signal, unlocked, svcNet, nodeNet, calls, loops,
      endpoints, locks, overlap, halfway, late>>

Idle == [step |-> "idle", net |-> NoNet, topics |-> {}]
Starting == {c \in DOMAIN calls : calls[c] # Idle}
Boot == "boot"   \* start_network as called by EphemeraNode::start

Subscribed(name, net) == [name |-> name, net |-> net, seen |-> signal]

\* EphemeraNode::start up to the network: the startup sequence may fail, which
\* leaves the node as it was.
StartNode ==
    /\ ~running /\ node = "idle"
    /\ txSet' = TRUE
    /\ node' = IF unlocked THEN "network" ELSE "loops"
    /\ UNCHANGED <<running, signal, unlocked, svcNet, nodeNet, calls, loops, endpoints,
                   locks, overlap, halfway, late>>

\* start_network succeeded: the node gets a reference of its own, for shutdown.
NetworkAtBoot ==
    /\ node = "booted"
    /\ node' = "loops"
    /\ nodeNet' = svcNet
    /\ UNCHANGED <<running, txSet, signal, unlocked, svcNet, calls, loops, endpoints,
                   locks, overlap, halfway, late>>

\* The background loops are spawned and the node is running.
SpawnBackground ==
    /\ node = "loops"
    /\ loops' = loops \cup {Subscribed(b, NoNet) : b \in Background}
    /\ running' = TRUE
    /\ node' = "idle"
    /\ UNCHANGED <<txSet, signal, unlocked, svcNet, nodeNet, calls, endpoints, locks,
                   overlap, halfway, late>>

\* identity.create, unlock, auto_unlock and the imports, which leave the key in
\* memory and then start the network; lock.
Unlock == ~unlocked /\ unlocked' = TRUE /\ UNCHANGED
    <<running, node, txSet, signal, svcNet, nodeNet, calls, loops, endpoints, locks,
      overlap, halfway, late>>

Lock ==
    /\ unlocked
    /\ unlocked' = FALSE /\ locks' = locks + 1
    /\ UNCHANGED <<running, node, txSet, signal, svcNet, nodeNet, calls, loops,
                   endpoints, overlap, halfway, late>>

\* A call is over; the one that EphemeraNode::start made hands back to it, which
\* only logs an error.
Return(c, ok) ==
    /\ calls' = [calls EXCEPT ![c] = Idle]
    /\ node' = IF c # Boot THEN node ELSE IF ok THEN "booted" ELSE "loops"

\* start_network, first step: done if the network is there, an error without a
\* key.
CheckRunning(c) ==
    /\ calls[c] = Idle
    /\ IF c = Boot THEN node = "network" ELSE unlocked
    /\ IF svcNet # NoNet \/ ~unlocked
       THEN Return(c, svcNet # NoNet) /\ UNCHANGED <<overlap, late>>
       ELSE /\ calls' = [calls EXCEPT ![c].step = "bind"]
            /\ overlap' = (overlap \/ Starting # {})
            /\ late' = (late \/ (~running /\ signal > 0))
            /\ UNCHANGED node
    /\ UNCHANGED <<running, txSet, signal, unlocked, svcNet, nodeNet, loops, endpoints,
                   locks, halfway>>

\* NetworkSubsystem::new and the four subscriptions; then the shutdown sender
\* is needed, which EphemeraNode::start has to have set.
BindEndpoint(c) ==
    /\ calls[c].step = "bind"
    /\ endpoints' = endpoints + 1
    /\ IF txSet
       THEN calls' = [calls EXCEPT ![c].step = "spawn", ![c].net = endpoints + 1] /\ UNCHANGED node
       ELSE Return(c, FALSE)
    /\ UNCHANGED <<running, txSet, signal, unlocked, svcNet, nodeNet, loops, locks,
                   overlap, halfway, late>>

\* The endpoint cannot be created, or a store cannot be opened for a loop: the
\* loops spawned before keep running.
StartFails(c) ==
    /\ calls[c].step \in {"bind", "spawn"}
    /\ Return(c, FALSE)
    /\ halfway' = (halfway \/ calls[c].topics # {})
    /\ UNCHANGED <<running, txSet, signal, unlocked, svcNet, nodeNet, loops, endpoints,
                   locks, overlap, late>>

\* The loops are spawned one after the other.
SpawnIngest(c) ==
    /\ calls[c].step = "spawn" /\ calls[c].topics # Topics
    /\ LET t == TopicOrder[Cardinality(calls[c].topics) + 1] IN
         /\ loops' = loops \cup {Subscribed(t, calls[c].net)}
         /\ calls' = [calls EXCEPT ![c].topics = @ \cup {t}]
    /\ UNCHANGED <<running, node, txSet, signal, unlocked, svcNet, nodeNet, endpoints,
                   locks, overlap, halfway, late>>

\* Mutant: the network is stored before its loops are there.
MutStoreNetwork(c) ==
    /\ calls[c].step = "spawn"
    /\ svcNet' = calls[c].net
    /\ UNCHANGED <<running, node, calls, txSet, signal, unlocked, nodeNet, loops, endpoints,
                   locks, overlap, halfway, late>>

\* The reference of the services is replaced; the contacts are dialled then.
StoreNetwork(c) ==
    /\ calls[c].step = "spawn" /\ calls[c].topics = Topics
    /\ svcNet' = calls[c].net
    /\ Return(c, TRUE)
    /\ UNCHANGED <<running, txSet, signal, unlocked, nodeNet, loops, endpoints, locks,
                   overlap, halfway, late>>

\* EphemeraNode::shutdown: a signal, and the node forgets its reference; the
\* services keep theirs.
Shutdown ==
    /\ running /\ node = "idle"
    /\ signal' = signal + 1
    /\ nodeNet' = NoNet
    /\ running' = FALSE
    /\ late' = (late \/ Starting # {})
    /\ UNCHANGED <<node, txSet, unlocked, svcNet, calls, loops, endpoints, locks,
                   overlap, halfway>>

\* shutdown_rx.changed() in a loop.
LoopEnds(l) ==
    /\ l.seen < signal
    /\ loops' = loops \ {l}
    /\ UNCHANGED <<running, node, txSet, signal, unlocked, svcNet, nodeNet, calls,
                   endpoints, locks, overlap, halfway, late>>

NodeInit ==
    /\ running = FALSE /\ node = "idle" /\ txSet = FALSE /\ signal = 0
    /\ unlocked \in BOOLEAN
    /\ svcNet = NoNet /\ nodeNet = NoNet
    /\ calls = [c \in Callers \cup {Boot} |-> Idle]
    /\ loops = {}
    /\ endpoints = 0 /\ locks = 0
    /\ overlap = FALSE /\ halfway = FALSE /\ late = FALSE

NodeNext ==
    \/ StartNode \/ NetworkAtBoot \/ SpawnBackground
    \/ Unlock
    \/ locks < MaxLocks /\ Lock
    \/ signal < MaxSignals /\ Shutdown
    \/ \E c \in Callers \cup {Boot} :
         \/ endpoints + Cardinality(Starting) < MaxNets /\ CheckRunning(c)
         \/ svcNet # NoNet /\ CheckRunning(c)
         \/ BindEndpoint(c) \/ StartFails(c) \/ SpawnIngest(c) \/ StoreNetwork(c)
    \/ \E l \in loops : LoopEnds(l)

NodeSpec == NodeInit /\ [][NodeNext]_nodeVars

------------------------------------------------------------------------------
\* What the services use as the network has all its ingest loops, as long as
\* the node was not shut down: a node that publishes also takes in what
\* arrives.  (After a shutdown and another start the services still have the
\* old network, start_network takes it for running, and nothing is taken in.)
NetworkIngests ==
    svcNet # NoNet /\ signal = 0 =>
        \A t \in Topics : \E l \in loops : l.name = t /\ l.net = svcNet

\* No message is taken in twice: the ingest loops that run are those of one
\* endpoint, unless calls of start_network overlapped or one failed half-way
\* (services/mod.rs:239, "Idempotent").
OneIngest ==
    ~overlap /\ ~halfway /\ ~late =>
        Cardinality({l.net : l \in {k \in loops : k.name \in Topics /\ k.seen = signal}}) <= 1

==============================================================================
