------------------------------- MODULE MCSweep -------------------------------
(* What the loops of a node must get done, for TLC: the sweep of expired     *)
(* posts, the tasks of the transport between two nodes, start and shutdown of *)
(* the loops, the loop that reconnects contacts, or the routing table and a    *)
(* lookup in it.  The initial state chooses; the parts share no state.         *)
EXTENDS PostStore, PeerTransport, NodeLifecycle, ContactReconnect, DhtLookup

CONSTANTS
    r1, r2, na, nb, loop,
    FewSends \* messages sent in a network of any shape

VARIABLE part

TwoTopics == <<"public_feed", "dm_delivery">>
MCShortTtl == [p \in Posts |-> 1]
TwoRows == <<na, nb>>

\* Exclusive or of numbers of three bits.
Bit(x, n) == (x \div 2 ^ n) % 2
MCXor(x, y) ==
    LET d(n) == IF Bit(x, n) = Bit(y, n) THEN 0 ELSE 2 ^ n IN d(0) + d(1) + d(2)
Pairs == {s \in SUBSET Ids : Cardinality(s) <= 2}

LoopsInit ==
    /\ part \in {"sweep", "transport", "node", "reconnect", "table", "lookup"}
    /\ Init /\ TransportInit /\ NodeInit /\ ReconnectInit /\ LookupInit
    /\ part # "node" => ~unlocked
    /\ part # "reconnect" => online = {} /\ ~ready

SweepStep ==
    part = "sweep" /\ Next /\ UNCHANGED <<part, transportVars, nodeVars, reconnectVars, lookupVars>>

\* Many messages pass on one connection only, of nodes with a relay.
TransportStep ==
    /\ part = "transport" /\ TransportNext
    /\ sent' > FewSends => Len(links') = 1 /\ dialling' = {} /\ \A n \in Endpoints : relay'[n] = "up"
    /\ UNCHANGED <<part, vars, nodeVars, reconnectVars, lookupVars>>

NodeStep ==
    part = "node" /\ NodeNext /\ UNCHANGED <<part, vars, transportVars, reconnectVars, lookupVars>>

ReconnectStep ==
    part = "reconnect" /\ ReconnectNext /\ UNCHANGED <<part, vars, transportVars, nodeVars, lookupVars>>

\* The table with evictions, or a lookup from a table without. A lookup reads the
\* table, and no cache, when it begins: the table rests from then on.
TableStep ==
    /\ part \in {"table", "lookup"} /\ ~started
    /\ TableNext /\ (part = "lookup" => pings' = {})
    /\ UNCHANGED <<part, vars, transportVars, nodeVars, reconnectVars>>

QueryStep ==
    part = "lookup" /\ QueryNext /\ UNCHANGED <<part, vars, transportVars, nodeVars, reconnectVars>>

\* Time passes, gc_loop runs again and again, and a handler that has begun ends.
SweepFairness ==
    /\ WF_vars(part = "sweep" /\ Tick) /\ WF_vars(part = "sweep" /\ Sweep)
    /\ WF_vars(part = "sweep" /\ IngestInsert) /\ WF_vars(part = "sweep" /\ ModMark)

\* Some task that can go on does: a send that waits, gossip's receive loop, or one
\* of a connection. Sends are finitely many, so all of them get their turn, as they
\* do with tokio's mutex and channels, which serve in order. Nobody has to connect.
TaskGoesOn ==
    \/ \E n \in Endpoints :
          \/ SendReturns(n) \/ \E m \in Endpoints : LoopSends(n, m)
          \/ \E S \in SUBSET Endpoints : Recv(n, S)
    \/ \E c \in LinkIds : \E n \in links[c].ends :
          \/ SetupConnection(n, c) \/ WriterSends(n, c) \/ WriterFails(n, c) \/ ReaderReceives(n, c)
TransportFairness == WF_transportVars(part = "transport" /\ TaskGoesOn)

\* A loop that has been told to end does so, and the reconnect loop ticks.
NodeFairness ==
    /\ WF_nodeVars(part = "node" /\ \E l \in loops : LoopEnds(l))
    /\ WF_reconnectVars(part = "reconnect" /\ (BeginRound \/ SkipContact \/ TryContact))

\* A lookup asks on, and a node that is asked answers unless the answer is lost.
LookupFairness ==
    /\ WF_lookupVars(part = "lookup" /\ Ask)
    /\ WF_lookupVars(part = "lookup" /\ \E from \in asked : \E closer \in Answers :
                        ProcessFindNodeResponse(from, closer))

LoopsSpec ==
    /\ LoopsInit
    /\ [][SweepStep \/ TransportStep \/ NodeStep \/ ReconnectStep \/ TableStep \/ QueryStep]_<<part,
            vars, transportVars, nodeVars, reconnectVars, lookupVars>>
    /\ SweepFairness /\ TransportFairness /\ NodeFairness /\ LookupFairness
==============================================================================
