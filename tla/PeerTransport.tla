---------------------------- MODULE PeerTransport ----------------------------
(* The table of peers of IrohTransport on several nodes: dialling, accepting *)
(* and registering a QUIC connection, its writer and reader tasks, their     *)
(* channels, the mutex of the table, which a send holds while it waits for   *)
(* room in a channel, and the receive loop of gossip, which sends what it    *)
(* has to answer or forward before it receives again.  A message is its      *)
(* place in a channel.  Of the QUIC library (external) the model assumes: a  *)
(* dial makes one connection with a handle on both sides, a connection is    *)
(* closed for both when one side has dropped its last handle, streams of a   *)
(* closed connection are lost, and a peer that reads no streams soon grants  *)
(* no more.                                                                  *)
EXTENDS Integers, Sequences, FiniteSets

CONSTANTS
    Endpoints,
    NoLink,      \* no entry in the table
    Outbound,    \* capacity of an outbound channel (256)
    Inbound,     \* capacity of the inbound channel (1024)
    Credit,      \* streams that a peer grants, and one in the writer's hand
    Senders,     \* bound: the nodes that send
    MaxLinks,    \* bound: connections made
    MaxSends,    \* bound: messages sent, answered and forwarded
    MaxBreaks    \* bound: disconnects and network failures together

ASSUME TransportAssumption == NoLink \notin Nat

VARIABLES
    relay,    \* relay[n]: "off" before the endpoint is bound, "up" or "timeout"
    peers,    \* peers[n][m]: the connection whose channel the entry has
    links,    \* links[c]: the two ends of connection c, and whether it is open
    tasks,    \* tasks[c][n]: the tasks of end n of connection c
    outbound, \* outbound[c][n]: messages in the outbound channel of that end
    dialling, \* <<n, m>>: calls of connect that wait for the endpoint
    holder,   \* holder[n]: the send that holds the mutex of peers, or {}
    streams,  \* streams[c][n]: streams that end n of connection c has opened
    inbound,  \* inbound[n]: the inbound channel, senders of messages
    answers,  \* answers[n]: the peers that gossip's receive loop has yet to send to
    sent,     \* history: messages handed to send
    breaks,   \* history: disconnects and failures so far
    crossed   \* history: the pairs that set two connections up at once

transportVars ==
    <<relay, peers, links, tasks, outbound, dialling, holder, streams, inbound,
      answers, sent, breaks, crossed>>

LinkIds == 1 .. Len(links)
Far(c, n) == CHOOSE m \in links[c].ends : m # n

\* setup: the handshake is done and setup_connection has not run; writer and
\* reader: "run", "ended" (the loop is over, its task is not) or "none".
NoTasks == [setup |-> FALSE, writer |-> "none", reader |-> "none"]

HoldsHandle(t) == t.setup \/ t.writer = "run" \/ t.reader = "run"

\* Side n of connection c goes on with the tasks t; the connection is closed
\* when that was its last handle.
Continue(c, n, t) ==
    /\ tasks' = [tasks EXCEPT ![c][n] = t]
    /\ links' = IF HoldsHandle(tasks[c][n]) /\ ~HoldsHandle(t)
                THEN [links EXCEPT ![c].open = FALSE] ELSE links

\* The receiver of the channel is gone.
IsClosed(c, n) == tasks[c][n].writer # "run"

Unlocked(n) == holder[n] = {}

\* wait_online: a relay answers before ONLINE_TIMEOUT, or not.
RelayStatus == {"up", "timeout"}

\* with_secret_key: bind and wait; the transport works in both cases.
Bind(n) ==
    /\ relay[n] = "off"
    /\ \E status \in RelayStatus : relay' = [relay EXCEPT ![n] = status]
    /\ UNCHANGED <<peers, links, tasks, outbound, dialling, holder, streams, inbound,
                   answers, sent, breaks, crossed>>

\* connect, up to endpoint.connect(): an entry of the table is taken as proof
\* of a connection.
Connect(n, m) ==
    /\ relay[n] # "off" /\ Unlocked(n)
    /\ peers[n][m] = NoLink
    /\ <<n, m>> \notin dialling
    /\ dialling' = dialling \cup {<<n, m>>}
    /\ UNCHANGED <<relay, peers, links, tasks, outbound, holder, streams, inbound,
                   answers, sent, breaks, crossed>>

\* The handshake succeeds.  Without addresses both ends need a relay.
Dialled(n, m, addresses) ==
    /\ <<n, m>> \in dialling
    /\ relay[m] # "off"
    /\ addresses \/ {relay[n], relay[m]} = {"up"}
    /\ dialling' = dialling \ {<<n, m>>}
    /\ links' = Append(links, [ends |-> {n, m}, open |-> TRUE])
    /\ tasks' = Append(tasks, [k \in {n, m} |-> [NoTasks EXCEPT !.setup = TRUE]])
    /\ outbound' = Append(outbound, [k \in {n, m} |-> 0])
    /\ streams' = Append(streams, [k \in {n, m} |-> 0])
    /\ crossed' = IF \E c \in LinkIds : links[c].ends = {n, m} /\ \E k \in {n, m} : tasks[c][k].setup
                  THEN crossed \cup {{n, m}} ELSE crossed
    /\ UNCHANGED <<relay, peers, holder, inbound, answers, sent, breaks>>

DialFails(n, m) ==
    /\ <<n, m>> \in dialling
    /\ dialling' = dialling \ {<<n, m>>}
    /\ UNCHANGED <<relay, peers, links, tasks, outbound, holder, streams, inbound,
                   answers, sent, breaks, crossed>>

\* Mutant: the new connection takes the place of the old one.
MutSetupConnection(n, c) ==
    LET m == Far(c, n) IN
    /\ n \in links[c].ends /\ tasks[c][n].setup
    /\ Unlocked(n)
    /\ peers' = [peers EXCEPT ![n][m] = c]
    /\ Continue(c, n, [setup |-> FALSE, writer |-> "run", reader |-> "run"])
    /\ UNCHANGED <<relay, outbound, dialling, holder, streams, inbound, answers, sent, breaks, crossed>>

\* setup_connection, on either side: a second connection to a registered peer
\* is dropped, which closes it.
SetupConnection(n, c) ==
    LET m == Far(c, n) IN
    /\ n \in links[c].ends /\ tasks[c][n].setup
    /\ Unlocked(n)
    /\ IF peers[n][m] # NoLink
       THEN Continue(c, n, NoTasks) /\ UNCHANGED peers
       ELSE /\ peers' = [peers EXCEPT ![n][m] = c]
            /\ Continue(c, n, [setup |-> FALSE, writer |-> "run", reader |-> "run"])
    /\ UNCHANGED <<relay, outbound, dialling, holder, streams, inbound, answers, sent, breaks, crossed>>

\* A message for a channel: with a full channel the send waits and keeps the mutex.
Enqueue(n, c, loop) ==
    IF outbound[c][n] < Outbound
    THEN outbound' = [outbound EXCEPT ![c][n] = @ + 1] /\ UNCHANGED holder
    ELSE holder' = [holder EXCEPT ![n] = {[link |-> c, loop |-> loop]}] /\ UNCHANGED outbound

\* send fails without an entry and when the channel is closed.
CannotSend(n, m) == peers[n][m] = NoLink \/ IsClosed(peers[n][m], n)

\* send, from publish or the loop that asks for announced messages.
Send(n, m) ==
    /\ Unlocked(n) /\ ~CannotSend(n, m)
    /\ Enqueue(n, peers[n][m], FALSE)
    /\ sent' = sent + 1
    /\ UNCHANGED <<relay, peers, links, tasks, dialling, streams, inbound, answers, breaks, crossed>>

\* send, from the receive loop.
LoopSends(n, m) ==
    /\ m \in answers[n] /\ Unlocked(n)
    /\ IF CannotSend(n, m) THEN UNCHANGED <<outbound, holder>> ELSE Enqueue(n, peers[n][m], TRUE)
    /\ answers' = IF holder' = holder THEN [answers EXCEPT ![n] = @ \ {m}] ELSE answers
    /\ UNCHANGED <<relay, peers, links, tasks, dialling, streams, inbound, sent, breaks, crossed>>

\* Mutant: a send that waits is not woken when the channel is closed.
MutSendReturns(n) ==
    /\ \E w \in holder[n] :
         /\ ~IsClosed(w.link, n) /\ outbound[w.link][n] < Outbound
         /\ outbound' = [outbound EXCEPT ![w.link][n] = @ + 1]
         /\ answers' = IF w.loop THEN [answers EXCEPT ![n] = @ \ {Far(w.link, n)}] ELSE answers
    /\ holder' = [holder EXCEPT ![n] = {}]
    /\ UNCHANGED <<relay, peers, links, tasks, dialling, streams, inbound, sent, breaks, crossed>>

\* The wait ends with room in the channel, or with the channel.
SendReturns(n) ==
    /\ \E w \in holder[n] :
         /\ \/ IsClosed(w.link, n) /\ UNCHANGED outbound
            \/ /\ ~IsClosed(w.link, n) /\ outbound[w.link][n] < Outbound
               /\ outbound' = [outbound EXCEPT ![w.link][n] = @ + 1]
         /\ answers' = IF w.loop THEN [answers EXCEPT ![n] = @ \ {Far(w.link, n)}] ELSE answers
    /\ holder' = [holder EXCEPT ![n] = {}]
    /\ UNCHANGED <<relay, peers, links, tasks, dialling, streams, inbound, sent, breaks, crossed>>

\* writer_loop: one stream for each message, as far as the peer grants them.
WriterSends(n, c) ==
    /\ n \in links[c].ends /\ tasks[c][n].writer = "run" /\ outbound[c][n] > 0
    /\ links[c].open /\ streams[c][n] < Credit
    /\ streams' = [streams EXCEPT ![c][n] = @ + 1]
    /\ outbound' = [outbound EXCEPT ![c][n] = @ - 1]
    /\ UNCHANGED <<relay, peers, links, tasks, dialling, holder, inbound, answers, sent, breaks, crossed>>

\* The loop ends, and with it the channel and what it holds, when the connection
\* fails under a message.
WriterFails(n, c) ==
    /\ n \in links[c].ends /\ tasks[c][n].writer = "run" /\ ~links[c].open
    /\ outbound[c][n] > 0 \/ streams[c][n] = Credit
    /\ Continue(c, n, [tasks[c][n] EXCEPT !.writer = "ended"])
    /\ outbound' = [outbound EXCEPT ![c][n] = 0]
    /\ UNCHANGED <<relay, peers, dialling, holder, streams, inbound, answers, sent, breaks, crossed>>

\* The channel has no sender left and is empty.
WriterDrained(n, c) ==
    /\ n \in links[c].ends /\ tasks[c][n].writer = "run" /\ outbound[c][n] = 0
    /\ streams[c][n] < Credit /\ peers[n][Far(c, n)] # c
    /\ Continue(c, n, [tasks[c][n] EXCEPT !.writer = "ended"])
    /\ UNCHANGED <<relay, peers, outbound, dialling, holder, streams, inbound, answers, sent, breaks, crossed>>

\* Mutant: the writer removes whatever entry the peer has.
MutWriterCleanup(n, c) ==
    LET m == Far(c, n) IN
    /\ n \in links[c].ends /\ tasks[c][n].writer = "ended"
    /\ Unlocked(n)
    /\ peers' = [peers EXCEPT ![n][m] = NoLink]
    /\ Continue(c, n, [tasks[c][n] EXCEPT !.writer = "none"])
    /\ UNCHANGED <<relay, outbound, dialling, holder, streams, inbound, answers, sent, breaks, crossed>>

\* The end of the writer task: the entry of the peer is removed when its
\* channel, which may be another connection's, is closed.
WriterCleanup(n, c) ==
    LET m == Far(c, n) IN
    /\ n \in links[c].ends /\ tasks[c][n].writer = "ended"
    /\ Unlocked(n)
    /\ peers' = IF peers[n][m] # NoLink /\ IsClosed(peers[n][m], n)
                THEN [peers EXCEPT ![n][m] = NoLink] ELSE peers
    /\ Continue(c, n, [tasks[c][n] EXCEPT !.writer = "none"])
    /\ UNCHANGED <<relay, outbound, dialling, holder, streams, inbound, answers, sent, breaks, crossed>>

\* reader_loop: with a full inbound channel the reader waits ...
ReaderReceives(n, c) ==
    LET m == Far(c, n) IN
    /\ n \in links[c].ends /\ tasks[c][n].reader = "run" /\ links[c].open
    /\ streams[c][m] > 0 /\ Len(inbound[n]) < Inbound
    /\ streams' = [streams EXCEPT ![c][m] = @ - 1]
    /\ inbound' = [inbound EXCEPT ![n] = Append(@, m)]
    /\ UNCHANGED <<relay, peers, links, tasks, outbound, dialling, holder, answers, sent, breaks, crossed>>

\* ... and a frame over MAX_FRAME_SIZE, or one that breaks off, is skipped.
ReaderSkips(n, c) ==
    LET m == Far(c, n) IN
    /\ n \in links[c].ends /\ tasks[c][n].reader = "run" /\ links[c].open
    /\ streams[c][m] > 0
    /\ streams' = [streams EXCEPT ![c][m] = @ - 1]
    /\ UNCHANGED <<relay, peers, links, tasks, outbound, dialling, holder, inbound, answers, sent, breaks,
                   crossed>>

ReaderEnds(n, c) ==
    /\ n \in links[c].ends /\ tasks[c][n].reader = "run" /\ ~links[c].open
    /\ Continue(c, n, [tasks[c][n] EXCEPT !.reader = "none"])
    /\ UNCHANGED <<relay, peers, outbound, dialling, holder, streams, inbound, answers, sent, breaks,
                   crossed>>

\* connected_peers: none while the table is locked.
ConnectedPeers(n) == {m \in Endpoints : Unlocked(n) /\ peers[n][m] # NoLink}

\* recv, from gossip's receive loop: the message is a duplicate or an announcement,
\* asks for another one, or is forwarded.
Recv(n, S) ==
    /\ answers[n] = {} /\ inbound[n] # <<>>
    /\ S \in {{}, {Head(inbound[n])}, ConnectedPeers(n) \ {Head(inbound[n])}}
    /\ inbound' = [inbound EXCEPT ![n] = Tail(@)]
    /\ answers' = [answers EXCEPT ![n] = S]
    /\ sent' = sent + Cardinality(S)
    /\ UNCHANGED <<relay, peers, links, tasks, outbound, dialling, holder, streams, breaks, crossed>>

\* disconnect removes the entry; the reader keeps the connection open.
Disconnect(n, m) ==
    /\ Unlocked(n)
    /\ peers[n][m] # NoLink
    /\ peers' = [peers EXCEPT ![n][m] = NoLink]
    /\ breaks' = breaks + 1
    /\ UNCHANGED <<relay, links, tasks, outbound, dialling, holder, streams, inbound, answers, sent, crossed>>

\* The network fails, or an endpoint is shut down.
LinkFails(c) ==
    /\ links[c].open
    /\ links' = [links EXCEPT ![c].open = FALSE]
    /\ breaks' = breaks + 1
    /\ UNCHANGED <<relay, peers, tasks, outbound, dialling, holder, streams, inbound, answers, sent, crossed>>

TransportInit ==
    /\ relay = [n \in Endpoints |-> "off"]
    /\ peers = [n \in Endpoints |-> [m \in Endpoints |-> NoLink]]
    /\ links = <<>> /\ tasks = <<>> /\ outbound = <<>>
    /\ dialling = {}
    /\ holder = [n \in Endpoints |-> {}]
    /\ streams = <<>>
    /\ inbound = [n \in Endpoints |-> <<>>]
    /\ answers = [n \in Endpoints |-> {}]
    /\ sent = 0 /\ breaks = 0
    /\ crossed = {}

TransportNext ==
    \/ \E n \in Endpoints :
         \/ Bind(n) \/ SendReturns(n)
         \/ \E S \in SUBSET Endpoints : (S # {} => sent < MaxSends) /\ Recv(n, S)
    \/ \E n \in Endpoints : \E m \in Endpoints \ {n} :
         \/ Len(links) + Cardinality(dialling) < MaxLinks /\ Connect(n, m)
         \/ DialFails(n, m)
         \/ \E addresses \in BOOLEAN : Dialled(n, m, addresses)
         \/ n \in Senders /\ sent < MaxSends /\ Send(n, m)
         \/ LoopSends(n, m)
         \/ breaks < MaxBreaks /\ Disconnect(n, m)
    \/ \E c \in LinkIds :
         \/ breaks < MaxBreaks /\ LinkFails(c)
         \/ \E n \in links[c].ends :
              \/ SetupConnection(n, c)
              \/ WriterSends(n, c) \/ WriterFails(n, c) \/ WriterDrained(n, c) \/ WriterCleanup(n, c)
              \/ ReaderReceives(n, c) \/ ReaderSkips(n, c) \/ ReaderEnds(n, c)

TransportSpec == TransportInit /\ [][TransportNext]_transportVars

------------------------------------------------------------------------------
\* An entry whose channel works leaves the table only by disconnect: the
\* cleanup of an older connection's writer never removes the entry of the
\* connection that replaced it (iroh_transport.rs:393).
ReplacementKept ==
    [][\A n, m \in Endpoints :
         LET c == peers[n][m] IN
         c # NoLink /\ peers'[n][m] # c =>
             IsClosed(c, n) \/ Disconnect(n, m)]_transportVars

\* A send that waits with the mutex of the table gives it up, also when the
\* connection is lost or its peer reads slowly: otherwise no peer could be
\* registered, sent to or removed again.  The exception is nodes that wait for each
\* other in a circle: each holds its mutex until the next one reads, and the receive
\* loops, which send inline, cannot (service.rs:335, 448, 497).
Circle ==
    \E S \in SUBSET Endpoints \ {{}} : \A n \in S : \E w \in holder[n] : Far(w.link, n) \in S
MutexReleased == \A n \in Endpoints : []<>(holder[n] = {}) \/ <>[]Circle

\* No dead entry stays behind: the writer of every entry is running, or ended
\* with its cleanup still to come.  Otherwise connect would take the peer for
\* connected and every send to it would fail, for good.
NoDeadEntry ==
    \A n, m \in Endpoints :
        peers[n][m] # NoLink => tasks[peers[n][m]][n].writer \in {"run", "ended"}

\* The connection that setup_connection keeps is live, as its comments have it
\* (iroh_transport.rs:354, "the existing one is kept", and :376, "the existing
\* one is live"), as long as the network does not fail and nobody disconnects.
\* The exception is the case the comment names: when two connections of a pair
\* are set up at once, each node may keep the one that the other drops.
KeptIsLive ==
    \A n, m \in Endpoints :
        peers[n][m] # NoLink /\ breaks = 0 /\ {n, m} \notin crossed =>
            /\ links[peers[n][m]].open
            /\ tasks[peers[n][m]][m].setup \/ peers[m][n] = peers[n][m]
==============================================================================
