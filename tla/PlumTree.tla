------------------------------ MODULE PlumTree ------------------------------
(***************************************************************************)
(* PlumTreeEngine: the topics one node is subscribed to, the peers that    *)
(* get whole messages (eager) or announcements (lazy) of each, and the two *)
(* filters that a message passes.  The filter of the engine forgets: it    *)
(* keeps two sets and drops the older when an epoch is over, which it      *)
(* notices at the next message only.  The filter of a topic lasts as long  *)
(* as the subscription.                                                    *)
(***************************************************************************)
EXTENDS Integers, FiniteSets, Sequences

CONSTANTS
    Topics, Hashes, Sources,
    Myself,           \* local_id
    MaxSubscriptions,
    BufferSize,       \* capacity of a subscriber's channel
    EpochDuration,    \* 300 seconds
    NoState,          \* topics.get(..) is None
    LastTick          \* bound on the clock

VARIABLES
    tick,             \* Instant::now()
    topics,           \* topics[t]: TopicState, or NoState
    current, previous, epochStart, \* MessageDedup
    markedAt          \* history: the times at which a hash was marked

dedupVars == <<current, previous, epochStart, markedAt>>
treeVars == <<tick, topics, dedupVars>>

\* TopicState::new; handed is the history of what the subscriber's channel took,
\* of which waiting messages have not been received.
NewTopicState == [eager |-> {}, lazy |-> {}, seen |-> {}, handed |-> <<>>, waiting |-> 0]

TopicStates ==
    [eager : SUBSET Sources, lazy : SUBSET Sources, seen : SUBSET Hashes,
     handed : Seq(Hashes), waiting : Nat]

ASSUME PlumTreeAssumption == EpochDuration \in Nat /\ NoState \notin TopicStates

Subscribed == {t \in Topics : topics[t] # NoState}

TreeInit ==
    /\ tick = 0
    /\ topics = [t \in Topics |-> NoState]
    /\ current = {} /\ previous = {} /\ epochStart = 0
    /\ markedAt = {}

----------------------------------------------------------------------------
\* subscribe: also of a topic that is subscribed already, whose state is replaced.
SubscribeTopic(t) ==
    /\ Cardinality(Subscribed) < MaxSubscriptions
    /\ topics' = [topics EXCEPT ![t] = NewTopicState]
    /\ UNCHANGED <<tick, dedupVars>>

UnsubscribeTopic(t) ==
    /\ t \in Subscribed
    /\ topics' = [topics EXCEPT ![t] = NoState]
    /\ UNCHANGED <<tick, dedupVars>>

AddEagerPeer(t, p) ==
    /\ t \in Subscribed
    /\ topics' = [topics EXCEPT ![t].lazy = @ \ {p}, ![t].eager = @ \cup {p}]
    /\ UNCHANGED <<tick, dedupVars>>

PruneToLazy(t, p) ==
    /\ t \in Subscribed /\ p \in topics[t].eager
    /\ topics' = [topics EXCEPT ![t].eager = @ \ {p}, ![t].lazy = @ \cup {p}]
    /\ UNCHANGED <<tick, dedupVars>>

GraftToEager(t, p) ==
    /\ t \in Subscribed /\ p \in topics[t].lazy
    /\ topics' = [topics EXCEPT ![t].lazy = @ \ {p}, ![t].eager = @ \cup {p}]
    /\ UNCHANGED <<tick, dedupVars>>

----------------------------------------------------------------------------
EpochOver == tick - epochStart >= EpochDuration

\* Mutant: the set that was current is dropped with the previous one.
MutMaybeRotate ==
    IF EpochOver THEN [current |-> {}, previous |-> {}, epochStart |-> tick]
    ELSE [current |-> current, previous |-> previous, epochStart |-> epochStart]

\* maybe_rotate
MaybeRotate ==
    IF EpochOver THEN [current |-> {}, previous |-> current, epochStart |-> tick]
    ELSE [current |-> current, previous |-> previous, epochStart |-> epochStart]

\* is_duplicate, of the sets as rotated.
IsDuplicate(d, h) == h \in d.current \cup d.previous

\* try_send: a message for which the channel has no room is lost.
TrySend(s, h) ==
    IF s.waiting < BufferSize
    THEN [s EXCEPT !.handed = Append(@, h), !.waiting = @ + 1]
    ELSE s

\* What receive_message makes of the state of the topic.
TopicReceives(s, h) ==
    IF s = NoState \/ h \in s.seen THEN s
    ELSE TrySend([s EXCEPT !.seen = @ \cup {h}], h)

\* The engine's filter comes first and is told of the message, whether or not the
\* topic is subscribed.
ReceiveMessage(t, h) ==
    LET d == MaybeRotate IN
    /\ epochStart' = d.epochStart /\ previous' = d.previous
    /\ IF IsDuplicate(d, h)
       THEN current' = d.current /\ UNCHANGED <<topics, markedAt>>
       ELSE /\ current' = d.current \cup {h}
            /\ markedAt' = markedAt \cup {<<h, tick>>}
            /\ topics' = [topics EXCEPT ![t] = TopicReceives(@, h)]
    /\ UNCHANGED tick

\* The peers a message is forwarded and announced to.
Forwards(t, source) == [eager |-> topics[t].eager \ {source, Myself},
                        lazy  |-> topics[t].lazy \ {source, Myself}]

\* TopicSubscription::recv
Recv(t) ==
    /\ t \in Subscribed /\ topics[t].waiting > 0
    /\ topics' = [topics EXCEPT ![t].waiting = @ - 1]
    /\ UNCHANGED <<tick, dedupVars>>

Tick ==
    /\ tick < LastTick /\ tick' = tick + 1
    /\ UNCHANGED <<topics, dedupVars>>

TreeNext ==
    \/ \E t \in Topics :
         \/ SubscribeTopic(t) \/ UnsubscribeTopic(t) \/ Recv(t)
         \/ \E p \in Sources : AddEagerPeer(t, p) \/ PruneToLazy(t, p) \/ GraftToEager(t, p)
         \/ \E h \in Hashes : ReceiveMessage(t, h)
    \/ Tick

TreeSpec == TreeInit /\ [][TreeNext]_treeVars

----------------------------------------------------------------------------
\* No message enters the channel of a subscription twice, however late a copy of it
\* comes: when the engine's filter has forgotten the message, the topic's has not.
DeliveredOnce ==
    \A t \in Subscribed : \A i, j \in 1 .. Len(topics[t].handed) :
       i # j => topics[t].handed[i] # topics[t].handed[j]

\* A message that was handled is refused for an epoch at least, though a rotation
\* may come right after it ("time-rotated seen set (two epoch HashSets)").
RememberedAnEpoch ==
    \A m \in markedAt : tick < m[2] + EpochDuration => IsDuplicate(MaybeRotate, m[1])

\* No peer gets both the message and its announcement, and neither goes back to
\* the peer that sent it.
SentOneWay ==
    \A t \in Subscribed : \A p \in Sources :
       LET out == Forwards(t, p) IN out.eager \cap out.lazy = {} /\ p \notin out.eager \cup out.lazy
=============================================================================
