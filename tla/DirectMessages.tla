--------------------------- MODULE DirectMessages ---------------------------
(***************************************************************************)
(* Direct messages between nodes. A message is stored by its sender, and   *)
(* then goes three ways: as a plaintext direct_message over gossip, which  *)
(* the recipient stores; as a dead drop over gossip, which every node keeps*)
(* for the recipient; and as a DHT record in the recipient's mailbox. The  *)
(* ingest loop, the API and the sweep have a connection each, and none of  *)
(* them puts its statements on messages and conversations in a transaction.*)
(***************************************************************************)
EXTENDS Integers, FiniteSets

CONSTANTS
    Peers,
    Senders,     \* bound: the peers who send
    Bodies,
    Ttls,        \* the times to live that callers ask for
    MaxDropTtl,  \* DEAD_DROP_MAX_TTL_SECS
    RowTtl,      \* the 86400 seconds that a received row is kept
    MaxTime      \* bound on the clock

ASSUME DmAssumption ==
    /\ Senders \subseteq Peers /\ Ttls \subseteq Nat
    /\ MaxDropTtl \in Nat /\ RowTtl \in Nat /\ MaxTime \in Nat

VARIABLES
    time,
    letters,  \* letters[p]: rows of messages on the node of p
    unread,   \* unread[p][q]: the counter of the conversation with q
    talks,    \* talks[p]: peers with a conversation
    storing,  \* storing[p]: whose row the ingest loop inserted and did not count yet
    reading,  \* reading[p]: the conversation with rows marked and a counter not reset
    swept,    \* history, swept[p][q]: unread rows swept since the last reset
    disturbed,  \* history: <<p, q>> whose counting met a reading, or failed, since
              \* the last reading that met none
    ether,    \* <<kind, message>> on the gossip topic
    drops,    \* drops[p]: rows of dead_drops, keyed by the hash of the body
    box,      \* box[p][q]: DHT record in the mailbox of q, in p's storage
    fetched   \* fetched[p]: the record that a poll of p has read

counting == <<storing, reading, swept, disturbed>>
rowVars == <<letters, unread, talks, counting>>
transit == <<ether, drops, box, fetched>>
dmVars == <<time, rowVars, transit>>

Nothing == [body |-> "nothing"]
Idle == [body |-> "idle"]

Messages ==
    [from : Peers, to : Peers, body : Bodies, at : 0..MaxTime,
     till : 0..(MaxTime + MaxDropTtl)]

Least(a, b) == IF a <= b THEN a ELSE b

DmInit ==
    /\ time = 0
    /\ letters = [p \in Peers |-> {}]
    /\ unread = [p \in Peers |-> [q \in Peers |-> 0]]
    /\ talks = [p \in Peers |-> {}]
    /\ storing = [p \in Peers |-> {}]
    /\ reading = [p \in Peers |-> {}]
    /\ swept = [p \in Peers |-> [q \in Peers |-> 0]]
    /\ disturbed = {}
    /\ ether = {}
    /\ drops = [p \in Peers |-> {}]
    /\ box = [p \in Peers |-> [q \in Peers |-> Nothing]]
    /\ fetched = [p \in Peers |-> Idle]

-----------------------------------------------------------------------------
(* DeadDropService. *)

\* INSERT OR IGNORE: the key is the hash of the body alone.
DepositRaw(table, m) ==
    IF m.till <= time \/ \E d \in table : d.body = m.body THEN table
    ELSE table \cup {[m EXCEPT !.till = Least(m.till, time + MaxDropTtl)]}

CheckMailbox(table, p) == {d \in table : d.to = p /\ d.till > time}
Gc(table) == {d \in table : d.till > time}

-----------------------------------------------------------------------------
(* Sending. *)

HasRow(p, key) == \E r \in letters[p] : r.key = key

\* MessageService::send. The identifier of the sender's row is the hash of
\* the body: a body that was sent before makes the INSERT fail, after the
\* conversation was created.
SendDm(p, q, b, ttl, online) ==
    LET m == [from |-> p, to |-> q, body |-> b, at |-> time,
              till |-> time + Least(ttl, MaxDropTtl)]
        row == [key |-> <<"body", b>>, peer |-> q, from |-> p, read |-> TRUE,
                till |-> time + ttl]
    IN  /\ reading[p] = {} \* both hold the mutex of the message connection
        /\ talks' = [talks EXCEPT ![p] = @ \cup {q}]
        /\ IF HasRow(p, row.key)
           THEN UNCHANGED <<letters, drops, ether, box>>
           ELSE /\ letters' = [letters EXCEPT ![p] = @ \cup {row}]
                /\ drops' = [drops EXCEPT ![p] = DepositRaw(@, m)]
                /\ ether' = IF online THEN ether \cup {<<"dm", m>>, <<"drop", m>>}
                            ELSE ether
                /\ box' = [box EXCEPT ![p][q] = m]
        /\ UNCHANGED <<time, unread, counting, fetched>>

-----------------------------------------------------------------------------
(* message_ingest_loop. Gossip may deliver a message again. *)

\* The node of p has <<p, q>> in disturbed when met is true.
Disturbing(p, q, met) == IF met THEN disturbed \cup {<<p, q>>} ELSE disturbed

\* Mutant: the counter goes up for a duplicate too, as in receive_message.
StoreDmAgain(p, m) ==
    LET row == [key |-> <<"dm", m.from, m.body, m.at>>, peer |-> m.from,
                from |-> m.from, read |-> FALSE, till |-> time + RowTtl]
    IN  /\ <<"dm", m>> \in ether /\ m.to = p
        /\ storing[p] = {}
        /\ talks' = [talks EXCEPT ![p] = @ \cup {m.from}]
        /\ unread[p][m.from] < 3
        /\ letters' = IF HasRow(p, row.key) THEN letters
                      ELSE [letters EXCEPT ![p] = @ \cup {row}]
        /\ storing' = [storing EXCEPT ![p] = {m.from}]
        /\ disturbed' = Disturbing(p, m.from, m.from \in reading[p])
        /\ UNCHANGED <<time, unread, reading, swept, transit>>

\* handle_plaintext_dm, as far as the INSERT OR IGNORE.
StoreDm(p, m) ==
    LET row == [key |-> <<"dm", m.from, m.body, m.at>>, peer |-> m.from,
                from |-> m.from, read |-> FALSE, till |-> time + RowTtl]
    IN  /\ <<"dm", m>> \in ether /\ m.to = p
        /\ storing[p] = {}
        /\ talks' = [talks EXCEPT ![p] = @ \cup {m.from}]
        /\ IF HasRow(p, row.key) THEN UNCHANGED <<letters, storing, disturbed>>
           ELSE /\ letters' = [letters EXCEPT ![p] = @ \cup {row}]
                /\ storing' = [storing EXCEPT ![p] = {m.from}]
                /\ disturbed' = Disturbing(p, m.from, m.from \in reading[p])
        /\ UNCHANGED <<time, unread, reading, swept, transit>>

\* Its UPDATE of the counter. A failure is ignored.
CountDm(p, q, ok) ==
    /\ q \in storing[p]
    /\ storing' = [storing EXCEPT ![p] = {}]
    /\ unread' = IF ok THEN [unread EXCEPT ![p][q] = @ + 1] ELSE unread
    /\ disturbed' = Disturbing(p, q, ~ok)
    /\ UNCHANGED <<time, letters, talks, reading, swept, transit>>

\* Every node that gossip reaches keeps the drop, the recipient's too.
IngestEnvelope(p, m) ==
    /\ <<"drop", m>> \in ether /\ m.from # p
    /\ storing[p] = {}
    /\ m.till > time
    /\ drops' = [drops EXCEPT ![p] = DepositRaw(@, m)]
    /\ UNCHANGED <<time, rowVars, ether, box, fetched>>

LoseEnvelope(e) ==
    /\ ether' = ether \ {e}
    /\ UNCHANGED <<time, rowVars, drops, box, fetched>>

\* handle_query on the node of p and handle_response on that of r.
CopyDhtRecord(p, r, q) ==
    /\ box[p][q] # Nothing
    /\ box' = [box EXCEPT ![r][q] = box[p][q]]
    /\ UNCHANGED <<time, rowVars, ether, drops, fetched>>

-----------------------------------------------------------------------------
(* dead_drop_poll_loop and retrieve_dht_dead_drops. The DHT lock is let go *)
(* between the reading of the record and its removal.                      *)

PollRead(p) ==
    /\ fetched[p] = Idle
    /\ drops' = [drops EXCEPT ![p] = Gc(@)]
    /\ fetched' = [fetched EXCEPT ![p] = box[p][p]]
    /\ UNCHANGED <<time, rowVars, ether, box>>

\* What is found in the mailbox is acknowledged, and not stored.
PollFinish(p) ==
    LET table == IF fetched[p] = Nothing THEN drops[p]
                 ELSE DepositRaw(drops[p], fetched[p])
        mine == CheckMailbox(table, p)
    IN  /\ fetched[p] # Idle
        /\ box' = IF fetched[p] = Nothing THEN box
                  ELSE [box EXCEPT ![p][p] = Nothing]
        \* DELETE goes by the identifier
        /\ drops' = [drops EXCEPT ![p] =
                       {d \in table : \A e \in mine : d.body # e.body}]
        /\ fetched' = [fetched EXCEPT ![p] = Idle]
        /\ UNCHANGED <<time, rowVars, ether>>

-----------------------------------------------------------------------------

(* MessageService::mark_read, and phase 1 of the sweep. *)

\* Its UPDATE of messages.
MarkRead(p, q) ==
    /\ reading[p] = {}
    /\ letters' = [letters EXCEPT ![p] =
                     {IF r.peer = q THEN [r EXCEPT !.read = TRUE] ELSE r : r \in @}]
    /\ reading' = [reading EXCEPT ![p] = {q}]
    /\ disturbed' = IF q \in storing[p] THEN disturbed \cup {<<p, q>>}
                  ELSE disturbed \ {<<p, q>>}
    /\ UNCHANGED <<time, unread, talks, storing, swept, transit>>

\* Its UPDATE of conversations.
ResetUnread(p, q, ok) ==
    /\ q \in reading[p]
    /\ reading' = [reading EXCEPT ![p] = {}]
    /\ unread' = IF ok THEN [unread EXCEPT ![p][q] = 0] ELSE unread
    /\ swept' = IF ok THEN [swept EXCEPT ![p][q] = 0] ELSE swept
    /\ disturbed' = Disturbing(p, q, ~ok)
    /\ UNCHANGED <<time, letters, talks, storing, transit>>

UnreadRows(table, q) == {r \in table : r.peer = q /\ ~r.read}

\* Expired rows go, read or not; the counters stay.
SweepMessages(p) ==
    LET gone == {r \in letters[p] : r.till < time}
    IN  /\ letters' = [letters EXCEPT ![p] = @ \ gone]
        /\ swept' = [swept EXCEPT ![p] =
                       [q \in Peers |-> @[q] + Cardinality(UnreadRows(gone, q))]]
        /\ UNCHANGED <<time, unread, talks, storing, reading, disturbed, transit>>

Tick ==
    /\ time < MaxTime
    /\ time' = time + 1
    /\ UNCHANGED <<rowVars, transit>>

\* messages.send and messages.mark_read; the other two handlers read.
MessagesApi ==
    \/ \E p \in Senders, q \in Peers, b \in Bodies, ttl \in Ttls, on \in BOOLEAN :
          p # q /\ SendDm(p, q, b, ttl, on)
    \/ \E p, q \in Peers : q \in talks[p] /\ MarkRead(p, q)
    \/ \E p, q \in Peers, ok \in BOOLEAN : ResetUnread(p, q, ok)

DmNext ==
    \/ MessagesApi
    \/ \E p \in Peers, e \in ether :
          StoreDm(p, e[2]) \/ IngestEnvelope(p, e[2])
    \/ \E p, q \in Peers, ok \in BOOLEAN : CountDm(p, q, ok)
    \/ \E p \in Peers : SweepMessages(p)
    \/ \E e \in ether : LoseEnvelope(e)
    \/ \E p, r, q \in Peers : p # r /\ CopyDhtRecord(p, r, q)
    \/ \E p \in Peers : PollRead(p) \/ PollFinish(p)
    \/ Tick

DmSpec == DmInit /\ [][DmNext]_dmVars

-----------------------------------------------------------------------------
(* Properties. *)

\* The counter of a conversation is the number of its unread rows and of the
\* unread rows that the sweep took since they were last read, whatever gossip
\* delivers twice: unless a delivery came between the two statements of
\* mark_read, or mark_read between those of a delivery, or one of them failed;
\* and then the next mark_read that meets no delivery makes it right again.
UnreadAgrees ==
    \A p, q \in Peers :
       \/ q \in storing[p] \cup reading[p] \/ <<p, q>> \in disturbed
       \/ unread[p][q] = Cardinality(UnreadRows(letters[p], q)) + swept[p][q]

\* A dead drop never outlives the 14 days from its sending, however often it
\* is relayed and whichever way it came (deposit_raw clamps, never extends).
DropsEndOnTime ==
    \A p \in Peers : \A d \in drops[p] : d.till <= d.at + MaxDropTtl

=============================================================================
