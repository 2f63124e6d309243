--------------------------- MODULE MessageRequests ---------------------------
(* MessageService of ephemera-message: sealed messages between nodes that    *)
(* each have a database, message requests from senders that the recipient is *)
(* not connected to, and the collection of expired messages.  A call holds   *)
(* the connection to its database throughout.  Envelopes may be lost, late   *)
(* and delivered twice, and the clocks of the nodes differ.                  *)
(*                                                                           *)
(* The node of this repository does not call send_message, receive_message   *)
(* or the collection.  It shares the conversations: messages.send and the    *)
(* ingest of plaintext messages (module DirectMessages) begin theirs with    *)
(* get_or_create_conversation too, and never as a request.                   *)
EXTENDS Integers, FiniteSets

CONSTANTS
    Writers,       \* the identities, one on each node
    Skew,          \* Skew[n]: how far the clock of n is ahead
    Terms,         \* the times to live that callers ask for
    MaxMessageTtl, \* MAX_MESSAGE_TTL_SECS
    MaxLetter,     \* bound: envelopes sent
    LastSecond     \* bound on the clock

ASSUME RequestsAssumption == Skew \in [Writers -> Int] /\ Terms \subseteq Nat

VARIABLES
    second,
    friends,   \* friends[n]: peers with a 'connected' row in connections
    requests,  \* requests[n][q]: status of the request of q to n, or "none"
    threads,   \* threads[n]: rows of conversations: [peer, unread, request]
    inbox,     \* inbox[n]: rows of messages
    sealedMail,\* the envelopes
    admitted,  \* history: admitted[n], the peers n was connected to or accepted
    begun,     \* history: begun[n], the peers whose conversation the node began
    collected  \* history: collected[n], the messages deleted as expired

requestVars ==
    <<second, friends, requests, threads, inbox, sealedMail, admitted, begun, collected>>

Clock(n) == second + Skew[n]

IsConnected(n, q) == q \in friends[n]
IsRequestAccepted(recipient, sender, n) ==
    recipient = n /\ requests[n][sender] = "accepted"

\* get_or_create_conversation: INSERT OR IGNORE.
GetOrCreateConversation(n, q, is_request) ==
    IF \E t \in threads[n] : t.peer = q THEN threads[n]
    ELSE threads[n] \cup {[peer |-> q, unread |-> 0, request |-> is_request]}

Seal(n, q, ttl) ==
    [id |-> Cardinality(sealedMail), from |-> n, to |-> q, expires |-> Clock(n) + ttl]

\* open: the ciphertext, for the key of one recipient, decrypts with its secret.
OpensWith(n, e) == e.to = n

\* Mutant: an envelope counts as expired one second later.
MutIsExpired(n, e) == Clock(n) > e.expires + 1

IsExpired(n, e) == Clock(n) > e.expires

\* send_message.  The row of an accepted request of n is looked up in the
\* database of n, where only requests to n are stored.
SendSealed(n, q, ttl) ==
    LET e == Seal(n, q, ttl) IN
    /\ ttl <= MaxMessageTtl
    /\ IsConnected(n, q) \/ IsRequestAccepted(q, n, n)
    /\ threads' = [threads EXCEPT ![n] = GetOrCreateConversation(n, q, FALSE)]
    /\ inbox' = [inbox EXCEPT ![n] =
           @ \cup {[id |-> e.id, peer |-> q, read |-> TRUE, expires |-> e.expires]}]
    /\ sealedMail' = sealedMail \cup {e}
    /\ UNCHANGED <<second, friends, requests, admitted, begun, collected>>

\* store_message_request: INSERT OR IGNORE.
StoreMessageRequest(n, q) == IF requests[n][q] = "none" THEN "pending" ELSE requests[n][q]

IsRequest(n, q) == ~IsConnected(n, q) /\ ~IsRequestAccepted(n, q, n)

Bumped(rows, q) == {IF t.peer = q THEN [t EXCEPT !.unread = @ + 1] ELSE t : t \in rows}

\* receive_message.  The message is inserted unless its hash is known; the
\* counter is bumped in either case.
ReceiveSealed(n, e) ==
    LET q == e.from
        is_request == IsRequest(n, q)
    IN /\ OpensWith(n, e)
       /\ ~IsExpired(n, e)
       /\ ~(is_request /\ requests[n][q] = "rejected")
       /\ threads' = [threads EXCEPT ![n] =
              Bumped(GetOrCreateConversation(n, q, is_request), q)]
       /\ inbox' = [inbox EXCEPT ![n] =
              IF \E m \in @ : m.id = e.id THEN @
              ELSE @ \cup {[id |-> e.id, peer |-> q, read |-> FALSE, expires |-> e.expires]}]
       /\ requests' = IF is_request
                      THEN [requests EXCEPT ![n][q] = StoreMessageRequest(n, q)]
                      ELSE requests
       /\ UNCHANGED <<second, friends, sealedMail, admitted, begun, collected>>

\* Mutant: the conversation keeps its flag.
MutAcceptRequest(n, q) ==
    /\ requests[n][q] = "pending"
    /\ requests' = [requests EXCEPT ![n][q] = "accepted"]
    /\ admitted' = [admitted EXCEPT ![n] = @ \cup {q}]
    /\ UNCHANGED <<second, friends, threads, inbox, sealedMail, begun, collected>>

AcceptRequest(n, q) ==
    /\ requests[n][q] = "pending"
    /\ requests' = [requests EXCEPT ![n][q] = "accepted"]
    /\ threads' = [threads EXCEPT ![n] =
           {IF t.peer = q THEN [t EXCEPT !.request = FALSE] ELSE t : t \in @}]
    /\ admitted' = [admitted EXCEPT ![n] = @ \cup {q}]
    /\ UNCHANGED <<second, friends, inbox, sealedMail, begun, collected>>

RejectRequest(n, q) ==
    /\ requests[n][q] = "pending"
    /\ requests' = [requests EXCEPT ![n][q] = "rejected"]
    /\ UNCHANGED <<second, friends, threads, inbox, sealedMail, admitted, begun, collected>>

\* The conversations that keep a message.
StillUsed(n, kept) == {t \in threads[n] : \E m \in kept : m.peer = t.peer}

GcExpiredMessages(n) ==
    LET kept == {m \in inbox[n] : ~(m.expires < Clock(n))} IN
    /\ inbox' = [inbox EXCEPT ![n] = kept]
    /\ threads' = [threads EXCEPT ![n] = StillUsed(n, kept)]
    /\ collected' = [collected EXCEPT ![n] =
           @ \cup {m.id : m \in inbox[n] \ kept}]
    /\ UNCHANGED <<second, friends, requests, sealedMail, admitted, begun>>

\* get_or_create_conversation as the node calls it, for any peer.  The row of
\* the message and its count are those of DirectMessages.
BeginConversation(n, q) ==
    /\ \A t \in threads[n] : t.peer # q
    /\ threads' = [threads EXCEPT ![n] = GetOrCreateConversation(n, q, FALSE)]
    /\ begun' = [begun EXCEPT ![n] = @ \cup {q}]
    /\ UNCHANGED <<second, friends, requests, inbox, sealedMail, admitted, collected>>

\* The rows of connections: accept, and reject or remove.
Befriend(n, q) ==
    /\ q \notin friends[n]
    /\ friends' = [friends EXCEPT ![n] = @ \cup {q}]
    /\ admitted' = [admitted EXCEPT ![n] = @ \cup {q}]
    /\ UNCHANGED <<second, requests, threads, inbox, sealedMail, begun, collected>>

Unfriend(n, q) ==
    /\ q \in friends[n]
    /\ friends' = [friends EXCEPT ![n] = @ \ {q}]
    /\ UNCHANGED <<second, requests, threads, inbox, sealedMail, admitted, begun, collected>>

SecondPasses ==
    /\ second < LastSecond
    /\ second' = second + 1
    /\ UNCHANGED <<friends, requests, threads, inbox, sealedMail, admitted, begun, collected>>

RequestsInit ==
    /\ second = 0
    /\ friends = [n \in Writers |-> {}]
    /\ requests = [n \in Writers |-> [q \in Writers |-> "none"]]
    /\ threads = [n \in Writers |-> {}]
    /\ inbox = [n \in Writers |-> {}]
    /\ sealedMail = {}
    /\ admitted = [n \in Writers |-> {}]
    /\ begun = [n \in Writers |-> {}]
    /\ collected = [n \in Writers |-> {}]

RequestsNext ==
    \/ \E n \in Writers : \E q \in Writers \ {n} :
         \/ AcceptRequest(n, q) \/ RejectRequest(n, q)
         \/ Befriend(n, q) \/ Unfriend(n, q) \/ BeginConversation(n, q)
         \/ Cardinality(sealedMail) < MaxLetter /\ \E ttl \in Terms : SendSealed(n, q, ttl)
    \/ \E n \in Writers :
         \/ \E e \in sealedMail :
              /\ \A t \in threads[n] : t.unread < MaxLetter
              /\ ReceiveSealed(n, e)
         \/ GcExpiredMessages(n)
    \/ SecondPasses

RequestsSpec == RequestsInit /\ [][RequestsNext]_requestVars

------------------------------------------------------------------------------
\* A message that gc_expired_messages deleted does not come back with a second
\* copy of its envelope: the boundary of is_expired (sealed.rs:132) is the one
\* of the collection (service_extra.rs:141), on the same clock.
CollectedStaysGone ==
    \A n \in Writers : \A m \in inbox[n] : m.id \notin collected[n]

\* MessageService shows in the main inbox conversations with people the user was
\* connected to or accepted, and an accepted request leaves no conversation
\* among the requests, also when the conversation was collected and begun again.
\* Strangers reach the main inbox only by a conversation that the node's own
\* message path began, for whom no connection is asked.
InboxIsAdmitted ==
    \A n \in Writers : \A t \in threads[n] :
        /\ t.request \/ t.peer \in admitted[n] \cup begun[n]
        /\ requests[n][t.peer] = "accepted" => ~t.request

\* Every stored message has its conversation, and the unread counter never
\* falls below the number of unread messages, through duplicates, requests
\* and collections.
UnreadCovered ==
    \A n \in Writers : \A m \in inbox[n] : \E t \in threads[n] :
        /\ t.peer = m.peer
        /\ t.unread >= Cardinality({k \in inbox[n] : k.peer = m.peer /\ ~k.read})
==============================================================================
