------------------------------ MODULE Contacts ------------------------------
(***************************************************************************)
(* Connections between people on different nodes. Every node has its own   *)
(* table: row[a][b] is the status of b in the table of a. Requests and     *)
(* acceptances travel as envelopes over gossip and may be lost; rejections,*)
(* cancellations, disconnections and blocks stay local. The copy of the    *)
(* request put in the DHT is not an envelope, so that the poll of the      *)
(* mailbox does not read it (retrieve_dht_dead_drops returns early).       *)
(***************************************************************************)
EXTENDS Integers

CONSTANT People

VARIABLES
    row,     \* row[a][b]: "none", "out" (pending_outgoing), "in", "conn"
    blocked, \* <<a, b>>: a has blocked b
    mail,    \* envelopes on their way: <<kind, from, to>>
    resending, \* <<a, b>>: resend_request of a has deleted the row and not asked again
    want,    \* history: <<a, b>>: the last thing a did about b was to ask or accept
    orderly  \* history: people only asked, and accepted what they were shown

contactVars == <<row, blocked, mail, resending, want, orderly>>

Pairs == {p \in People \X People : p[1] # p[2]}

ContactsInit ==
    /\ row = [a \in People |-> [b \in People |-> "none"]]
    /\ blocked = {} /\ mail = {} /\ resending = {} /\ want = {}
    /\ orderly = TRUE

\* ConnectionService::request refuses when there is a row.
StoreRequest(a, b) ==
    /\ row[a][b] = "none"
    /\ row' = [row EXCEPT ![a][b] = "out"]
    /\ want' = want \cup {<<a, b>>}

\* ConnectionService::accept updates whatever row there is. The row of the
\* other direction is in another node's table.
StoreAccept(a, b) ==
    /\ row' = IF row[a][b] = "none" THEN row ELSE [row EXCEPT ![a][b] = "conn"]
    /\ want' = want \cup {<<a, b>>}

\* ConnectionService::reject and remove delete the row.
StoreDelete(a, b) ==
    /\ row' = [row EXCEPT ![a][b] = "none"]
    /\ want' = want \ {<<a, b>>}
    /\ orderly' = FALSE

\* SocialService::connect
Connect(a, b) ==
    /\ StoreRequest(a, b)
    /\ mail' = mail \cup {<<"request", a, b>>}
    /\ UNCHANGED <<blocked, orderly, resending>>

\* SocialService::follow is a connection request that is not sent.
Follow(a, b) ==
    /\ StoreRequest(a, b)
    /\ UNCHANGED <<blocked, mail, orderly, resending>>

\* Mutant: the requester is not told.
AcceptContactSilently(a, b) ==
    /\ StoreAccept(a, b)
    /\ orderly' = (orderly /\ row[a][b] = "in")
    /\ UNCHANGED <<blocked, mail, resending>>

\* SocialService::accept
AcceptContact(a, b) ==
    /\ StoreAccept(a, b)
    /\ mail' = mail \cup {<<"accepted", a, b>>}
    /\ orderly' = (orderly /\ row[a][b] = "in")
    /\ UNCHANGED <<blocked, resending>>

\* SocialService::reject, cancel_request and disconnect
Drop(a, b) ==
    /\ StoreDelete(a, b)
    /\ UNCHANGED <<blocked, mail, resending>>

\* SocialService::resend_request: the row is deleted ...
ResendDelete(a, b) ==
    /\ StoreDelete(a, b)
    /\ resending' = resending \cup {<<a, b>>}
    /\ UNCHANGED <<blocked, mail>>

\* ... and connect is called, which fails when there is a row again.
ResendRequest(a, b) ==
    /\ <<a, b>> \in resending /\ resending' = resending \ {<<a, b>>}
    /\ \/ StoreRequest(a, b) /\ mail' = mail \cup {<<"request", a, b>>}
       \/ row[a][b] # "none" /\ UNCHANGED <<row, want, mail>>
    /\ UNCHANGED <<blocked, orderly>>

Block(a, b) ==
    /\ blocked' = blocked \cup {<<a, b>>}
    /\ StoreDelete(a, b)
    /\ UNCHANGED <<mail, resending>>

Unblock(a, b) ==
    /\ blocked' = blocked \ {<<a, b>>}
    /\ UNCHANGED <<row, mail, want, orderly, resending>>

\* message_ingest_loop, connection_request: INSERT OR IGNORE.
IngestRequest(a, b) ==
    /\ <<"request", b, a>> \in mail
    /\ mail' = mail \ {<<"request", b, a>>}
    /\ row' = IF row[a][b] = "none" THEN [row EXCEPT ![a][b] = "in"] ELSE row
    /\ UNCHANGED <<blocked, want, orderly, resending>>

\* message_ingest_loop, connection_accepted: only a pending_outgoing row changes.
IngestAccepted(a, b) ==
    /\ <<"accepted", b, a>> \in mail
    /\ mail' = mail \ {<<"accepted", b, a>>}
    /\ row' = IF row[a][b] = "out" THEN [row EXCEPT ![a][b] = "conn"] ELSE row
    /\ UNCHANGED <<blocked, want, orderly, resending>>

LoseMail(e) ==
    /\ e \in mail
    /\ mail' = mail \ {e}
    /\ orderly' = FALSE
    /\ UNCHANGED <<row, blocked, want, resending>>

\* social.*: reject, disconnect, cancel_request and unfollow all drop the row. The
\* notification that accept stores is not part of the connections.
SocialApi(a, b) ==
    \/ Connect(a, b) \/ Follow(a, b)
    \/ AcceptContact(a, b) \/ Drop(a, b)
    \/ ResendDelete(a, b) \/ ResendRequest(a, b)

ContactsNext ==
    \/ \E p \in Pairs :
          \/ SocialApi(p[1], p[2])
          \/ Block(p[1], p[2]) \/ Unblock(p[1], p[2])
          \/ IngestRequest(p[1], p[2]) \/ IngestAccepted(p[1], p[2])
    \/ \E e \in mail : LoseMail(e)

ContactsSpec == ContactsInit /\ [][ContactsNext]_contactVars

-----------------------------------------------------------------------------
(* Properties. *)

ContactsTypeOK ==
    /\ row \in [People -> [People -> {"none", "out", "in", "conn"}]]
    /\ blocked \subseteq People \X People
    /\ mail \subseteq {"request", "accepted"} \X People \X People
    /\ resending \subseteq Pairs
    /\ want \subseteq People \X People
    /\ orderly \in BOOLEAN

\* "Consent-required", on the local side: whatever is still in flight from
\* before a cancellation, a rejection or a block, nobody is connected to a
\* person whom they last turned down.
LocalConsent ==
    \A p \in Pairs : row[p[1]][p[2]] = "conn" => p \in want

\* A request that arrives late or twice never turns a connection back into
\* a pending one (INSERT OR IGNORE in message_ingest_loop).
NotDowngraded ==
    [][\A p \in Pairs : row[p[1]][p[2]] = "conn" => row'[p[1]][p[2]] # "in"]_contactVars

\* As long as people only ask, and accept what they were shown, and nothing
\* is lost, a handshake that has come to rest is mutual, crossing requests
\* included.
OrderlyIsMutual ==
    (orderly /\ mail = {}) =>
       \A p \in Pairs : row[p[1]][p[2]] = "conn" => row[p[2]][p[1]] = "conn"

=============================================================================
