--------------------------------- MODULE Dht ---------------------------------
(***************************************************************************)
(* Finding profiles: each node's table of DHT records, the queries and     *)
(* responses on the dht_lookup topic, and the profiles table that lookups  *)
(* fill. The key of a profile is its owner. Nothing is pushed: a record    *)
(* starts in its owner's own table and spreads with the responses, which   *)
(* every node caches under its own signature: none is checked. Handles and *)
(* prekeys go through the same operations, and a client may put any value  *)
(* under any key. A profile is a value for each field, 0 where the code    *)
(* has null.                                                               *)
(***************************************************************************)
EXTENDS Integers, FiniteSets

CONSTANTS
    Hosts,       \* the nodes; each is the key of its own profile
    Owners,      \* bound: the nodes that have a profile
    Elder,       \* an owner that wrote a field in an earlier session,
    Written,     \* which field that was,
    Fields,      \* of display_name and bio
    RecordTtl,   \* MAX_TTL_SECONDS
    MaxRecords,  \* DhtConfig::max_records
    MaxUpdates, MaxQueries, MaxDhtFaults, MaxDhtTime \* bounds

ASSUME DhtAssumption ==
    /\ Owners \subseteq Hosts /\ Elder \in Owners /\ Written \in Fields
    /\ RecordTtl \in Nat /\ MaxRecords \in Nat
    /\ MaxUpdates \in Nat /\ MaxQueries \in Nat

VARIABLES
    dhtTime,
    session,  \* "off": not unlocked since the start; "locked"; "open"
    profiles, \* profiles[n][k]: the profile of k in the database of n
    table,    \* table[n][k]: the DHT record of k at n
    asked,    \* pending_dht_queries of all nodes: the query ids
    calls,    \* calls[q]: the caller of query q
    letters,  \* dht_query and dht_response messages, each with one recipient
    held,     \* held[n]: what republish_own_records has read of the own row
    edits,    \* updates whose row is written and whose record is not
    written,  \* history: written[k][f], the values k gave its field
    planted,  \* history: planted[k], the values that dht.put stored for k
    updates, dhtFaults

dhtVars == <<dhtTime, session, profiles, table, asked, calls, letters, held, edits,
             written, planted, updates, dhtFaults>>

claims == <<written, planted, updates>>

Blank == [f \in Fields |-> 0]
NoRecord == [value |-> Blank, till |-> -1]
Idle == [state |-> "idle"]
Done == [state |-> "done"]
NotRead == [read |-> FALSE]
Queries == 1..MaxQueries

\* The nodes have just been unlocked, which publishes the profile they have.
\* Their databases know what was looked up in an earlier session.
DhtInit ==
    LET first == [Blank EXCEPT ![Written] = 1] IN
    /\ dhtTime = 0
    /\ session = [n \in Hosts |-> "open"]
    /\ profiles = [n \in Hosts |-> [k \in Owners |-> IF k = Elder THEN first ELSE Blank]]
    /\ table = [n \in Hosts |-> [k \in Owners |->
                  IF n = Elder /\ k = Elder THEN [value |-> first, till |-> RecordTtl]
                                            ELSE NoRecord]]
    /\ asked = {} /\ letters = {}
    /\ calls = [q \in Queries |-> Idle]
    /\ held = [n \in Hosts |-> NotRead]
    /\ edits = {} /\ planted = [k \in Owners |-> {}]
    /\ written = [k \in Owners |-> [f \in Fields |->
                    IF k = Elder /\ f = Written THEN {1} ELSE {}]]
    /\ updates = 1 /\ dhtFaults = 0

\* Mutant: the parameters of the statement in the wrong order.
CoalesceSwapped(new, old) ==
    [f \in Fields |-> LET g == CHOOSE x \in Fields : x # f IN
                      IF new[g] # 0 THEN new[g] ELSE old[f]]

\* COALESCE(?2, display_name), COALESCE(?3, bio)
Coalesce(new, old) == [f \in Fields |-> IF new[f] # 0 THEN new[f] ELSE old[f]]

\* DhtStorage::get
Live(n, k) == table[n][k] # NoRecord /\ table[n][k].till >= dhtTime

\* DhtNodeService::put, with a key to sign with: a new record needs room.
Put(n, k, value) ==
    LET room == \/ table[n][k] # NoRecord
                \/ Cardinality({j \in Owners : table[n][j] # NoRecord}) < MaxRecords
    IN IF room
       THEN [table EXCEPT ![n][k] = [value |-> value, till |-> dhtTime + RecordTtl]]
       ELSE table

\* Gossip on the topic, to every node whose network is started.
ToEveryone(msg) == {[msg |-> msg, to |-> n] : n \in {h \in Hosts : session[h] # "off"}}

\* ProfileService::update of some fields, at least one: the row keeps the others ...
UpdateProfile(k, F) ==
    LET new == [f \in Fields |-> IF f \in F THEN updates + 1 ELSE 0] IN
    /\ session[k] = "open" /\ updates < MaxUpdates
    /\ updates' = updates + 1
    /\ profiles' = [profiles EXCEPT ![k][k] = Coalesce(new, @)]
    /\ written' = [written EXCEPT ![k] = [f \in Fields |->
                     IF f \in F THEN @[f] \cup {updates'} ELSE @[f]]]
    /\ edits' = edits \cup {[by |-> k, value |-> new]}
    /\ UNCHANGED <<dhtTime, session, table, asked, calls, letters, held, planted, dhtFaults>>

\* ... and update_and_publish stores a record that has null for them, unless the
\* identity has been locked meanwhile.
PublishEdit(d) ==
    /\ edits' = edits \ {d}
    /\ table' = IF session[d.by] = "open" THEN Put(d.by, d.by, d.value) ELSE table
    /\ UNCHANGED <<dhtTime, session, profiles, asked, calls, letters, held, claims, dhtFaults>>

\* dht.put of a client: any key, its owner's or not, with the default ttl.
DhtPut(n, k) ==
    /\ session[n] = "open" /\ updates < MaxUpdates
    /\ dhtFaults < MaxDhtFaults /\ dhtFaults' = dhtFaults + 1
    /\ updates' = updates + 1
    /\ planted' = [planted EXCEPT ![k] = @ \cup {updates'}]
    /\ table' = Put(n, k, [f \in Fields |-> updates + 1])
    /\ UNCHANGED <<dhtTime, session, profiles, asked, calls, letters, held, edits, written>>

\* republish_own_records: the row is read under the database's lock ...
ReadOwnRow(k) ==
    /\ session[k] = "open" /\ ~held[k].read /\ profiles[k][k] # Blank
    /\ held' = [held EXCEPT ![k] = [read |-> TRUE, value |-> profiles[k][k]]]
    /\ UNCHANGED <<dhtTime, session, profiles, table, asked, calls, letters, edits, claims,
                   dhtFaults>>

\* Mutant: a record that is already there is left alone.
RepublishMissing(k) ==
    /\ held[k].read
    /\ table' = IF session[k] = "open" /\ ~Live(k, k) THEN Put(k, k, held[k].value) ELSE table
    /\ held' = [held EXCEPT ![k] = NotRead]
    /\ UNCHANGED <<dhtTime, session, profiles, asked, calls, letters, edits, claims,
                   dhtFaults>>

\* ... and stored after that, unless the identity has been locked meanwhile.
Republish(k) ==
    /\ held[k].read
    /\ table' = IF session[k] = "open" THEN Put(k, k, held[k].value) ELSE table
    /\ held' = [held EXCEPT ![k] = NotRead]
    /\ UNCHANGED <<dhtTime, session, profiles, asked, calls, letters, edits, claims,
                   dhtFaults>>

\* identity.unlock publishes the row; identity.auto_unlock does not.
UnlockNode(n, publish) ==
    /\ session[n] # "open"
    /\ session' = [session EXCEPT ![n] = "open"]
    /\ table' = IF publish /\ n \in Owners /\ profiles[n][n] # Blank
                THEN Put(n, n, profiles[n][n]) ELSE table
    /\ UNCHANGED <<dhtTime, profiles, asked, calls, letters, held, edits, claims,
                   dhtFaults>>

LockNode(n) ==
    /\ dhtFaults < MaxDhtFaults /\ dhtFaults' = dhtFaults + 1
    /\ session[n] = "open"
    /\ session' = [session EXCEPT ![n] = "locked"]
    /\ UNCHANGED <<dhtTime, profiles, table, asked, calls, letters, held, edits, claims>>

\* query_network_dht_inner up to the wait. A query that need not be fresh and
\* finds the key at home, or a node without network, returns at once.
AskNetwork(n, k, fresh) ==
    /\ session[n] # "off" /\ (fresh \/ ~Live(n, k))
    /\ \E q \in Queries :
          /\ calls[q] = Idle /\ \A p \in 1..(q - 1) : calls[p] # Idle
          /\ asked' = asked \cup {q}
          /\ calls' = [calls EXCEPT ![q] =
                [state |-> "waiting", by |-> n, key |-> k, fresh |-> fresh, value |-> Blank]]
          /\ letters' = letters \cup
                ToEveryone([kind |-> "query", id |-> q, key |-> k, by |-> n])
    /\ UNCHANGED <<dhtTime, session, profiles, table, held, edits, claims, dhtFaults>>

\* handle_query: answered from the own table, by everybody but the requester.
HandleQuery(e) ==
    /\ letters' = (letters \ {e}) \cup
          (IF e.msg.by # e.to /\ Live(e.to, e.msg.key)
           THEN ToEveryone([kind |-> "response", id |-> e.msg.id, key |-> e.msg.key,
                             by |-> e.to, value |-> table[e.to][e.msg.key].value])
           ELSE {})
    /\ UNCHANGED <<table, asked, calls>>

\* handle_response: cached, for a full term, by every node, whoever wrote it;
\* who asked is woken if it still waits.
HandleResponse(e) ==
    LET q == e.msg.id IN
    /\ letters' = letters \ {e}
    /\ table' = IF session[e.to] = "open" THEN Put(e.to, e.msg.key, e.msg.value) ELSE table
    /\ IF q \in asked /\ calls[q].by = e.to
       THEN /\ asked' = asked \ {q}
            /\ calls' = IF calls[q].state = "waiting"
                        THEN [calls EXCEPT ![q].state = "answered", ![q].value = e.msg.value]
                        ELSE calls
       ELSE UNCHANGED <<asked, calls>>

\* dht_query_ingest_loop_services
Ingest(e) ==
    /\ e \in letters
    /\ \/ e.msg.kind = "query" /\ HandleQuery(e)
       \/ e.msg.kind = "response" /\ HandleResponse(e)
    /\ UNCHANGED <<dhtTime, session, profiles, held, edits, claims, dhtFaults>>

\* store_profile_from_dht, fetch_and_store_remote_profile
StoreProfile(n, k, value) ==
    profiles' = IF value = Blank THEN profiles ELSE [profiles EXCEPT ![n][k] = Coalesce(value, @)]

\* The caller goes on with the answer; get_with_network_dht stores it.
Return(q) ==
    /\ calls[q].state = "answered"
    /\ calls' = [calls EXCEPT ![q] = Done]
    /\ IF calls[q].fresh THEN StoreProfile(calls[q].by, calls[q].key, calls[q].value)
                         ELSE UNCHANGED profiles
    /\ UNCHANGED <<dhtTime, session, table, asked, letters, held, edits, claims,
                   dhtFaults>>

\* DHT_QUERY_TIMEOUT, after which the caller takes its entry away: an answer may
\* have come in between.
TimeOut(q) ==
    /\ calls[q].state = "waiting"
    /\ calls' = [calls EXCEPT ![q].state = "late"]
    /\ UNCHANGED <<dhtTime, session, profiles, table, asked, letters, held, edits, claims,
                   dhtFaults>>

ForgetQuery(q) ==
    /\ calls[q].state = "late"
    /\ calls' = [calls EXCEPT ![q] = Done]
    /\ asked' = asked \ {q}
    /\ UNCHANGED <<dhtTime, session, profiles, table, letters, held, edits, claims,
                   dhtFaults>>

\* The call is dropped at its await, and its entry stays.
DropCall(q) ==
    /\ dhtFaults < MaxDhtFaults /\ dhtFaults' = dhtFaults + 1
    /\ calls[q].state \in {"waiting", "answered"}
    /\ calls' = [calls EXCEPT ![q].state = "dropped"]
    /\ UNCHANGED <<dhtTime, session, profiles, table, asked, letters, held, edits, claims>>

\* profile_refresh_loop, and connection requests and acceptances: the profile
\* of a contact is copied from the node's own table.
RefreshProfile(n, k) ==
    /\ n # k /\ session[n] = "open" /\ Live(n, k)
    /\ StoreProfile(n, k, table[n][k].value)
    /\ UNCHANGED <<dhtTime, session, table, asked, calls, letters, held, edits, claims,
                   dhtFaults>>

\* DhtStorage::sweep_expired
SweepExpired(n) ==
    /\ table' = [table EXCEPT ![n] = [k \in Owners |-> IF Live(n, k) THEN @[k] ELSE NoRecord]]
    /\ UNCHANGED <<dhtTime, session, profiles, asked, calls, letters, held, edits, claims,
                   dhtFaults>>

DhtTick ==
    /\ dhtTime < MaxDhtTime /\ dhtTime' = dhtTime + 1
    /\ UNCHANGED <<session, profiles, table, asked, calls, letters, held, edits, claims,
                   dhtFaults>>

LoseLetter(e) ==
    /\ dhtFaults < MaxDhtFaults /\ dhtFaults' = dhtFaults + 1
    /\ e \in letters /\ letters' = letters \ {e}
    /\ UNCHANGED <<dhtTime, session, profiles, table, asked, calls, held, edits, claims>>

\* Only the database outlives the process.
RestartHost(n) ==
    LET own == {q \in Queries : calls[q] \notin {Idle, Done} /\ calls[q].by = n} IN
    /\ dhtFaults < MaxDhtFaults /\ dhtFaults' = dhtFaults + 1
    /\ session' = [session EXCEPT ![n] = "off"]
    /\ table' = [table EXCEPT ![n] = [k \in Owners |-> NoRecord]]
    /\ asked' = asked \ own
    /\ calls' = [q \in Queries |-> IF q \in own THEN Done ELSE calls[q]]
    /\ letters' = {e \in letters : e.to # n}
    /\ held' = [held EXCEPT ![n] = NotRead]
    /\ edits' = {d \in edits : d.by # n}
    /\ UNCHANGED <<dhtTime, profiles, claims>>

DhtNext ==
    \/ DhtTick
    \/ \E k \in Owners :
          \/ Republish(k) \/ ReadOwnRow(k)
          \/ \E F \in SUBSET Fields \ {{}} : UpdateProfile(k, F)
    \/ \E n \in Hosts :
          \/ LockNode(n) \/ SweepExpired(n) \/ RestartHost(n)
          \/ \E p \in BOOLEAN : UnlockNode(n, p)
          \/ \E k \in Owners : \/ RefreshProfile(n, k) \/ DhtPut(n, k)
                              \/ \E f \in BOOLEAN : AskNetwork(n, k, f)
    \/ \E e \in letters : Ingest(e) \/ LoseLetter(e)
    \/ \E d \in edits : PublishEdit(d)
    \/ \E q \in Queries : Return(q) \/ TimeOut(q) \/ ForgetQuery(q) \/ DropCall(q)

DhtSpec == DhtInit /\ [][DhtNext]_dhtVars

-----------------------------------------------------------------------------
(* Properties. *)

\* Whatever a node knows of a profile, in its database, its DHT table or as the
\* answer to a query, field by field, is something that was once put there: by
\* its owner in an update of that field, or with dht.put under that key. Caches,
\* queries under way and COALESCE never mix keys or fields.
Genuine(k, value) ==
    \A f \in Fields : value[f] = 0 \/ value[f] \in written[k][f] \cup planted[k]
ProfilesGenuine ==
    /\ \A n \in Hosts, k \in Owners : Genuine(k, profiles[n][k]) /\ Genuine(k, table[n][k].value)
    /\ \A q \in Queries : calls[q] \in {Idle, Done} \/ Genuine(calls[q].key, calls[q].value)

\* What a node takes from a response was written by the owner of its key, as a
\* verified signature would show ("signature verification is enforced on *inbound*
\* records from the network", services/dht.rs:50).
InboundVerified ==
    [][\A e \in letters \ letters' : \A f \in Fields :
          LET k == e.msg.key IN
          (e.msg.kind = "response" /\ table'[e.to][k] # table[e.to][k]) =>
             table'[e.to][k].value[f] \in written[k][f] \cup {0}]_dhtVars

\* A caller that waits can be woken, and an entry of pending_dht_queries stands for
\* one that waits, is about to take it away or was dropped at its await: late and
\* repeated responses, timeouts and restarts leave no other entry behind and take
\* none away too early.
PendingIsWaiting ==
    /\ \A q \in Queries : calls[q].state = "waiting" => q \in asked
    /\ \A q \in asked : calls[q].state \in {"waiting", "late", "dropped"}

\* A field of a profile that a node knows is never lost again, although
\* records carry null for the fields that an update left alone.
FieldsKept ==
    [][\A n \in Hosts, k \in Owners, f \in Fields :
          profiles[n][k][f] # 0 => profiles'[n][k][f] # 0]_dhtVars

\* Republishing wins: stale responses overwrite the owner's record, partial
\* updates hollow it out and restarts lose it, but once updates and queries
\* are over it is what the owner's row says, if there was room for it.
Current(k) ==
    \/ profiles[k][k] = Blank
    \/ table[k][k].value = profiles[k][k]
    \/ table[k][k] = NoRecord /\ Cardinality({j \in Owners : Live(k, j)}) >= MaxRecords
OwnRecordCurrent == <>[](\A k \in Owners : Current(k))
=============================================================================
