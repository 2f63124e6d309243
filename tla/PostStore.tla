----------------------------- MODULE PostStore -----------------------------
(***************************************************************************)
(* The life of posts at one node: the rows of the SQLite table `posts`,    *)
(* the blobs of the content store, and the five activities that write      *)
(* them, each through its own database connection and so interleaved at    *)
(* the granularity of one SQL statement or one file operation:             *)
(*   - PostService::create(_and_publish), the local author                 *)
(*   - PostService::delete(_and_propagate), the local delete               *)
(*   - gossip_ingest_loop, posts arriving from peers                       *)
(*   - moderation_ingest_loop, tombstones arriving from peers              *)
(*   - GarbageCollector::sweep, run by gc_loop                             *)
(* create, delete and the sweep share services.metadata_db, whose mutex    *)
(* the sweep holds from its first to its last statement.                   *)
(* Phases 3 and 4 of the sweep join with the table epoch_keys, into which  *)
(* no code of the repository inserts a row: they change nothing here.      *)
(***************************************************************************)
EXTENDS Integers, FiniteSets

CONSTANTS
    Local,        \* posts this node authors
    Remote,       \* posts authored by other nodes
    Ttl,          \* Ttl[p]: the signed time-to-live of p
    Skew,         \* CLOCK_SKEW_TOLERANCE
    Batch,        \* GcConfig::batch_size
    None,         \* no post
    AuthorClocks, \* values a remote author's clock may show
    MaxTime,      \* bound: the clock stops here
    Stall,        \* bound: longest pause between two steps of a handler
    MaxCrashes,   \* bound: restarts of the node
    MaxFaults     \* bound: I/O and database errors

Posts == Local \cup Remote

ASSUME ConstantsAssumption ==
    /\ Local \cap Remote = {}
    /\ None \notin Posts
    /\ Ttl \in [Posts -> Nat]
    /\ Skew \in Nat
    /\ Stall \in Nat
    /\ Batch \in Nat \ {0}
    /\ AuthorClocks \subseteq Nat
    /\ MaxTime \in Nat
    /\ MaxCrashes \in Nat
    /\ MaxFaults \in Nat

\* MIN_TTL_SECS is 3600, CLOCK_SKEW_TOLERANCE 300 and SQLite's busy_timeout,
\* the longest wait a handler is meant to meet, 5 seconds.
ASSUME TtlAssumption ==
    \A p \in Posts : Skew + Stall <= Ttl[p]

VARIABLES
    now,        \* this node's wall clock
    created,    \* created[p]: the signed created_at
    published,  \* posts on the public feed topic
    tombMsgs,   \* posts with a tombstone on the moderation topic
    status,     \* the row of p: absent, live (is_tombstone = 0) or tombstone
    expires,    \* the row's expires_at
    tombAt,     \* the row's tombstone_at
    blobs,      \* posts whose blob is in the content store
    creating,   \* program counter of create_and_publish
    ingest,     \* gossip_ingest_loop between put and INSERT
    moderating, \* moderation_ingest_loop between its delete and its UPDATE
    gc,         \* the running sweep
    crashes, faults,
    everTomb    \* history: posts that had a tombstone row at this node

network == <<published, tombMsgs>>
rows    == <<status, expires, tombAt>>
bounds  == <<crashes, faults>>
vars    == <<now, created, network, rows, blobs, creating, ingest,
             moderating, gc, bounds, everTomb>>

NoCreate == [post |-> None, pc |-> "idle"]
NoOp     == [post |-> None, at |-> 0]
NoSweep  == [pc |-> "idle", at |-> 0, batch |-> {}, todo |-> {}]

Init ==
    /\ now = 0
    /\ created = [p \in Posts |-> 0]
    /\ published = {} /\ tombMsgs = {}
    /\ status = [p \in Posts |-> "absent"]
    /\ expires = [p \in Posts |-> 0]
    /\ tombAt = [p \in Posts |-> 0]
    /\ blobs = {}
    /\ creating = NoCreate /\ ingest = NoOp /\ moderating = NoOp /\ gc = NoSweep
    /\ crashes = 0 /\ faults = 0
    /\ everTomb = {}

-----------------------------------------------------------------------------
(* The environment: time and the other nodes. *)

\* A handler that runs between two statements is never paused for longer
\* than Stall.
Paused(op) == op.post # None /\ now >= op.at + Stall

Tick ==
    /\ now < MaxTime
    /\ ~Paused(ingest) /\ ~Paused(moderating)
    /\ now' = now + 1
    /\ UNCHANGED <<created, network, rows, blobs, creating, ingest,
                   moderating, gc, bounds, everTomb>>

\* Another node publishes a post dated by a clock of its own.
RemotePublish(p) ==
    /\ p \in Remote \ published
    /\ published' = published \cup {p}
    /\ \E t \in AuthorClocks : created' = [created EXCEPT ![p] = t]
    /\ UNCHANGED <<now, tombMsgs, rows, blobs, creating, ingest, moderating,
                   gc, bounds, everTomb>>

\* Another node deletes a post and publishes the tombstone.
RemoteDelete(p) ==
    /\ p \in published \ tombMsgs
    /\ tombMsgs' = tombMsgs \cup {p}
    /\ UNCHANGED <<now, created, published, rows, blobs, creating, ingest,
                   moderating, gc, bounds, everTomb>>

-----------------------------------------------------------------------------
(* PostService. *)

\* The mutex of services.metadata_db is free.
DbFree == gc.pc = "idle"

\* create: a post with a fresh content hash is signed and its blob stored.
CreatePut(p) ==
    /\ p \in Local
    /\ creating.pc = "idle"
    /\ status[p] = "absent" /\ p \notin blobs \cup published \cup everTomb
    /\ created' = [created EXCEPT ![p] = now]
    /\ blobs' = blobs \cup {p}
    /\ creating' = [post |-> p, pc |-> "insert"]
    /\ UNCHANGED <<now, network, rows, ingest, moderating, gc, bounds,
                   everTomb>>

\* create: the row expires Ttl after a second reading of the clock, taken
\* some time between the signing and the INSERT.
CreateInsert ==
    /\ creating.pc = "insert"
    /\ DbFree
    /\ LET p == creating.post IN
         /\ status' = [status EXCEPT ![p] = "live"]
         /\ \E t \in created[p] .. now :
              expires' = [expires EXCEPT ![p] = t + Ttl[p]]
    /\ creating' = [creating EXCEPT !.pc = "publish"]
    /\ UNCHANGED <<now, created, network, tombAt, blobs, ingest, moderating,
                   gc, bounds, everTomb>>

\* create_and_publish: reads the blob back; a failed publish is only logged.
CreatePublish ==
    /\ creating.pc = "publish"
    /\ \/ /\ creating.post \in blobs
          /\ published' = published \cup {creating.post}
       \/ UNCHANGED published
    /\ creating' = NoCreate
    /\ UNCHANGED <<now, created, tombMsgs, rows, blobs, ingest, moderating,
                   gc, bounds, everTomb>>

\* delete: UPDATE ... WHERE content_hash = p, whatever the row's state, dated
\* by a clock read before waiting for the mutex. delete_and_propagate then
\* publishes the tombstone if it can.
Delete(p) ==
    /\ DbFree
    /\ status[p] # "absent"
    /\ status' = [status EXCEPT ![p] = "tombstone"]
    /\ \E lag \in 0 .. Stall :
         /\ lag <= now
         /\ tombAt' = [tombAt EXCEPT ![p] = now - lag]
    /\ everTomb' = everTomb \cup {p}
    /\ tombMsgs' \in {tombMsgs, tombMsgs \cup {p}}
    /\ UNCHANGED <<now, created, published, expires, blobs, creating, ingest,
                   moderating, gc, bounds>>

-----------------------------------------------------------------------------
(* gossip_ingest_loop. *)

\* validate_not_expired and validate_not_future.
NotExpired(p) == ~(created[p] + Ttl[p] + Skew < now)
NotFuture(p)  == ~(created[p] > now + Skew)

\* A message of the feed topic is taken (late and repeated deliveries
\* included), validated, and its blob stored unless it is already there.
IngestPut(p) ==
    /\ ingest.post = None
    /\ p \in published
    /\ NotExpired(p) /\ NotFuture(p)
    /\ blobs' = blobs \cup {p}
    /\ ingest' = [post |-> p, at |-> now]
    /\ UNCHANGED <<now, created, network, rows, creating, moderating, gc,
                   bounds, everTomb>>

\* INSERT OR IGNORE.
IngestInsert ==
    /\ ingest.post # None
    /\ LET p == ingest.post IN
         IF status[p] = "absent"
         THEN /\ status' = [status EXCEPT ![p] = "live"]
              /\ expires' = [expires EXCEPT ![p] = created[p] + Ttl[p]]
         ELSE UNCHANGED <<status, expires>>
    /\ ingest' = NoOp
    /\ UNCHANGED <<now, created, network, tombAt, blobs, creating, moderating,
                   gc, bounds, everTomb>>

-----------------------------------------------------------------------------
(* moderation_ingest_loop. *)

\* The clock is read, then the blob of a live row is deleted.
ModDelete(p) ==
    /\ moderating.post = None
    /\ p \in tombMsgs
    /\ blobs' = IF status[p] = "live" THEN blobs \ {p} ELSE blobs
    /\ moderating' = [post |-> p, at |-> now]
    /\ UNCHANGED <<now, created, network, rows, creating, ingest, gc, bounds,
                   everTomb>>

\* UPDATE ... WHERE content_hash = p AND is_tombstone = 0.
ModMark ==
    /\ moderating.post # None
    /\ LET p == moderating.post IN
         IF status[p] = "live"
         THEN /\ status' = [status EXCEPT ![p] = "tombstone"]
              /\ tombAt' = [tombAt EXCEPT ![p] = moderating.at]
              /\ everTomb' = everTomb \cup {p}
         ELSE UNCHANGED <<status, tombAt, everTomb>>
    /\ moderating' = NoOp
    /\ UNCHANGED <<now, created, network, expires, blobs, creating, ingest,
                   gc, bounds>>

-----------------------------------------------------------------------------
(* GarbageCollector::sweep. *)

\* Mutant: the comparison with the expiry is not strict.
ExpiredInclusive == {p \in Posts : status[p] = "live" /\ expires[p] <= now}

\* Mutant: a sweep must run in the very second a post expires.
ExpiredJustNow == {p \in Posts : status[p] = "live" /\ expires[p] + 1 = now}

Expired == {p \in Posts : status[p] = "live" /\ expires[p] < now}

\* Phase 1a: SELECT ... LIMIT batch_size, in no particular order.
GcSelect ==
    /\ gc.pc = "idle"
    /\ \E batch \in SUBSET Expired :
         /\ Cardinality(batch) <= Batch
         /\ batch = Expired \/ Cardinality(batch) = Batch
         /\ gc' = [pc |-> "delete", at |-> now, batch |-> batch, todo |-> batch]
    /\ UNCHANGED <<now, created, network, rows, blobs, creating, ingest,
                   moderating, bounds, everTomb>>

\* Phase 1a: the selected blobs are deleted one by one.
GcDeleteBlob(p) ==
    /\ gc.pc = "delete"
    /\ p \in gc.todo
    /\ blobs' = blobs \ {p}
    /\ gc' = [gc EXCEPT !.todo = @ \ {p}]
    /\ UNCHANGED <<now, created, network, rows, creating, ingest, moderating,
                   bounds, everTomb>>

\* Phase 1b: the batch becomes tombstones dated by the start of the sweep.
GcMark ==
    /\ gc.pc = "delete"
    /\ gc.todo = {}
    /\ status' = [p \in Posts |->
                    IF p \in gc.batch /\ status[p] # "absent"
                    THEN "tombstone" ELSE status[p]]
    /\ tombAt' = [p \in Posts |->
                    IF p \in gc.batch /\ status[p] # "absent"
                    THEN gc.at ELSE tombAt[p]]
    /\ everTomb' = everTomb \cup {p \in gc.batch : status[p] # "absent"}
    /\ gc' = [gc EXCEPT !.pc = "purge"]
    /\ UNCHANGED <<now, created, network, expires, blobs, creating, ingest,
                   moderating, bounds>>

\* Phase 2: tombstones older than three lifetimes are forgotten.
\* Mutant: tombstones are kept for one lifetime instead of three.
PurgeableEarly(p) == status[p] = "tombstone" /\ tombAt[p] + Ttl[p] < gc.at

Purgeable(p) == status[p] = "tombstone" /\ tombAt[p] + 3 * Ttl[p] < gc.at

GcPurge ==
    /\ gc.pc = "purge"
    /\ status' = [p \in Posts |->
                    IF Purgeable(p) THEN "absent" ELSE status[p]]
    /\ gc' = NoSweep
    /\ UNCHANGED <<now, created, network, expires, tombAt, blobs, creating,
                   ingest, moderating, bounds, everTomb>>

-----------------------------------------------------------------------------
(* Failures. *)

\* An I/O error, or a statement that gives up on a locked database, ends one
\* activity where it stands: the `?` of create, store_received_post and the
\* sweep, the ignored result of the moderation UPDATE.
Fails ==
    /\ faults < MaxFaults
    /\ faults' = faults + 1
    /\ \/ /\ creating.pc = "insert" /\ creating' = NoCreate
          /\ UNCHANGED <<ingest, moderating, gc>>
       \/ /\ ingest.post # None /\ ingest' = NoOp
          /\ UNCHANGED <<creating, moderating, gc>>
       \/ /\ moderating.post # None /\ moderating' = NoOp
          /\ UNCHANGED <<creating, ingest, gc>>
       \/ /\ gc.pc # "idle" /\ gc' = NoSweep
          /\ UNCHANGED <<creating, ingest, moderating>>
    /\ UNCHANGED <<now, created, network, rows, blobs, crashes, everTomb>>

\* The process dies; rows and blobs survive, the activities do not.
Crash ==
    /\ crashes < MaxCrashes
    /\ crashes' = crashes + 1
    /\ creating' = NoCreate /\ ingest' = NoOp
    /\ moderating' = NoOp /\ gc' = NoSweep
    /\ UNCHANGED <<now, created, network, rows, blobs, faults, everTomb>>

Next ==
    \/ Tick
    \/ \E p \in Remote : RemotePublish(p) \/ RemoteDelete(p)
    \/ \E p \in Local : CreatePut(p)
    \/ CreateInsert \/ CreatePublish
    \/ \E p \in Posts : Delete(p)
    \/ \E p \in Posts : IngestPut(p)
    \/ IngestInsert
    \/ \E p \in Posts : ModDelete(p)
    \/ ModMark
    \/ GcSelect \/ GcMark \/ GcPurge
    \/ \E p \in Posts : GcDeleteBlob(p)
    \/ Fails \/ Crash

Spec == Init /\ [][Next]_vars

-----------------------------------------------------------------------------
(* Properties. *)

TypeOK ==
    /\ now \in Nat
    /\ created \in [Posts -> Nat]
    /\ published \subseteq Posts /\ tombMsgs \subseteq Posts
    /\ status \in [Posts -> {"absent", "live", "tombstone"}]
    /\ expires \in [Posts -> Nat]
    /\ tombAt \in [Posts -> Nat]
    /\ blobs \subseteq Posts
    /\ creating \in [post : Posts \cup {None}, pc : {"idle", "insert", "publish"}]
    /\ ingest \in [post : Posts \cup {None}, at : Nat]
    /\ moderating \in [post : Posts \cup {None}, at : Nat]
    /\ gc \in [pc : {"idle", "delete", "purge"}, at : Nat,
               batch : SUBSET Posts, todo : SUBSET Posts]
    /\ crashes \in Nat /\ faults \in Nat
    /\ everTomb \subseteq Posts


\* A post that this node has once tombstoned is never shown again: whatever
\* order posts, tombstones, sweeps, purges, retransmissions and restarts come
\* in, no INSERT OR IGNORE brings its row back to life.
NoResurrection == \A p \in everTomb : status[p] # "live"

\* Phase 2 forgets a tombstone only when validate_post already refuses the
\* post, so that forgetting it cannot let the post in again. A handler that
\* validated the post earlier and was paused since counts as acceptance.
PurgeOnlyUnacceptable ==
    [][\A p \in Posts :
         (status[p] = "tombstone" /\ status'[p] = "absent")
            => ~NotExpired(p) /\ ingest.post # p]_vars

\* A row that is shown, has not reached its expiry and for which no tombstone
\* was ever sent still has its blob: the sweep, whatever else it races with,
\* deletes the blobs of expired posts only.
UnexpiredHasBlob ==
    \A p \in Posts :
       (status[p] = "live" /\ now <= expires[p] /\ p \notin tombMsgs)
          => p \in blobs

-----------------------------------------------------------------------------
(* Fairness: time passes, gc_loop runs again and again, and a handler that  *)
(* has begun ends.                                                          *)

Sweep == GcSelect \/ GcMark \/ GcPurge \/ \E p \in Posts : GcDeleteBlob(p)

\* Every row whose expiry the clock passes stops being shown, although each
\* sweep takes only a batch, may fail half-way and may be cut by a crash.
ExpiredIsTombstoned ==
    \A p \in Posts :
       (status[p] = "live" /\ expires[p] < MaxTime) ~> status[p] # "live"

=============================================================================
