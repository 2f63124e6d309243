# Verification of Ephemera

Ephemera is a peer-to-peer social platform whose content is meant to
disappear: every post has a lifetime, nodes exchange posts by gossip, and each
node keeps its own SQLite database and blob store. This directory holds TLA+
models of its parts, the TLC runs that check them on small instances, and
TLAPS proofs of the properties that matter most.

## The system

| Part | State | Operations | What makes it hard |
|---|---|---|---|
| Post storage (`ephemera-node/services/post.rs`, `gossip_ingest.rs`, `lib.rs`, `ephemera-store`) | table `posts`, blobs | create, delete, ingest of posts, ingest of tombstones, garbage collection | four writers on three database connections; late and repeated deliveries; crashes between blob and row |
| Media (`ephemera-media`, `media_store.rs`, `content_store.rs`) | attachments, chunks, thumbnails, files | store, list, serve, sweep; put, get, delete | failure between two statements; shared chunks and thumbnails; files written and removed at once |
| Admission (`ephemera-abuse`, `post.rs`, `gossip_ingest.rs`) | token buckets, windows of fingerprints | check, refill, record | boundaries of the buckets; calls that overlap |
| Moderation (`ephemera-mod`, `services/social.rs`) | reports, tombstones, penalties | report, filter | a count used after its lock; memory lost on restart |
| Handles (`ephemera-social/handle.rs`, `services/handle.rs`) | `handles`, `owner_to_handle`, `cooldowns`, `last_registration` | register, renew, release, resolve conflict, insert validated, gc | two maps kept in step by hand; expiry races with renewal |
| Gossip (`ephemera-gossip`) | seen set, cache, pending IHAVE, eager/lazy peers | publish, full message, IHAVE, IWANT, lazy timeout | lost and repeated messages; the single IWANT |
| DHT (`ephemera-dht`, `dht_query.rs`, `background_dht.rs`) | records with expiry, pending queries, routing table | put, get, query, response, sweep, republish, lookup | late answers, caching with a fresh lifetime |
| Transport (`ephemera-transport/iroh_transport.rs`) | table of peers, channels, tasks | connect, accept, send, receive, disconnect | crossing connections; a mutex held over a full channel |
| Node lifecycle (`lib.rs`, `services/mod.rs`) | services, ingest loops, shutdown signal | start, start_network, shutdown, reconnect | starts that overlap or fail half-way |
| Identity and keys (`identity.rs`, `keystore.rs`, `epoch.rs`) | keystore file, keys in memory, epoch keys | create, unlock, lock, switch; derive, rotate, destroy | files and mutexes one after the other; a manager rebuilt by every tick |
| Messaging (`ephemera-message`, `message_ingest.rs`, `dead_drop.rs`) | ratchets, sessions, requests, messages, mailboxes | encrypt, decrypt, save; send, receive, accept, block; deposit, poll | lost, repeated and reordered messages; rollback on failure |
| Social (`ephemera-social/store`, `services/social.rs`) | connections, blocks, groups, chats | request, accept, block; join, kick, ban, transfer; add, leave | requests that cross; checks and changes in two steps |
| CRDTs (`ephemera-crdt`) | OR-set, LWW register, G-counter, hybrid clock | add, remove, set, increment, tick, merge | merges in any order, any number of times |
| Feeds (`services/feed*.rs`, `views/feed.js`) | table `posts`, cursor, cards | first page, more, refresh | a table that changes between two pages; late answers |
| Rooms, reactions, mentions (`ephemera-social/store`, `services/social.rs`) | rooms, subscriptions, posts in rooms, reactions, mentions | subscribe, post, react, mention, read a page | rows that come and go between two pages |
| PlumTree (`ephemera-gossip/plumtree.rs`) | eager and lazy peers, two generations of seen messages | publish, receive, announce, graft, prune, rotate | a filter that forgets |

Paths above are under `src/crates/`; the crate `ephemera-node` wires the parts
together. An RPC call goes to a service, which changes the tables of the node
and publishes on a gossip topic. Loops started with the network take what
arrives on the topics (posts, moderation, direct messages, DHT queries) into
the tables, and background loops sweep what has expired, rotate epoch keys,
renew handles, republish DHT records and poll mailboxes. Every loop and every
call runs in its own task, and most loops open their own database connection:
what is atomic is one SQL statement, one held mutex or one file operation. The
client's feed is a page that runs one event at a time; what is atomic there is
the code between two awaits. `PROJECT.json` lists every part with its status and
the lines that each definition stands for.

## Modules

| Module | Models | State and steps |
|---|---|---|
| `PostStore` | posts at one node | rows, blobs, and a program counter for each of the writers (`creating`, `ingest`, `moderating`, `gc`); one action per statement or file operation, `Crash` drops the program counters |
| `Media` | attachments, chunks and thumbnails of posts | one action per statement of create and of the sweep, which exclude each other; an error or a crash leaves what was written |
| `Chunker` | cutting content and putting it together | chunks travel: lost, repeated, swapped, changed; both forms of reassembly on what is left |
| `BlobStore` | files of the content store | tasks with a place in `put` or `delete`; a file is half before it is whole |
| `Admission` | the checks in front of create and of ingest | buckets, windows, and a place in the checks for each call; tokens in whole units |
| `TextFilter` | `ContentFilter::check` | an operator, on every text typed so far |
| `Moderation` | reports on posts | filing counts under a lock, `Persist`, `TombstoneContent` and `Penalise` follow one by one |
| `HandleRegistry` | handle registries of several nodes | the four maps per node; one action per call under the registry's mutex; `wire` keeps every record handed over, so delivery is late, repeated, in any order or never |
| `Replicas`, `GCounter`, `OrSet`, `LwwRegister` | the replicated data types | one replica per actor and a set of snapshots; history variables carry what a replica reflects |
| `EpochManager` | `EpochKeyManager` as a value | pure operators, shared by the next two |
| `EpochKeys` | one manager through its life | encrypt, decrypt, rotate, destroy |
| `NodeIdentity` | `IdentityService`, keystore, session file, epoch loop | a call is the list of steps it still has to take, so calls interleave and fail between steps |
| `RatchetSessions` | X3DH, double ratchet, stored sessions | keys are symbolic, so that two keys are equal when their derivations are; a call loads the session, and saves it only when it succeeds |
| `MessageRequests` | `MessageService` of two nodes | requests, conversations, messages with lifetimes, collection; clocks that disagree; conversations that the node's own message path began |
| `Broadcast` | what gossip promises | publish, deliver at most once per life of the node, restart |
| `Gossip` | `EagerGossipService` on one topic | seen set, cache, pending announcements, subscriptions, envelopes; implements `Broadcast` |
| `Dht` | DHT storage, queries and profiles | records, asked queries, calls waiting for an answer, the profiles table, the maintenance and refresh loops; a timed-out call first gives up and then forgets its query, or is dropped and leaves it; an edit of a profile is stored, then published |
| `DhtLookup` | routing table and iterative lookup | buckets with their caches; a lookup with candidates, asked and answered nodes |
| `PeerTransport` | `IrohTransport` between two nodes | table, links, writer and reader tasks, channels, the table's mutex, gossip's receive loop, the room that QUIC grants a writer |
| `NodeLifecycle` | start, shutdown, `start_network` | calls with a place in the sequence of loops that they spawn; a mutex per service |
| `ContactReconnect` | `auto_connect_to_contacts` | rounds over the contacts while these come and go |
| `Contacts` | connections and blocks | each person's own table, envelopes that may be lost; a second request deletes the old row before it stores the new one |
| `Groups` | one group, its roles, bans, posts, linked chat | `Authorize` and `Execute` are two steps, as the services let go of the database in between; a kick reads the roles of caller and target in one step each |
| `GroupChats` | private chats | each call is one step under the database lock |
| `DirectMessages` | direct messages and dead drops | the three ways a message takes, polling and acknowledgement; a message is stored and then counted, rows are marked read and then the counter reset, and the sweep takes rows |
| `Feed` | the feed, node and page | queries under the database mutex; calls and answers in flight; the cards, cursor and flags of the view |
| `Spaces` | topic rooms, reactions, mentions, and paged reads | one action per call of the stores; a reader of a room, a group or a profile who asks for page after page |
| `PlumTree` | `PlumTreeEngine`, `TopicState`, `MessageDedup` of one node | peers per topic, both generations of the filter against the clock, subscriptions with their queues, what was sent |
| `*Proofs` | proofs | see below |
| `MC*` | instances for TLC | where a module joins several parts, `part` (or `type`) is chosen in the initial state and only that part moves; the parts share no state |

A definition whose comment starts with "Mutant:" is not part of the model. It is
a plausible mistake in the definition that follows it. Substituting it there
makes one of the properties fail, which shows that the property watches that code.

### What the models abstract

- Signatures, hashes and ciphers are ideal: a record is what its signer wrote,
  a hash names its content, a key opens what it sealed and nothing else.
- A proof of work is its difficulty; a text, a name or a payload is a model value.
- A reading of the clock belongs to the step that uses it, or lags behind the
  clock by at most a named bound (`Stall` in `PostStore`).
- Failures (lost envelopes, failed statements, restarts) are chosen
  nondeterministically and counted against a bound.
- Gossip payloads are assumed distinct, and in `Dht` a query or a response
  reaches a node that stays up at most once, which is what `Broadcast` promises.
- `Dht` has profile keys only: handles and prekeys use the same operations. A
  request made with no network returns at once and changes nothing. A value that
  a client puts under somebody's key (`DhtPut`) counts as a fault. `Elder` has a profile from an earlier session.
- `receive_remote_handle` has no caller in the node, and what the node publishes
  of a handle is an unsigned summary. It is modelled as the entry point that it is
  written to be: `Offer`, marked external, hands it the record that another node has.
  `receive_connection_request` has no caller either and is left out, as envelopes
  enter through `message_ingest.rs`.
- `send` and `receive` of `MessageService` have no caller in the node. What the node
  has instead, `get_or_create_conversation` on its own message path, is there too
  (`BeginConversation`).
- The routing table and its lookup, and the double ratchet, have no caller in the
  node. Their drivers are the least that their comments or tests ask for.
- Of QUIC, `PeerTransport` assumes that a dial makes one connection with a handle
  on both sides, that it is closed for both when one side drops its last handle,
  that the streams of a closed connection are lost, and that a writer gets ahead of
  the reader on the other side by `Credit` messages and then waits.
- `Media` follows an author whom the reputation check lets attach media. No code
  of the node brings an author there (see below); `tests/media_pipeline.rs` does.
- In `Admission` a tick brings `RefillRate` units and an action costs `TokenUnits`,
  so that the fractions of a token in the code are whole numbers.
- In `Feed` a call is out, answered by the node, and then applied, and each may
  wait. Events of the page run one at a time.
- `PlumTree` is driven by any messages of its peers: nothing in the node uses the
  engine. A message of a topic without subscription is marked as seen, as in the code.

## Runs

A run joins the parts that ask a similar question; each part is explored alone.

| Run | Instance | Shows |
|---|---|---|
| `posts`: posts | one local and one remote post, one of them in play; lifetime 2, skew 1, pause 1, clock to 10; one crash, one fault | a tombstoned post is never shown again; an unexpired post keeps its blob |
| `posts`: media | two posts, a photo and two videos, which share a chunk and a thumbnail; one failure or crash | what was accepted is served whole; chunks have an owner |
| `posts`: chunks | up to four bytes in chunks of one or two, two mishaps | with the manifest, what is put together is the content |
| `posts`: blobs | two blobs in one directory, two tasks, five calls, one crash | no reader meets half a file |
| `posts`: admission | two calls and the ingest loop, one author, three texts, bucket of two, window of two | the rate holds over every interval; near duplicates do not pass |
| `posts`: text, reports | texts of up to six characters; three reporters, two posts, threshold two, two calls, one restart or failure | long runs are stopped, those of capitals let through; a post with a quorum of reporters leaves the feeds |
| `post_sweep`: sweep | two posts, sweeps of one row, one fault | every expired row stops being shown |
| `post_sweep`: transport | two nodes, two connections, channels and credit of one, one failure; one message, or ten on one connection between nodes with a relay | the kept connection is live, unless both dialled at once; a task that ends does not remove the entry of its successor; the mutex is released again, unless nodes wait for each other in a circle |
| `post_sweep`: node | two unlocking calls beside the start, two topics, two endpoints, one shutdown, one lock | the network that the services use has its ingest loops |
| `post_sweep`: reconnect | two contacts, three changes | who stays reachable is connected |
| `post_sweep`: table, lookup | five nodes of three bits, buckets of two, two nodes asked at once, two answers lost | a node has one entry, in the bucket of its distance; every lookup ends |
| `handles`: handles | two identities, two names, two nodes, three records, two of them handed over, clock past the lifetime | an active handle is not taken except by the conflict rule; nodes that processed the same unexpired records agree |
| `handles`: feed | three posts of two authors, pages of one, two renderings, one change | who has scrolled to the end has seen what there was |
| `handles`: counter, set, register | two replicas, counter saturating at 3, clock counter of one bit that wraps around, three writes | replicas that reflect the same increments agree; an unobserved add survives; who writes with knowledge of a write has the later timestamp, unless its own tick wrapped |
| `keys`: manager, node | retention 1 over five days; one client, two passphrases, two pseudonyms, two keystores written, one fault | retained content stays readable; memory agrees with disk |
| `keys`: session | two peers, four letters each | every message has a key of its own, opens in the order of sending and once, and a stored session does not give past keys (`MessageKeysSafe`); the latest is readable whatever was lost or replayed |
| `keys`: request | two nodes with clocks one apart, two envelopes, lifetimes 0, 1 and 3 with a maximum of 1 | a collected message does not come back; the main inbox of `MessageService` has admitted people only, those apart whom the node's own path brought there |
| `network`: gossip, DHT | three nodes in a mesh, two messages, one fault; two nodes, room for one record, two updates, one query, one fault or foreign value | gossip implements `Broadcast` and delivers to everyone in spite of the fault; profiles, records and answers never mix keys or fields, and the owner's record becomes current again |
| `network`: tree | two topics, two messages, one peer, queue of one, epochs of two ticks, four ticks | a message is refused for an epoch after it was handled |
| `social` | two people; a group with two users and two overlapping calls; a chat with room for two; two peers with two bodies, rows that expire at once, drops whose lifetime is cut from 2 to 1 | orderly connections are mutual, bans hold, a chat that everybody left stays empty, unread counters agree with the rows and with what was swept |
| `social`: spaces | three posts, two of one second; one room, one group, one user; pages of one, at most two | who has read to the last page has missed nothing that stayed |

Many properties name the cases in which the code does not keep them; the comment
above a property says what is excepted and why, and the section on code and
documentation lists these cases.

Bounds. Every clock passes every limit that the part compares it with: posts
run beyond the purge of a tombstone (three lifetimes after it was set), handles
past expiry and both cooldowns, keys past the retention, buckets from empty to
full. The counters reach the largest value of their width, and the clock's goes over
it. Ten messages fill every channel, buffer and credit between two sends. Queues, channels,
sweeps, windows, buckets, tables and chats have room for one element less than
there are candidates. One fault per behaviour shows that each fault is survived,
not that several together are. In `keys` there is one client: with two, the code
does not keep its promise (`identity_lock_race`). `MCSocial` does not follow a
group further once two calls have overlapped and a call was stored after a
deletion, as no property claims anything from there on, and follows direct messages
in one direction, with deliveries that overlap a reading or rows that are swept. `MCHandles` hides at most
one post from the feed. A lookup in `MCSweep` begins from any table that
insertions can make. The tree runs over more than two epochs, so that both
generations of its filter are dropped.

Fairness. Sweep: time passes, the sweep runs again and again (`gc_loop` is an
unconditional interval loop) and a handler that has begun ends. Transport: some
task that can go on does (one weak fairness for sends, gossip's receive loop, and
the set-up, writer and reader of every connection), as the runtime polls tasks that
are woken; the sends are finitely many, so that all of them get their turn.
Reconnection: the loop of `auto_connect_to_contacts` ticks. Lookup: the driver asks
on, and a node that is asked answers unless the answer is lost. Network: what is
on the wire for a node is handled, and announcements are followed up (`service.rs`
loops); DHT maintenance and sweeping run at intervals, and a profile that was stored
is published, unless the node is restarted before. That a locked node is
unlocked some day is an assumption about its user, without which nothing is
republished. Nobody is obliged to publish, update, look up, dial, send, consume
or subscribe. A lost envelope is a step, not an unfair execution. Deadlock is not
checked where everything may come to rest; in `social` it is.

### Where code and documentation disagree

Six runs look for a violation of what a comment says, and find it.

| Run | Comment | Code |
|---|---|---|
| `orset_removal` | tags removed on one side will not be present (`orset.rs:100`) | `merge` is a union: any snapshot from before the removal undoes it |
| `clock_wraps` | each timestamp is greater than any issued before (`clock.rs:37`) | the 16-bit counter goes from its limit to 0 within the same second |
| `identity_lock_race` | lock wipes keys from memory (`identity.rs:116`) | an overlapping call leaves the signing key after both have returned |
| `epoch_shredding` | epoch keys are destroyed after 30 days (`epoch.rs:3`) | each tick replaces the manager by an empty one, so nothing old is there to destroy |
| `dht_inbound` | signatures are enforced on inbound records (`services/dht.rs:50`) | `handle_response` checks none and signs what it stores itself |
| `group_post_delete` | moderators delete a post from a group (`social.rs:1194`) | the hash that the feed shows matches no row; the call succeeds and the post stays |

Met while reading, without a run of their own:

- Posts: a local delete leaves the blob to the sweep (`post.rs:345`), where
  `docs/architecture/04_social_features.md:209` says it goes at once. A tombstone
  that arrives before its post is lost (`lib.rs:118`).
- Media: `posts.create` and `posts.reply` call `create`, never `create_and_publish`,
  so media is not sent to peers. `set_age_days` has no caller, so media is always
  refused, where the message says "Text-only for the first 7 days". The same
  photo posted twice fails on its primary key after the row of the second post is
  in. Serving ignores `chunk_count`. Deletion by the user leaves the media rows
  for good. The sweep of one video post deletes the placeholder thumbnail that
  others share. Temporary files of an interrupted put stay.
- Admission: a create that fails later has already recorded its fingerprint, so
  that a second try is a near duplicate; all empty texts are near duplicates; a
  run of one capital letter is let through, as `ContentFilter` asks for a review
  there and `create` only logs that.
- Moderation: reports are said to survive a restart, but the table is never read
  back; the limit per day counts since the start; every report past the threshold
  takes points again; the deletion is not told to other nodes.
- Handles: a handle that its owner released comes back with a record that arrives
  again (`handle.rs:504`). `validate` asks every record for registration difficulty,
  which renewal does not have (`handle.rs:352`): a renewed record would be refused by
  `receive_remote_handle`, if the node called it.
- Lifetimes: group chat messages never expire, as nothing but the deletion of
  their group deletes the rows; `ttl.rs:3` says that all content does. The sweep
  deletes expired direct messages, but leaves conversations without any: the
  clean-up of these is in `gc_expired_messages`, which has no caller.
  A DHT answer is cached with a fresh lifetime.
- Profiles: looking up one's own key can overwrite one's own row with an old
  answer; a query may be answered from a third node's old copy. The timeout is
  15 s where the comments say 5.
- Lookup: a cache can hold a node twice, and then the entries do; `evict_oldest`
  evicts what is oldest by then, not what was pinged; a query on an empty table
  never finishes; no method records that a node did not answer. The node only
  constructs the table, with a placeholder for its identifier.
- Dead drops: the poll acknowledges, and so deletes, a drop after emitting an
  event for it, without storing it as a message (`background.rs:251`), and removes
  the DHT record likewise (`background.rs:328`); the DHT mailbox is read from the
  node's own storage only; and a drop of the same body for another recipient is
  ignored.
- Mailbox poll: `retrieve_dht_dead_drops` holds the mutex of `metadata_db`
  (`background.rs:328`) when it calls `NotificationService::insert`
  (`background.rs:368`, `:419`), which takes the same mutex (`notifications.rs:42`), so
  that the poll would wait for itself. It gets there only with a record under the
  mailbox key that is a dead drop envelope around a connection message; the node
  itself stores these messages bare.
- Unread counters: the sweep deletes expired messages and leaves `unread_count`
  (`gc.rs:234`), which is "Number of unread messages"
  (`ephemera-message/src/service.rs:55`); a delivery that meets a reading leaves it one
  off until the next reading.
- Connections: requests that cross both stay `pending_outgoing`; disconnecting
  is one-sided; a block does not keep out requests that arrive by gossip; the DHT
  copy of a request is not an envelope, so that the poll cannot read it.
- Groups: `ban_member` and `set_group_role` can leave a group without an owner,
  two overlapping transfers give it two, a call stored after the deletion leaves
  rows behind, and the linked chat has no member rows.
- Transport: when two nodes dial each other at once both connections can close,
  where `iroh_transport.rs:354` and `:376` say that the existing one is kept. `send`
  holds the mutex of the table while a channel is full, and gossip's receive loop
  sends inline (`service.rs:335`): nodes whose channels are all full can wait for each
  other in a circle.
- Lifecycle: `start_network` is said to be idempotent (`services/mod.rs:239`), but
  starts that overlap or fail half-way leave ingest loops twice. A shutdown leaves
  the old network with the services, so a later start takes nothing in. The
  heartbeat is not spawned when the identity is unlocked after the start.
- Clocks: `tick` adds one to a 16-bit counter unchecked (`clock.rs:37`). The release
  profile has no overflow checks, so it wraps around; a debug build panics. On equal
  timestamps the register keeps its own value. `GCounter::value` sums unsaturated.
- Identity: `lock` does not clear the epoch key manager; `message_ingest` keeps
  the public key that was active when it started; creating or importing replaces an
  existing keystore.
- Feeds: the cursor is said to break ties by content hash (`feed.rs:14`) and is
  `created_at` alone; excluded authors are taken out after the limit, so that
  `has_more` ends early; a locked node reads the cursor as a rowid; an answer is
  put into whatever view is shown.
- Rooms: a page asked for with a limit over 200 has 201 rows and `has_more` false;
  with limit 0 it has `has_more` and no cursor; the cursor is `created_at` alone;
  the service passes no cursor to a topic feed, so that only its first page is seen.
- PlumTree: a message of a topic without subscription is marked as seen, and
  subscribing again replaces the state of a topic, its filter included.

## Proofs

TLAPS checks these for every value of the constants that satisfies the named
assumptions of the modules, so for any number of nodes, posts, people, calls
and faults. TLC evaluates the assumptions on the instances above.

- `PostProofs`. `PostStore`: type correctness, `TombstonesAreFinal`, `PurgesAreSafe`,
  `UnexpiredKeepsBlob`. Assumes that a lifetime is at least skew plus pause
  (`TtlAssumption`: 3600 s against 300 s and 5 s). `NoResurrection` is not
  inductive: a post whose row was purged could be inserted again by an ingest
  that validated it before. The invariant adds what each handler under way still
  knows (`IngestValid`, `CreatingFresh`, `SweepValid`), that rows and tombstones
  are not from the future (`RowsDated`), and, which is the point, that what was
  forgotten is unacceptable now and to every ingest begun
  (`ForgottenUnacceptable`). `Media`: `ChunksAlwaysOwned`, `SweptForGood`,
  `ThumbnailsServed`. The invariant `MediaInv` says how far the statements of create
  have come (`StoringOK`), how far those of the sweep (`ClearingOK`), what every row
  has (`RowsOK`) and what a post on show has (`ShownOK`). It assumes that no
  stored medium is empty, as what the encoder returns and a validated video never are.
- `ContentProofs`, in four parts. `EpochKeys`: `DestroyedForGood`, `RetentionKept`,
  `ShreddingComplete`. The cache and the destroyed epochs are disjoint, every
  sealed epoch is in one of them, and what was destroyed is old or was asked for.
  These are about one manager; the node replaces it, which `epoch_shredding` shows.
  `BlobStore`: `BlobsNeverTorn` and `PutsFailOnlyEmptied`. A temporary file belongs to
  one task, by the counter in its name, and is whole before it is renamed.
  `Moderation`: `TombstonesJustified`. The count that a call carries is at most the
  number of reporters that its post has ever had, which only grows, so acting on
  it late and after a restart is safe. `QuorumAlwaysHides`, the other direction: while
  a post with a quorum is live some call that saw the quorum has yet to mark it
  (`HiddenInv`); the threshold is at least one. `Admission`: `RateAlwaysBounded`. For
  every action let through, the tokens spent since and those left are paid for by a
  full bucket and the time up to the last refill (`BucketInv`); the bound over two
  actions alone is not inductive. `NearTwinsRefused`: the window has the last
  fingerprints of those seen, as many as it holds (`Window`), so that a text that
  passes is near to none of them; a window holds at least one.
- `NodeProofs`. `HandleRegistry`: type correctness, `ReverseMapSound`,
  `NoHandleIsStolen`; types and the reverse map together are inductive.
  `RegistriesAgree` compares what two nodes made of the same records in two orders.
  Its invariant is about one node (`LeadInv`): while nothing it processed of a name
  has expired and nothing is a renewal, its record makes one of the claims it
  processed, none of which precedes it, and is active; a renewal is never known
  away from the node of its owner. Two such leaders do not precede each other, and
  `resolve_conflict` ties only records of one owner. It assumes that the window of
  the automatic renewal is within the lifetime (`RenewAssumption`: 7 against 90 days).
  `NodeLifecycle`: `NetworkAlwaysIngests`, from the loops that a call has spawned so far
  (`SpawnedThere`), and `IngestsOnce`, from which calls can still bind or spawn.
- `CrdtProofs`, on copies that must agree. For the counter `CountsAreExact`, `Convergence`, `CountersGrow`; the
  invariant says that a slot is the value its actor had after the increments
  it reflects, and that those values grow. For the set `TagsAreUnique` and
  `AddsWin`; it says that a replica's sequence numbers are ahead of every tag it
  holds, and relates all pairs of replicas and snapshots. For the register
  `CausalOrder`, `TimestampsConverge`, `ClocksAdvance`; a register carries the
  largest timestamp of the writes it reflects, and its clock is not behind it unless
  a tick of that node has wrapped around. They hold of the release build, where ticks
  wrap, and except only the writes and the clock of the node where one did. For the identity in
  memory and the keystore on disk `MemoryAlwaysMatches`: for one client, whatever
  write fails and wherever the node restarts. The invariant (`IdInv`) follows what the
  call under way has still to do: either nothing of it touches the master secret
  or the keystore, or it writes the one and then sets the other to the same.
  Calls of two clients that overlap can leave the two apart, so the theorem is
  about `Clients = {c}`.
- `NetworkProofs`: for `Gossip` `Refinement` (it implements `Broadcast`) and
  `AnnouncersServe`; what was delivered is in the seen set, everything on the wire
  was published, and who announced a message still has it unless restarted. For
  `DhtLookup` `LookupAlwaysComplete` and `LookupAlwaysGoesOn`; the candidates are
  exactly what the lookup was told, one of them is left to ask while it runs, and
  it ends without the value only when none is. It assumes of the distance that it
  tells identifiers apart.
  For `PlumTree` `EachDeliveredOnce`, `RememberedForAnEpoch`, `AlwaysSentOneWay`; a
  message marked is in one of the two sets of the filter or an epoch has passed
  since, and one not in the newer set was marked before its epoch began (`EpochInv`).
  For the routing table `NodesHaveOneEntry`; a bucket holds no more than its size and
  only nodes of its distance, and nodes wait in its cache only while it is full
  (`TableInv`).
- `PeerProofs`. `Dht`: `PendingExact`, `ProfilesAlwaysGenuine`, `FieldsNeverLost`. Genuine
  is what the owner wrote, or a client put, in that field under that key: not only
  in the profiles but in every record, answer and row that they can be made from. `PeerTransport`: `EntriesHaveWriters` and `ReplacementsKept`, from the fact that
  an entry is of a connection with that peer which is set up and whose writer has
  not cleaned up (`PeersInv`). `KeptAlwaysLive`: while nothing breaks, every connection
  of a pair that never crossed is kept or yet to be set up at both ends, or came
  second at both, and earlier ones were set up before later ones (`LiveInv`). It assumes that the value for no connection is not a number.
- `SocialProofs`: for `Contacts` `LocalConsentAlways`, `MutualAtRest`, `NeverDowngraded`,
  from what a row or an envelope says of the row on the other side; for `Groups`
  `BansHold`, `SingleOwner`, `DeletionComplete`, from the fact that a call which is
  alone finds the group as its check found it; for `Spaces` `PagesAlwaysComplete`,
  `NeverTwoReactions`, `ReferencesHold`. A reader at a cursor was shown every row that
  stayed and is newer than the cursor (`ReadSoFar`), for any cap on a page.
- `MessagingProofs`: for `GroupChats` `ChatsStayWithinLimit` and `EmptyChatsStayEmpty`
  (a chat has members only once it exists); for `DirectMessages` `CountersAgree`:
  the counter, and one more while a message is stored and not yet counted, is the
  number of unread rows and of those swept, unless delivery and reading met
  (`UnreadInv`); and `DropsAlwaysEndOnTime`, from the same
  bound on every copy on its way; for `MessageRequests` `InboxStaysAdmitted` (for strangers
  it excepts the conversations that the node's own path began),
  `CollectedForGood` (whatever is on its way and was collected once has expired at
  its reader) and `UnreadAlwaysCovered` (the conversation of every row counts at
  least its unread rows). For `Feed` `NothingMissed`, which states `CaughtUpIsComplete`:
  a post has one row and a row its own rowid, the client has one call at a time as
  long as no view began too early, and every post that was there all the time has a
  card, is in the answer at hand or is behind the cursor (`FeedInv`). It assumes
  that a page holds at least one row and that no post is of second 0 (`FeedAssumption`).

Several theorems state a property that no run checks any more, because the proof
says more than the small instance; TLC checked each of them before it was proved.

Only model-checked:

- liveness, which needs fairness and ENABLED: `ExpiredIsTombstoned`,
  `EventualDelivery`, `OwnRecordCurrent`, `MutexReleased`, `ReachableIsLinked`, `LookupEnds`;
- `StoredIsWhole`, `AcceptedIsContent` and `RunsAreStopped`, which are about what is put
  together from, or counted over, a sequence of any length, and so need induction
  over data; `MessageKeysSafe` and `LatestReadable` likewise, as keys are derivations
  of any length.

A leaf that names `Zenon` needs no arithmetic; the others are left to SMT.

## Not modelled

- `ConnectionManager`, the connection pool and the partitions of the content store,
  which no part of the node uses; the node's `mobile.rs`, which no module declares.
  The sweep's phases 3 and 4 join with a table that nothing fills.
- Cryptographic primitives, encodings, media decoding and resizing: functions on
  bytes without state, taken as ideal.
- Invites, interactions and notifications: single statements, with nothing between
  two of them. Mutes and the search by tag only select.
- Argument conversion in the API, configuration, startup checks, logging, events
  without effect on the tables.
- Of the client, everything but the feed: the shell, the chat view, and forms that
  call the node once and show its answer.
- The decay of reputation scores, which nothing reads that the models keep.

What could come next: several faults in one behaviour; `Broadcast` as the network
below `Dht` and `DirectMessages` in one composition.
