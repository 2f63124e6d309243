------------------------------- MODULE Spaces -------------------------------
(***************************************************************************)
(* Topic rooms, reactions and mentions, and the paged reads of the store:  *)
(* the feed of a topic room, of a group and of a profile.  Every operation *)
(* holds the mutex of the database throughout; between two pages of one    *)
(* reader posts come and go.  A page is asked for with a limit and the     *)
(* cursor of the page before, and fetches one row more than it shows to    *)
(* learn whether there are more.                                           *)
(***************************************************************************)
EXTENDS Integers, FiniteSets

CONSTANTS
    Notes,        \* posts
    Rooms, Circles,   \* topic rooms and groups
    Fans,         \* users of the node, which are the authors too
    WrittenBy,    \* WrittenBy[p]: the author
    StampedAt,    \* StampedAt[p]: created_at, as its author set it
    Emojis,
    PageCap,      \* rows that a query shows at most (200)
    Limits,       \* limits that callers ask for
    NoCursor,
    LastMoment    \* bound on the clock

ASSUME SpacesAssumption ==
    /\ PageCap \in Nat /\ Limits \subseteq Nat /\ NoCursor \notin Int
    /\ StampedAt \in [Notes -> Nat]

VARIABLES
    moment,        \* now_secs()
    noteRows,      \* rows of posts: post, tomb
    rooms,         \* topic_rooms
    subscriptions, \* topic_subscriptions: <<room, user>>
    placed,        \* topic_posts and group_posts: place, post, created
    reactions,     \* post, by, emoji
    mentions,      \* post_mentions: <<post, user>>
    reader         \* a caller that reads a place page after page

spaceTables == <<moment, noteRows, rooms, subscriptions, placed, reactions, mentions>>
spaceVars == <<spaceTables, reader>>

----------------------------------------------------------------------------
\* Queries.

LiveNotes(rows) == {n.post : n \in {k \in rows : ~k.tomb}}

Row(p, at) == [post |-> p, created |-> at]

TopicRows(t, rows, links) ==
    {Row(l.post, l.created) : l \in {k \in links : k.place = t /\ k.post \in LiveNotes(rows)}}

\* The rows are not joined with posts.
GroupRows(g, links) == {Row(l.post, l.created) : l \in {k \in links : k.place = g}}

ProfileRows(owner, rows) ==
    {Row(p, StampedAt[p]) : p \in {q \in LiveNotes(rows) : WrittenBy[q] = owner}}

Places == Rooms \cup Circles \cup Fans

RowsOf(pl, rows, links) ==
    IF pl \in Rooms THEN TopicRows(pl, rows, links)
    ELSE IF pl \in Circles THEN GroupRows(pl, links)
    ELSE ProfileRows(pl, rows)

Visible(pl) == RowsOf(pl, noteRows, placed)

\* ORDER BY created_at DESC LIMIT n; rows of one second come in any order.
Newest(rows, n) ==
    {s \in SUBSET rows :
        /\ s = rows \/ Cardinality(s) = n
        /\ Cardinality(s) <= n
        /\ \A x \in s, y \in rows \ s : x.created >= y.created}

\* Mutant: the cursor's own second is left out with one more.
MutOlder(rows, cursor) == {r \in rows : cursor = NoCursor \/ r.created + 1 < cursor}

Older(rows, cursor) == {r \in rows : cursor = NoCursor \/ r.created < cursor}

FetchLimit(limit) == (IF limit < PageCap THEN limit ELSE PageCap) + 1

\* items.last()
LastSecond(items) == CHOOSE k \in {r.created : r \in items} : \A r \in items : k <= r.created

\* What is made of the fetched rows: the page and next_cursor.
Pages(fetched, limit) ==
    IF Cardinality(fetched) > limit
    THEN {[items |-> s, next_cursor |-> IF s = {} THEN NoCursor ELSE LastSecond(s)] :
             s \in Newest(fetched, limit)}
    ELSE {[items |-> fetched, next_cursor |-> NoCursor]}

GetPostMentions(p) == {m[2] : m \in {k \in mentions : k[1] = p}}

ListTopics == rooms

GetReactions(p, u) ==
    [counts |-> [e \in Emojis |-> Cardinality({r \in reactions : r.post = p /\ r.emoji = e})],
     my_emoji |-> {r.emoji : r \in {k \in reactions : k.post = p /\ k.by = u}}]

----------------------------------------------------------------------------
NoReader == [place |-> NoCursor, limit |-> 0, cursor |-> NoCursor, shown |-> {},
             state |-> "closed",
             since |-> {}, ever |-> {}]

SpacesInit ==
    /\ moment = 0
    /\ noteRows = {} /\ rooms = {} /\ subscriptions = {} /\ placed = {}
    /\ reactions = {} /\ mentions = {}
    /\ reader = NoReader

\* What the history of the reader makes of a step: of the rows that were there
\* when the reading began those that still are, and the rows there were meanwhile.
Noted ==
    reader' = IF reader.state = "closed" THEN reader
              ELSE LET now == RowsOf(reader.place, noteRows', placed')
                   IN [reader EXCEPT !.since = @ \cap now, !.ever = @ \cup now]

CreateTopic(u, t) ==
    /\ t \notin rooms
    /\ rooms' = rooms \cup {t}
    /\ subscriptions' = subscriptions \cup {<<t, u>>}
    /\ UNCHANGED <<moment, noteRows, placed, reactions, mentions>> /\ UNCHANGED reader

JoinTopic(u, t) ==
    /\ t \in rooms
    /\ subscriptions' = subscriptions \cup {<<t, u>>}
    /\ UNCHANGED <<moment, noteRows, rooms, placed, reactions, mentions>> /\ UNCHANGED reader

LeaveTopic(u, t) ==
    /\ subscriptions' = subscriptions \ {<<t, u>>}
    /\ UNCHANGED <<moment, noteRows, rooms, placed, reactions, mentions>> /\ UNCHANGED reader

\* INSERT OR IGNORE, with (place, content_hash) as the key.  Neither the room nor
\* the post has to exist; a hash in either form is stored in the form of posts.
Placing(pl, p) ==
    /\ placed' = IF \E l \in placed : l.place = pl /\ l.post = p THEN placed
                 ELSE placed \cup {[place |-> pl, post |-> p, created |-> moment]}
    /\ UNCHANGED <<moment, noteRows, rooms, subscriptions, reactions, mentions>>
    /\ Noted

PostToTopic(t, p) == t \in Rooms /\ Placing(t, p)
PostToCircle(g, p) == g \in Circles /\ Placing(g, p)

\* delete_group takes the posts of the group along.
DeleteCircle(g) ==
    /\ placed' = {l \in placed : l.place # g}
    /\ UNCHANGED <<moment, noteRows, rooms, subscriptions, reactions, mentions>>
    /\ Noted

\* Upsert on (post_hash, reactor_pubkey), with "add"; the post need not exist.
React(u, p, e) ==
    /\ reactions' = {r \in reactions : ~(r.post = p /\ r.by = u)}
                        \cup {[post |-> p, by |-> u, emoji |-> e]}
    /\ UNCHANGED <<moment, noteRows, rooms, subscriptions, placed, mentions>> /\ UNCHANGED reader

\* "remove"
Unreact(u, p) ==
    /\ reactions' = {r \in reactions : ~(r.post = p /\ r.by = u)}
    /\ UNCHANGED <<moment, noteRows, rooms, subscriptions, placed, mentions>> /\ UNCHANGED reader

\* INSERT OR IGNORE; the content hash refers to posts.
StoreMention(p, u) ==
    /\ \E n \in noteRows : n.post = p
    /\ mentions' = mentions \cup {<<p, u>>}
    /\ UNCHANGED <<moment, noteRows, rooms, subscriptions, placed, reactions>> /\ UNCHANGED reader

----------------------------------------------------------------------------
\* What other services do to the rows that are read here.

StoreNote(p) ==
    /\ \A n \in noteRows : n.post # p
    /\ noteRows' = noteRows \cup {[post |-> p, tomb |-> FALSE]}
    /\ UNCHANGED <<moment, rooms, subscriptions, placed, reactions, mentions>>
    /\ Noted

HideNote(n) ==
    /\ ~n.tomb
    /\ noteRows' = (noteRows \ {n}) \cup {[n EXCEPT !.tomb = TRUE]}
    /\ UNCHANGED <<moment, rooms, subscriptions, placed, reactions, mentions>>
    /\ Noted

\* The purge of a tombstone, with the mentions (ON DELETE CASCADE); the links and
\* the reactions stay.
PurgeNote(n) ==
    /\ n.tomb
    /\ noteRows' = noteRows \ {n}
    /\ mentions' = {m \in mentions : m[1] # n.post}
    /\ UNCHANGED <<moment, rooms, subscriptions, placed, reactions>>
    /\ Noted

MomentPasses ==
    /\ moment < LastMoment /\ moment' = moment + 1
    /\ UNCHANGED <<noteRows, rooms, subscriptions, placed, reactions, mentions>> /\ UNCHANGED reader

----------------------------------------------------------------------------
\* A caller begins to read a place ...
OpenPlace(pl, limit) ==
    /\ reader.state = "closed"
    /\ reader' = [NoReader EXCEPT !.place = pl, !.limit = limit, !.state = "open",
                                  !.since = Visible(pl), !.ever = Visible(pl)]
    /\ UNCHANGED spaceTables

\* ... and asks with the last next_cursor until there is none: one call of
\* get_topic_feed, get_group_feed or profile_feed.
ReadPage ==
    /\ reader.state = "open"
    /\ \E fetched \in Newest(Older(Visible(reader.place), reader.cursor), FetchLimit(reader.limit)) :
         \E page \in Pages(fetched, reader.limit) :
           reader' = [reader EXCEPT !.shown = @ \cup page.items, !.cursor = page.next_cursor,
                        !.state = IF page.next_cursor = NoCursor THEN "done" ELSE "open"]
    /\ UNCHANGED spaceTables

\* topics.*, posts.react, and the rest.
TopicsApi ==
    \E u \in Fans : \E t \in Rooms :
       CreateTopic(u, t) \/ JoinTopic(u, t) \/ LeaveTopic(u, t) \/ \E p \in Notes : PostToTopic(t, p)

ReactionsApi ==
    \E u \in Fans : \E p \in Notes : Unreact(u, p) \/ \E e \in Emojis : React(u, p, e)

SpacesNext ==
    \/ TopicsApi \/ ReactionsApi
    \/ \E g \in Circles : DeleteCircle(g) \/ \E p \in Notes : PostToCircle(g, p)
    \/ \E p \in Notes : StoreNote(p) \/ \E u \in Fans : StoreMention(p, u)
    \/ \E n \in noteRows : HideNote(n) \/ PurgeNote(n)
    \/ MomentPasses
    \/ \E pl \in Places : \E limit \in Limits : OpenPlace(pl, limit)
    \/ ReadPage

SpacesSpec == SpacesInit /\ [][SpacesNext]_spaceVars

----------------------------------------------------------------------------
\* A reader who has come to a page without next_cursor, "the last page" (feed.rs),
\* was shown every row that the place had ever since the reading began, whatever
\* was posted, hidden or deleted between the pages.  Excepted: rows of the second
\* of another row of the place, because the cursor is created_at alone, which the
\* comment on FeedCursor denies; and callers whose limit is over the cap, who get
\* one row more than the cap and has_more = false, or zero, who get no cursor.
PagesComplete ==
    reader.state = "done" /\ reader.limit \in 1 .. PageCap =>
       \A r \in reader.since \ reader.shown :
          \E w \in reader.ever \ {r} : w.created = r.created

\* However a user reacts, changes and takes back, get_reactions never gives two
\* emojis as the user's own, nor counts one user twice (reaction.rs, "one reaction
\* per user per post").
OneReaction ==
    \A r, s \in reactions :
       r.post = s.post /\ r.by = s.by => r = s /\ GetReactions(r.post, r.by).my_emoji = {r.emoji}

\* No subscription to a room that list_topics does not give, and no mention in a
\* post without a row, though rooms are joined by their identifier and tombstones
\* purged under the mentions.
NoOrphans ==
    /\ \A s \in subscriptions : s[1] \in ListTopics
    /\ \A p \in Notes : GetPostMentions(p) # {} => \E n \in noteRows : n.post = p
=============================================================================
