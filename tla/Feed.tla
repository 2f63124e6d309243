-------------------------------- MODULE Feed --------------------------------
(***************************************************************************)
(* The feed of posts, from the table of the node to the page of the client *)
(*   - the queries behind feed.connections and feed.discover, one answer   *)
(*     at a time under the mutex of the database, with the cursor that the *)
(*     client sends back; locked, the node answers from all posts and the  *)
(*     cursor is a rowid                                                   *)
(*   - views/feed.js: the first page, scrolling, refreshing and leaving,   *)
(*     and answers that arrive late                                        *)
(* The client has one element for all views (main-content), which a view   *)
(* empties when it begins; an answer is applied to it whatever view is     *)
(* there by then.                                                          *)
(***************************************************************************)
EXTENDS Integers, Sequences, FiniteSets

CONSTANTS
    FeedPosts,    \* posts
    FeedAuthors,  \* authors other than Me
    Me,
    AuthorOf,     \* AuthorOf[p]
    CreatedAt,    \* CreatedAt[p], in seconds, as its author set it
    PageSize,     \* rows of a page (50 in feed.js)
    MaxRenders,   \* bound: renders of the feed
    MaxChanges    \* bound: changes of the social graph, locks and failed calls

\* A page has room for a post, and no post is of the first second of 1970, which a
\* cursor could not name.
ASSUME FeedAssumption ==
    /\ PageSize \in Nat \ {0}
    /\ AuthorOf \in [FeedPosts -> FeedAuthors \cup {Me}]
    /\ CreatedAt \in [FeedPosts -> Nat \ {0}]
    /\ Me \notin FeedAuthors

VARIABLES
    table,        \* rows of posts: post, created, rowid, tomb
    connectedTo,  \* connections with status connected
    excluded,     \* authors blocked or muted
    unlocked,     \* the node has the signing key
    route,        \* the route of the client: feed or another
    page,         \* main-content: cards, end marks, sentinels in it
    feedCursor,   \* 0 for null
    isLoadingMore,
    observer,     \* the sentinel that is observed, 0 for none
    apiCalls,     \* calls of the client that are not answered or not applied
    renders,      \* how often the feed was rendered
    changes,
    crossed,      \* history: a view began while a call was out
    mixed,        \* history: locked or unlocked since the feed was rendered
    thinned,      \* history: an excluded author was connected meanwhile
    steady        \* history: posts visible ever since the feed was rendered

tableVars == <<table, connectedTo, excluded, unlocked>>
clientVars == <<route, page, feedCursor, isLoadingMore, observer, apiCalls, renders>>
feedVars == <<tableVars, clientVars, changes, crossed, mixed, thinned, steady>>

----------------------------------------------------------------------------
\* The queries.

Live == {r \in table : ~r.tomb}

\* The rows in the order of the column, highest first; equal ones in any order.
Ordered(rows, column) ==
    {s \in [1 .. Cardinality(rows) -> rows] :
        \A i, j \in DOMAIN s : i < j => s[i] # s[j] /\ s[i][column] >= s[j][column]}

Limit(s, n) == SubSeq(s, 1, IF Len(s) < n THEN Len(s) ELSE n)

Before(value, cursor) == cursor = 0 \/ value < cursor

PostsOf(s) == [i \in DOMAIN s |-> s[i].post]

\* The rows whose author is not skipped: the k-th of them has k of them up to it.
Skipping(s, skip) ==
    LET kept == {i \in DOMAIN s : AuthorOf[s[i].post] \notin skip}
        Nth(k) == CHOOSE i \in kept : Cardinality({j \in kept : j <= i}) = k
    IN  [k \in 1 .. Cardinality(kept) |-> s[Nth(k)]]

\* Mutant: no extra row is fetched.
MutFeedPage(rows, skip) ==
    {LET items == Skipping(Limit(s, PageSize), skip)
         has_more == Len(items) > PageSize
     IN  [posts |-> PostsOf(items), has_more |-> has_more, cursor |-> 0] :
       s \in Ordered(rows, "created")}

\* One row more than the page is fetched; excluded authors are skipped after.
FeedPage(rows, skip) ==
    {LET items == Skipping(Limit(s, PageSize + 1), skip)
         has_more == Len(items) > PageSize
         shown == Limit(items, PageSize)
     IN  [posts |-> PostsOf(shown), has_more |-> has_more,
          cursor |-> IF has_more THEN shown[Len(shown)].created ELSE 0] :
       s \in Ordered(rows, "created")}

ConnectionsRows(cursor) ==
    {r \in Live : AuthorOf[r.post] \in connectedTo \cup {Me} /\ Before(r.created, cursor)}

ConnectionsFeed(cursor) == FeedPage(ConnectionsRows(cursor), excluded)

DiscoverRows == {r \in Live : AuthorOf[r.post] \notin {Me} \cup connectedTo \cup excluded}

ConnectionsUnfiltered(cursor) ==
    {LET rows == Limit(s, PageSize)
     IN  [posts |-> PostsOf(rows), has_more |-> Len(rows) = PageSize,
          cursor |-> IF rows = <<>> THEN 0 ELSE rows[Len(rows)].rowid] :
       s \in Ordered({r \in Live : Before(r.rowid, cursor)}, "rowid")}

Connections(cursor) ==
    IF unlocked THEN ConnectionsFeed(cursor) ELSE ConnectionsUnfiltered(cursor)

\* The posts that the feed is about.
Shown ==
    IF unlocked
    THEN {r.post : r \in {q \in ConnectionsRows(0) : AuthorOf[q.post] \notin excluded}}
    ELSE {r.post : r \in Live}

----------------------------------------------------------------------------
Blank(view) == [view |-> view, cards |-> <<>>, marks |-> {}, sentinels |-> {}]

FeedInit ==
    /\ table = {} /\ connectedTo = FeedAuthors /\ excluded = {} /\ unlocked = TRUE
    /\ route = "other" /\ page = Blank("other")
    /\ feedCursor = 0 /\ isLoadingMore = FALSE /\ observer = 0
    /\ apiCalls = {} /\ renders = 0 /\ changes = 0
    /\ crossed = FALSE /\ mixed = FALSE /\ thinned = FALSE /\ steady = {}

\* What the history variables make of a step of the node.
Notes ==
    /\ steady' = steady \cap Shown'
    /\ mixed' = (mixed \/ unlocked' # unlocked)
    /\ thinned' = (thinned \/ connectedTo' \cap excluded' # {})
    /\ UNCHANGED <<clientVars, crossed>>

\* create or the ingest of a post; created_at is the author's and may be old.
StorePost(p) ==
    /\ \A r \in table : r.post # p
    /\ table' = table \cup {[post |-> p, created |-> CreatedAt[p], rowid |-> Cardinality(table) + 1,
                             tomb |-> FALSE]}
    /\ UNCHANGED <<connectedTo, excluded, unlocked, changes>> /\ Notes

\* A deletion, a tombstone or the sweep.
HidePost(r) ==
    /\ ~r.tomb
    /\ table' = (table \ {r}) \cup {[r EXCEPT !.tomb = TRUE]}
    /\ UNCHANGED <<connectedTo, excluded, unlocked, changes>> /\ Notes

ChangeGraph ==
    /\ changes < MaxChanges /\ changes' = changes + 1
    /\ \E a \in FeedAuthors :
          \/ connectedTo' = (IF a \in connectedTo THEN connectedTo \ {a} ELSE connectedTo \cup {a})
             /\ UNCHANGED excluded
          \/ excluded' = (IF a \in excluded THEN excluded \ {a} ELSE excluded \cup {a})
             /\ UNCHANGED connectedTo
    /\ UNCHANGED <<table, unlocked>> /\ Notes

ChangeLock ==
    /\ changes < MaxChanges /\ changes' = changes + 1
    /\ unlocked' = ~unlocked
    /\ UNCHANGED <<table, connectedTo, excluded>> /\ Notes

----------------------------------------------------------------------------
\* views/feed.js.

NoAnswer == [posts |-> <<>>, has_more |-> FALSE, cursor |-> 0]

Call(kind, id, after) ==
    [kind |-> kind, id |-> id, after |-> after, state |-> "out", answer |-> NoAnswer]

\* Arriving at the route, the refresh button, and the button to retry.
RenderFeed ==
    /\ renders < MaxRenders /\ renders' = renders + 1
    /\ route' = "feed" /\ page' = Blank("feed")
    /\ feedCursor' = 0 /\ isLoadingMore' = FALSE /\ observer' = 0
    /\ apiCalls' = apiCalls \cup {Call("first", renders + 1, 0)}
    /\ crossed' = (crossed \/ apiCalls # {})
    /\ mixed' = FALSE /\ steady' = Shown
    /\ thinned' = (connectedTo \cap excluded # {})
    /\ UNCHANGED <<tableVars, changes>>

LeaveFeed ==
    /\ route = "feed"
    /\ route' = "other" /\ page' = Blank("other")
    /\ observer' = 0
    /\ crossed' = (crossed \/ apiCalls # {})
    /\ UNCHANGED <<tableVars, feedCursor, isLoadingMore, apiCalls, renders, changes,
                   mixed, thinned, steady>>

Answer(q) ==
    /\ q.state = "out"
    /\ \E a \in Connections(q.after) :
          apiCalls' = (apiCalls \ {q}) \cup {[q EXCEPT !.state = "ok", !.answer = a]}
    /\ UNCHANGED <<tableVars, route, page, feedCursor, isLoadingMore, observer, renders,
                   changes, crossed, mixed, thinned, steady>>

CallFails(q) ==
    /\ q.state = "out" /\ changes < MaxChanges /\ changes' = changes + 1
    /\ apiCalls' = (apiCalls \ {q}) \cup {[q EXCEPT !.state = "error"]}
    /\ UNCHANGED <<tableVars, route, page, feedCursor, isLoadingMore, observer, renders,
                   crossed, mixed, thinned, steady>>

Apply(q) ==
    /\ apiCalls' = apiCalls \ {q}
    /\ UNCHANGED <<tableVars, route, renders, changes, crossed, mixed, thinned, steady>>

\* The rest of renderFeed, after its call.
ShowFirst(q) ==
    /\ q.kind = "first" /\ q.state = "ok"
    /\ IF q.answer.posts = <<>>
       THEN page' = [page EXCEPT !.marks = @ \cup {"empty"}]
            /\ UNCHANGED <<feedCursor, observer>>
       ELSE LET more == q.answer.has_more /\ q.answer.cursor # 0 IN
            /\ feedCursor' = q.answer.cursor
            /\ page' = [page EXCEPT !.cards = @ \o q.answer.posts,
                          !.marks = IF more THEN @ ELSE @ \cup {"caught up"},
                          !.sentinels = IF more THEN @ \cup {q.id} ELSE @]
            /\ observer' = IF more THEN q.id ELSE observer
    /\ UNCHANGED isLoadingMore
    /\ Apply(q)

ShowError(q) ==
    /\ q.kind = "first" /\ q.state = "error"
    /\ page' = [page EXCEPT !.marks = @ \cup {"error"}]
    /\ UNCHANGED <<feedCursor, observer, isLoadingMore>>
    /\ Apply(q)

\* The sentinel comes into view.
LoadMorePosts ==
    /\ observer \in page.sentinels
    /\ ~isLoadingMore /\ feedCursor # 0
    /\ isLoadingMore' = TRUE
    /\ apiCalls' = apiCalls \cup {Call("more", observer, feedCursor)}
    /\ UNCHANGED <<tableVars, route, page, feedCursor, observer, renders, changes,
                   crossed, mixed, thinned, steady>>

\* The cursor is taken first. insertBefore throws when the sentinel is gone.
ShowMore(q) ==
    LET a == q.answer
        last == ~a.has_more \/ a.cursor = 0
        lost == a.posts # <<>> /\ q.id \notin page.sentinels
    IN
    /\ q.kind = "more" /\ q.state = "ok"
    /\ feedCursor' = a.cursor
    /\ page' = IF lost THEN page
               ELSE [page EXCEPT !.cards = @ \o a.posts,
                       !.marks = IF last THEN @ \cup {"caught up"} ELSE @,
                       !.sentinels = IF last THEN @ \ {q.id} ELSE @]
    /\ observer' = IF last /\ ~lost THEN 0 ELSE observer
    /\ isLoadingMore' = FALSE
    /\ Apply(q)

MoreFails(q) ==
    /\ q.kind = "more" /\ q.state = "error"
    /\ isLoadingMore' = FALSE
    /\ UNCHANGED <<page, feedCursor, observer>>
    /\ Apply(q)

FeedNext ==
    \/ \E p \in FeedPosts : StorePost(p)
    \/ \E r \in table : HidePost(r)
    \/ ChangeGraph \/ ChangeLock
    \/ RenderFeed \/ LeaveFeed \/ LoadMorePosts
    \/ \E q \in apiCalls :
          \/ Answer(q) \/ CallFails(q)
          \/ ShowFirst(q) \/ ShowError(q) \/ ShowMore(q) \/ MoreFails(q)

FeedSpec == FeedInit /\ [][FeedNext]_feedVars

----------------------------------------------------------------------------
OnFeed == page.view = "feed" /\ ~crossed /\ ~mixed

\* When the client says that the reader has caught up, every post that the feed
\* was to show since it was rendered has a card. Excepted: a view that began while a
\* call was out, whose answer is put into whatever is shown; a node locked or unlocked
\* since; posts of the same second as another one, because the cursor is
\* created_at alone; and pages from which excluded authors were taken after the
\* limit, because has_more is computed from what is left.
CaughtUpIsComplete ==
    OnFeed /\ "caught up" \in page.marks =>
       \A p \in steady :
          \/ \E i \in DOMAIN page.cards : page.cards[i] = p
          \/ unlocked /\ thinned
          \/ /\ unlocked
             /\ \E r, s \in table : r # s /\ r.post = p /\ r.created = s.created

=============================================================================
