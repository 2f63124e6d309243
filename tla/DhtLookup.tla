------------------------------ MODULE DhtLookup ------------------------------
(***************************************************************************)
(* The Kademlia part of ephemera-dht: the routing table with its k-buckets *)
(* (routing.rs) and one iterative lookup (query.rs).                       *)
(*                                                                         *)
(* The crate has no driver for either. The one modelled is the least that  *)
(* their comments ask for: every node heard from is inserted; a full       *)
(* bucket has its oldest entry pinged, which is evicted if it stays        *)
(* silent; a lookup asks what next_to_query returns, may give up waiting   *)
(* for an answer and then asks again, and stops once it is finished.       *)
(***************************************************************************)
EXTENDS Integers, Sequences, FiniteSets

CONSTANTS
    Bits,       \* bits of an identifier (256)
    Ids,        \* identifiers of nodes
    LocalId,    \* the local one
    Target,     \* the key that is looked up
    XorDistance(_, _),  \* exclusive or of two identifiers, as a number
    K, Alpha,   \* of DhtConfig
    Answers,    \* sets of nodes that an answer may name
    MaxSilent   \* bound: pings and queries that stay unanswered

ASSUME LookupAssumption ==
    /\ K \in Nat \ {0} /\ Alpha \in Nat \ {0} /\ IsFiniteSet(Ids)
    /\ Answers \subseteq SUBSET Ids
    /\ \A i, j \in Ids : XorDistance(i, j) \in Nat /\ (XorDistance(i, j) = 0 <=> i = j)
    /\ \A i, j \in Ids : XorDistance(i, Target) \in Nat /\ (XorDistance(i, Target) = XorDistance(j, Target) => i = j)

VARIABLES
    buckets,      \* buckets[b]: entries and replacement_cache, oldest first
    pings,        \* <<bucket, node>>: pings out
    silent,       \* counter of the bound
    recached,     \* history: a node was put into a cache that had it already
    started,      \* the lookup was created
    seeds,        \* history: the nodes it started from
    candidates, queried, finished,
    found_value,  \* "none", "some" or "taken"
    asked,        \* nodes asked and waited for
    told          \* history: nodes named by the answers processed

tableVars == <<buckets, pings, recached>>
queryVars == <<started, seeds, candidates, queried, finished, found_value, asked, told>>
lookupVars == <<tableVars, queryVars, silent>>

Elements(s) == {s[k] : k \in DOMAIN s}

\* position and remove, then push_back
MoveToBack(s, i) ==
    LET pos == CHOOSE k \in DOMAIN s : s[k] = i
    IN  Append(SubSeq(s, 1, pos - 1) \o SubSeq(s, pos + 1, Len(s)), i)

PopFront(s) == SubSeq(s, 2, Len(s))
PopBack(s) == SubSeq(s, 1, Len(s) - 1)

----------------------------------------------------------------------------
\* Routing table.

\* leading_zeros_distance: the first bit in which the identifiers differ.
BucketIndex(i) ==
    CHOOSE b \in 0 .. Bits - 1 : 2 ^ (Bits - 1 - b) <= XorDistance(LocalId, i) /\ XorDistance(LocalId, i) < 2 ^ (Bits - b)

\* The n nodes of a set that are closest to the target.
Closest(nodes, n) ==
    {i \in nodes : Cardinality({j \in nodes : XorDistance(j, Target) < XorDistance(i, Target)}) < n}

\* closest: the first K entries of the table by their distance; a node with two
\* entries takes two places.
Places == {p \in (DOMAIN buckets) \X (1 .. K) : p[2] <= Len(buckets[p[1]].entries)}
Distance(p) == XorDistance(buckets[p[1]].entries[p[2]], Target)
ClosestEntries ==
    {buckets[p[1]].entries[p[2]] :
        p \in {q \in Places : Cardinality({r \in Places : Distance(r) < Distance(q)}) < K}}

\* Mutant: a known node is appended without being taken from its place.
MutInsert(i) ==
    LET b == BucketIndex(i)
        e == buckets[b].entries
    IN
    /\ i # LocalId
    /\ i \in Elements(e) \/ Len(e) < K
    /\ buckets' = [buckets EXCEPT ![b].entries = Append(@, i)]
    /\ UNCHANGED <<pings, recached, queryVars, silent>>

\* RoutingTable::insert, KBucket::insert. Called for every node heard from.
Insert(i) ==
    LET b == BucketIndex(i)
        e == buckets[b].entries
        c == buckets[b].cache
    IN
    /\ i # LocalId
    /\ IF i \in Elements(e)
       THEN /\ buckets' = [buckets EXCEPT ![b].entries = MoveToBack(@, i)]
            /\ UNCHANGED <<pings, recached>>
       ELSE IF Len(e) < K
       THEN /\ buckets' = [buckets EXCEPT ![b].entries = Append(@, i)]
            /\ UNCHANGED <<pings, recached>>
       ELSE /\ buckets' = [buckets EXCEPT ![b].cache = Append(IF Len(c) >= K THEN PopFront(c) ELSE c, i)]
            /\ pings' = pings \cup {<<b, Head(e)>>}
            /\ recached' = (recached \/ i \in Elements(c))
    /\ UNCHANGED <<queryVars, silent>>

\* A ping stays unanswered: KBucket::evict_oldest. It evicts what is oldest now.
EvictOldest(p) ==
    LET b == p[1] IN
    /\ silent < MaxSilent /\ silent' = silent + 1
    /\ pings' = pings \ {p}
    /\ LET e == PopFront(buckets[b].entries)
           c == buckets[b].cache
       IN  buckets' = [buckets EXCEPT
              ![b] = IF c = <<>> THEN [entries |-> e, cache |-> c]
                     ELSE [entries |-> Append(e, c[Len(c)]), cache |-> PopBack(c)]]
    /\ UNCHANGED <<recached, queryVars>>

\* A ping is answered, which is one more time the node is heard from.
Ponged(p) ==
    /\ pings' = pings \ {p}
    /\ IF p[2] \in Elements(buckets[p[1]].entries)
       THEN buckets' = [buckets EXCEPT ![p[1]].entries = MoveToBack(@, p[2])]
       ELSE UNCHANGED buckets
    /\ UNCHANGED <<recached, queryVars, silent>>

----------------------------------------------------------------------------
\* Lookup.

\* DhtQuery::new
NewQuery ==
    /\ ~started /\ started' = TRUE
    /\ seeds' = ClosestEntries /\ candidates' = ClosestEntries
    /\ UNCHANGED <<tableVars, silent, queried, finished, found_value, asked, told>>

\* next_to_query: the Alpha closest candidates not queried yet.
NextToQuery == Closest(candidates \ queried, Alpha)

Ask ==
    /\ started /\ ~finished /\ ~(NextToQuery \subseteq asked)
    /\ asked' = asked \cup NextToQuery
    /\ UNCHANGED <<tableVars, silent, started, seeds, candidates, queried, finished, found_value, told>>

\* Mutant: a node that is named again is asked again.
MutProcessAgain(from, closer) ==
    /\ queried' = (queried \cup {from}) \ closer
    /\ candidates' = candidates \cup (closer \ {LocalId})
    /\ finished' = (finished \/ NextToQuery' = {})

\* process_find_node_response
Process(from, closer) ==
    /\ queried' = queried \cup {from}
    /\ candidates' = candidates \cup (closer \ {LocalId})
    /\ finished' = (finished \/ NextToQuery' = {})

ProcessFindNodeResponse(from, closer) ==
    /\ from \in asked /\ ~finished
    /\ Process(from, closer)
    /\ asked' = asked \ {from} /\ told' = told \cup closer
    /\ UNCHANGED <<tableVars, silent, started, seeds, found_value>>

\* set_found_value: the node has the record.
SetFoundValue(from) ==
    /\ from \in asked /\ ~finished
    /\ found_value' = "some" /\ finished' = TRUE
    /\ asked' = asked \ {from}
    /\ UNCHANGED <<tableVars, silent, started, seeds, candidates, queried, told>>

TakeFoundValue ==
    /\ found_value = "some" /\ found_value' = "taken"
    /\ UNCHANGED <<tableVars, silent, started, seeds, candidates, queried, finished, asked, told>>

\* No answer in time. The query has no notion of it: the node is asked again.
AnswerLost(from) ==
    /\ from \in asked /\ silent < MaxSilent /\ silent' = silent + 1
    /\ asked' = asked \ {from}
    /\ UNCHANGED <<tableVars, started, seeds, candidates, queried, finished, found_value, told>>

----------------------------------------------------------------------------
LookupInit ==
    /\ buckets = [b \in 0 .. Bits - 1 |-> [entries |-> <<>>, cache |-> <<>>]]
    /\ pings = {} /\ silent = 0 /\ recached = FALSE
    /\ started = FALSE /\ seeds = {} /\ candidates = {} /\ queried = {}
    /\ finished = FALSE /\ found_value = "none" /\ asked = {} /\ told = {}

TableNext ==
    \/ \E i \in Ids : Insert(i)
    \/ \E p \in pings : EvictOldest(p) \/ Ponged(p)

QueryNext ==
    \/ NewQuery \/ Ask \/ TakeFoundValue
    \/ \E from \in asked :
          \/ \E closer \in Answers : ProcessFindNodeResponse(from, closer)
          \/ SetFoundValue(from) \/ AnswerLost(from)

LookupNext == TableNext \/ QueryNext

LookupSpec == LookupInit /\ [][LookupNext]_lookupVars

----------------------------------------------------------------------------

\* A node has one entry in the table, in the bucket of its distance, which is
\* never over its size; a node that waits to replace another has no entry.
\* Excepted: a node was put into a cache that had it (insert does not look), which
\* later evictions can promote twice.
NoNodeTwice ==
    \A b \in DOMAIN buckets :
       LET e == buckets[b].entries
           c == buckets[b].cache
       IN
       /\ Len(e) <= K /\ Len(c) <= K
       /\ \A i \in Elements(e) \cup Elements(c) : BucketIndex(i) = b
       /\ ~recached => /\ Cardinality(Elements(e)) = Len(e)
                       /\ Elements(e) \cap Elements(c) = {}

\* A lookup that ends without the value has asked every node it was told of and
\* every node it started from, so its K closest results are the closest of all of
\* them: answers that arrive in any order, and give-ups, do not end it early.
LookupComplete ==
    finished /\ found_value = "none" =>
       LET heard == seeds \cup (told \ {LocalId}) IN
       heard \subseteq queried /\ Closest(candidates, K) = Closest(heard, K)

\* A lookup that has not ended has a node left to ask; otherwise nothing would end
\* it. Excepted: the one that starts with an empty table, which is never finished.
LookupCanGoOn == started /\ ~finished => seeds = {} \/ NextToQuery # {}

\* When nodes answer, a lookup with a node to start from ends, after any number of
\* new names and of answers that were lost.
LookupEnds == started /\ seeds # {} ~> finished
=============================================================================
