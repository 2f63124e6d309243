----------------------------- MODULE Admission -----------------------------
(***************************************************************************)
(* What lets a post in: the checks that PostService::create makes on a     *)
(* local post and gossip_ingest_loop on one of a peer, in order, each      *)
(* under the lock of its own structure: the token bucket of the author,    *)
(* for media the author's reputation, the window of recent fingerprints,   *)
(* and the text filter.  The node has two gates with a RateLimiter and a   *)
(* FingerprintStore each, "create", through which several calls go at      *)
(* once, and "ingest".                                                     *)
(* Tokens are counted in units of which a tick of the clock brings         *)
(* RefillRate and an action costs TokenUnits, so that the buckets of the   *)
(* code, which hold fractions of a token, are whole numbers.               *)
(***************************************************************************)
EXTENDS Integers, Sequences, FiniteSets

CONSTANTS
    Calls,        \* handlers of posts.create
    Authors,      \* identities that post
    Bodies,       \* Bodies[b]: the tokens of a text
    TokenBits,    \* TokenBits[w]: the bits set in the hash of token w
    BitPositions, \* 64 in the code
    NearDistance, \* NEAR_DUPLICATE_THRESHOLD
    WindowSize,   \* MAX_RECENT_FINGERPRINTS
    Capacity,     \* RateLimitConfig::capacity
    TokenUnits, RefillRate,
    LastTick,     \* bound: ticks of the clock
    MaxPosts      \* bound: posts that are tried

ASSUME AdmissionAssumption ==
    /\ Capacity \in Nat /\ TokenUnits \in Nat /\ RefillRate \in Nat
    /\ WindowSize \in Nat \ {0}

VARIABLES
    clock,
    bucket,       \* bucket[g][a]: [units, last_refill]
    recent,       \* recent[g]: FingerprintStore::recent
    call,         \* call[c]: a handler's place in the checks
    tried,
    spent,        \* history: spent[g][a]: when actions were allowed
    seen          \* history: seen[g]: every fingerprint with the verdict on it

admissionVars == <<clock, bucket, recent, call, tried, spent, seen>>

Gates == {"create", "ingest"}
Handlers == Calls \cup {"ingest"}
GateOf(c) == IF c = "ingest" THEN "ingest" ELSE "create"

----------------------------------------------------------------------------
\* The token bucket.

Full == Capacity * TokenUnits

Smaller(x, y) == IF x < y THEN x ELSE y

\* Mutant: the bucket fills without end while nobody acts.
MutRefill(b) ==
    [units |-> b.units + (clock - b.last_refill) * RefillRate, last_refill |-> clock]

Refill(b) ==
    [units |-> Smaller(b.units + (clock - b.last_refill) * RefillRate, Full),
     last_refill |-> clock]

Allows(b) == Refill(b).units >= TokenUnits

TryConsume(b) ==
    IF Allows(b) THEN [Refill(b) EXCEPT !.units = @ - TokenUnits] ELSE Refill(b)

----------------------------------------------------------------------------
\* Fingerprints.

\* A bit is set when more tokens have it than have it not.
Compute(body) ==
    {i \in BitPositions :
       LET with == {k \in DOMAIN body : i \in TokenBits[body[k]]}
       IN  2 * Cardinality(with) > Len(body)}

HammingDistance(x, y) == Cardinality((x \ y) \cup (y \ x))

NearDuplicate(x, y) == HammingDistance(x, y) <= NearDistance

CheckDuplicate(g, fp) == \E k \in DOMAIN recent[g] : NearDuplicate(fp, recent[g][k])

\* Mutant: makes room one entry too early.
MutRecord(window, fp) ==
    Append(IF Len(window) >= WindowSize - 1 THEN Tail(window) ELSE window, fp)

Record(window, fp) ==
    Append(IF Len(window) >= WindowSize THEN Tail(window) ELSE window, fp)

----------------------------------------------------------------------------
NoCall == [pc |-> "idle"]

AdmissionInit ==
    /\ clock = 0 /\ tried = 0
    /\ bucket = [g \in Gates |-> [a \in Authors |-> [units |-> Full, last_refill |-> 0]]]
    /\ recent = [g \in Gates |-> <<>>]
    /\ call = [c \in Handlers |-> NoCall]
    /\ spent = [g \in Gates |-> [a \in Authors |-> <<>>]]
    /\ seen = [g \in Gates |-> <<>>]

TickClock ==
    /\ clock < LastTick /\ clock' = clock + 1
    /\ UNCHANGED <<bucket, recent, call, tried, spent, seen>>

\* posts.create or posts.reply is called, or a post arrives that validate_post
\* accepts.
Arrives(c, a, b, media) ==
    /\ call[c] = NoCall /\ tried < MaxPosts
    /\ tried' = tried + 1
    /\ call' = [call EXCEPT ![c] = [pc |-> "rate", author |-> a, body |-> b, media |-> media]]
    /\ UNCHANGED <<clock, bucket, recent, spent, seen>>

Passes(c, pc) == call' = [call EXCEPT ![c].pc = pc]
Refuses(c) == call' = [call EXCEPT ![c] = NoCall]

\* RateLimiter::check: a refused call leaves the bucket refilled.
RateCheck(c) ==
    LET g == GateOf(c) a == call[c].author IN
    /\ call[c].pc = "rate"
    /\ bucket' = [bucket EXCEPT ![g][a] = TryConsume(@)]
    /\ IF Allows(bucket[g][a])
       THEN /\ Passes(c, IF g = "create" /\ call[c].media THEN "media" ELSE "spam")
            /\ spent' = [spent EXCEPT ![g][a] = Append(@, clock)]
       ELSE Refuses(c) /\ UNCHANGED spent
    /\ UNCHANGED <<clock, recent, tried, seen>>

\* No code moves a score out of its warming period: AttachPhotos is refused.
MediaGate(c) ==
    /\ call[c].pc = "media"
    /\ Refuses(c)
    /\ UNCHANGED <<clock, bucket, recent, tried, spent, seen>>

\* FingerprintStore::check_and_record, under one lock.
SpamCheck(c) ==
    LET g == GateOf(c)
        fp == Compute(Bodies[call[c].body])
        duplicate == CheckDuplicate(g, fp)
    IN  /\ call[c].pc = "spam"
        /\ recent' = [recent EXCEPT ![g] = Record(@, fp)]
        /\ seen' = [seen EXCEPT ![g] = Append(@, [fp |-> fp, passed |-> ~duplicate])]
        /\ IF duplicate THEN Refuses(c) ELSE Passes(c, "filter")
        /\ UNCHANGED <<clock, bucket, tried, spent>>

\* The post is blocked by the filter, stored, or lost to an error on the way; its
\* token is spent and its fingerprint stays in every case.
FilterAndStore(c) ==
    /\ call[c].pc = "filter"
    /\ call' = [call EXCEPT ![c] = NoCall]
    /\ UNCHANGED <<clock, bucket, recent, tried, spent, seen>>

AdmissionNext ==
    \/ TickClock
    \/ \E c \in Handlers, a \in Authors, b \in DOMAIN Bodies, media \in BOOLEAN :
          Arrives(c, a, b, media)
    \/ \E c \in Handlers : RateCheck(c) \/ MediaGate(c) \/ SpamCheck(c) \/ FilterAndStore(c)

AdmissionSpec == AdmissionInit /\ [][AdmissionNext]_admissionVars

----------------------------------------------------------------------------
\* Of no author does a gate let more actions through than the burst and what the
\* time brings, whatever interval one looks at, idle spells before it included.
RateBounded ==
    \A g \in Gates, a \in Authors :
       LET times == spent[g][a] IN
       \A i, j \in DOMAIN times :
          i <= j => (j - i + 1) * TokenUnits <= Full + (times[j] - times[i]) * RefillRate

\* Of two texts that differ in at most NearDistance bits only the first passes a
\* gate, also when two calls make their checks at once, unless as many texts as
\* the window holds came in between.
NoNearTwins ==
    \A g \in Gates : \A i, j \in DOMAIN seen[g] :
       (/\ i < j /\ seen[g][j].passed
        /\ HammingDistance(seen[g][i].fp, seen[g][j].fp) <= NearDistance)
          => j - i > WindowSize
=============================================================================
