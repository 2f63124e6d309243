--------------------------- MODULE HandleRegistry ---------------------------
(***************************************************************************)
(* The handle registries of several nodes. A registry keeps four maps in   *)
(* step by hand: handles (name to record), owner_to_handle, the time of    *)
(* the last registration of an identity and the cooldown of a name. Every  *)
(* operation runs under the registry's mutex and is one action here.       *)
(* Records are handed to other nodes in any order, at any time and any     *)
(* number of times, and enter through receive_remote_handle, the           *)
(* registry's interface for that. The node has no caller of it yet: what   *)
(* register_and_publish and republish_own_records put into the DHT is an   *)
(* object of name, owner and dates, without proof of work or signature,    *)
(* which a lookup returns as it is and no registry takes in.               *)
(***************************************************************************)
EXTENDS Integers, FiniteSets

CONSTANTS
    Nodes, Owners, Names,
    Home,             \* Home[o]: the node where identity o is unlocked
    KeyRank,          \* KeyRank[o]: the order of the public key bytes
    TTL,              \* HANDLE_TTL_SECS
    RegisterCooldown, \* HANDLE_REGISTRATION_COOLDOWN_SECS
    ReleaseCooldown,  \* HANDLE_RELEASE_COOLDOWN_SECS
    RenewWindow,      \* handle_gc_loop renews what expires this soon
    Renewers,         \* owners that renew, by hand or through handle_gc_loop
    Releasers,        \* owners that release
    NoName,           \* no handle
    MaxTime           \* bound: the clock stops here

ASSUME ConstantsAssumption ==
    /\ Home \in [Owners -> Nodes]
    /\ KeyRank \in [Owners -> Nat]
    /\ \A a, b \in Owners : KeyRank[a] = KeyRank[b] => a = b
    /\ TTL \in Nat \ {0} /\ RegisterCooldown \in Nat /\ ReleaseCooldown \in Nat
    /\ RenewWindow \in Nat /\ MaxTime \in Nat
    /\ Renewers \subseteq Owners /\ Releasers \subseteq Owners
    /\ NoName \notin Names \cup Owners

\* An automatic renewal never brings the end of a handle forward.
ASSUME RenewAssumption == RenewWindow <= TTL

\* A Handle: who holds it, since when, until when, and whether its proof of
\* work has registration or only renewal difficulty.
Record == [owner : Owners, registered_at : Nat, expires_at : Nat,
           pow : {"full", "renewal"}]

\* The name is free: no record of the handles map.
Free == [owner |-> NoName, registered_at |-> 0, expires_at |-> 0, pow |-> "full"]

VARIABLES
    now,
    handles,         \* handles[k][n]: the record of name n at node k, or Free
    owner_to_handle, \* owner_to_handle[k][o]: a name, or NoName
    last,            \* last[k][o]: last registration, long ago if none
    cooldowns,       \* cooldowns[k][n]: end of the cooldown, 0 if none
    wire,            \* records handed to other nodes: <<name, record>>
    seen             \* history: seen[k], what k registered, renewed, validated
                     \* or (as Free) released

vars == <<now, handles, owner_to_handle, last, cooldowns, wire, seen>>

Init ==
    /\ now = 0
    /\ handles = [k \in Nodes |-> [n \in Names |-> Free]]
    /\ owner_to_handle = [k \in Nodes |-> [o \in Owners |-> NoName]]
    /\ last = [k \in Nodes |-> [o \in Owners |-> -RegisterCooldown]]
    /\ cooldowns = [k \in Nodes |-> [n \in Names |-> 0]]
    /\ wire = {}
    /\ seen = [k \in Nodes |-> {}]

Tick ==
    /\ now < MaxTime
    /\ now' = now + 1
    /\ UNCHANGED <<handles, owner_to_handle, last, cooldowns, wire, seen>>

\* is_expired_at
Expired(h) == now >= h.expires_at
Active(h)  == h # Free /\ ~Expired(h)

-----------------------------------------------------------------------------
(* register_with_difficulty, in its steps 2 to 9. *)

\* Step 2: the name the identity already holds.
Held(k, o) == owner_to_handle[k][o]

HoldsActive(k, o) == Held(k, o) # NoName /\ Active(handles[k][Held(k, o)])

\* Step 2: an expired handle of the identity goes, even if a later step fails.
Handles2(k, o) ==
    [n \in Names |-> IF n = Held(k, o) THEN Free ELSE handles[k][n]]
Owners2(k, o)  ==
    [x \in Owners |-> IF x = o /\ (Held(k, o) # NoName => handles[k][Held(k, o)] # Free)
                      THEN NoName ELSE owner_to_handle[k][x]]

\* Step 3.
RateLimited(k, o) == now - last[k][o] < RegisterCooldown

\* Step 4: an expired record of the name goes, with its owner's entry.
Owners4(k, o, n) ==
    [x \in Owners |-> IF x = Handles2(k, o)[n].owner THEN NoName
                      ELSE Owners2(k, o)[x]]

\* Step 5.
InCooldown(k, n) == now < cooldowns[k][n]

NewRecord(o) ==
    [owner |-> o, registered_at |-> now, expires_at |-> now + TTL, pow |-> "full"]

\* Steps 2 to 4 fail: only the clean-up of step 2 remains.
RegisterRefused(o, n) ==
    LET k == Home[o] IN
    /\ ~HoldsActive(k, o)
    /\ RateLimited(k, o) \/ Active(Handles2(k, o)[n])
    /\ handles' = [handles EXCEPT ![k] = Handles2(k, o)]
    /\ owner_to_handle' = [owner_to_handle EXCEPT ![k] = Owners2(k, o)]
    /\ UNCHANGED <<now, last, cooldowns, wire, seen>>

\* Step 5 fails: the expired record of the name is gone as well.
RegisterInCooldown(o, n) ==
    LET k == Home[o] IN
    /\ ~HoldsActive(k, o) /\ ~RateLimited(k, o) /\ ~Active(Handles2(k, o)[n])
    /\ InCooldown(k, n)
    /\ handles' = [handles EXCEPT ![k] = [Handles2(k, o) EXCEPT ![n] = Free]]
    /\ owner_to_handle' = [owner_to_handle EXCEPT ![k] = Owners4(k, o, n)]
    /\ UNCHANGED <<now, last, cooldowns, wire, seen>>

\* Steps 6 to 9.
Register(o, n) ==
    LET k == Home[o]
        h == NewRecord(o)
    IN
    /\ ~HoldsActive(k, o) /\ ~RateLimited(k, o) /\ ~Active(Handles2(k, o)[n])
    /\ ~InCooldown(k, n)
    /\ handles' = [handles EXCEPT ![k] = [Handles2(k, o) EXCEPT ![n] = h]]
    /\ owner_to_handle' =
         [owner_to_handle EXCEPT ![k] = [Owners4(k, o, n) EXCEPT ![o] = n]]
    /\ last' = [last EXCEPT ![k][o] = now]
    /\ cooldowns' = [cooldowns EXCEPT ![k][n] = 0]
    /\ seen' = [seen EXCEPT ![k] = @ \cup {<<n, h>>}]
    /\ UNCHANGED <<now, wire>>

-----------------------------------------------------------------------------
\* renew: a new signature and a new date, at renewal difficulty.
Renew(o, n) ==
    LET k == Home[o]
        h == [NewRecord(o) EXCEPT !.pow = "renewal"]
    IN
    /\ o \in Renewers
    /\ handles[k][n].owner = o /\ Active(handles[k][n])
    /\ handles' = [handles EXCEPT ![k][n] = h]
    /\ seen' = [seen EXCEPT ![k] = @ \cup {<<n, h>>}]
    /\ UNCHANGED <<now, owner_to_handle, last, cooldowns, wire>>

\* release.
Release(o, n) ==
    LET k == Home[o] IN
    /\ o \in Releasers
    /\ handles[k][n].owner = o
    /\ handles' = [handles EXCEPT ![k][n] = Free]
    /\ owner_to_handle' = [owner_to_handle EXCEPT ![k][o] = NoName]
    /\ cooldowns' = [cooldowns EXCEPT ![k][n] = now + ReleaseCooldown]
    /\ seen' = [seen EXCEPT ![k] = @ \cup {<<n, Free>>}]
    /\ UNCHANGED <<now, last, wire>>

-----------------------------------------------------------------------------
(* receive_remote_handle: validate, then insert_validated. *)

Validate(h) ==
    /\ ~Expired(h)
    /\ h.expires_at = h.registered_at + TTL
    /\ h.pow = "full"

\* resolve_conflict among active records: the earlier registration wins, and
\* within a second the lower key.
Precedes(h, g) ==
    \/ h.registered_at < g.registered_at
    \/ h.registered_at = g.registered_at /\ KeyRank[h.owner] < KeyRank[g.owner]

\* Mutant: of two registrations of the same second the last to arrive wins.
AcceptsTie(k, n, h) ==
    ~Active(handles[k][n]) \/ h.registered_at <= handles[k][n].registered_at

Accepts(k, n, h) == ~Active(handles[k][n]) \/ Precedes(h, handles[k][n])

\* insert_validated, when the incoming record is accepted or wins.
InsertValidated(k, n, h) ==
    /\ handles' = [handles EXCEPT ![k][n] = h]
    /\ owner_to_handle' =
         [owner_to_handle EXCEPT ![k] =
            [x \in Owners |-> IF x = h.owner THEN n
                              ELSE IF x = handles[k][n].owner THEN NoName
                              ELSE owner_to_handle[k][x]]]

Receive(k, n, h) ==
    /\ <<n, h>> \in wire
    /\ Validate(h)
    /\ IF Accepts(k, n, h) THEN InsertValidated(k, n, h)
       ELSE UNCHANGED <<handles, owner_to_handle>>
    /\ seen' = [seen EXCEPT ![k] = @ \cup {<<n, h>>}]
    /\ UNCHANGED <<now, last, cooldowns, wire>>

-----------------------------------------------------------------------------
(* handle_gc_loop: gc, then the automatic renewal of the unlocked identity. *)

GcHandles(k) == [n \in Names |-> IF Expired(handles[k][n]) THEN Free ELSE handles[k][n]]

GcOwners(k) ==
    [o \in Owners |->
       IF \E n \in Names : handles[k][n].owner = o /\ Expired(handles[k][n])
       THEN NoName ELSE owner_to_handle[k][o]]

\* The date of the record moves, its registration and signature do not.
AutoRenewed(h) ==
    IF h # Free /\ h.expires_at <= now + RenewWindow
    THEN [h EXCEPT !.expires_at = now + TTL] ELSE h

\* gc at a node whose identity is locked.
Gc(k) ==
    /\ handles' = [handles EXCEPT ![k] = GcHandles(k)]
    /\ owner_to_handle' = [owner_to_handle EXCEPT ![k] = GcOwners(k)]
    /\ cooldowns' = [cooldowns EXCEPT ![k] =
                       [n \in Names |-> IF InCooldown(k, n) THEN cooldowns[k][n] ELSE 0]]
    /\ UNCHANGED <<now, last, wire, seen>>

GcAutoRenew(o) ==
    LET k == Home[o]
        mine == GcOwners(k)[o]
    IN
    /\ o \in Renewers
    /\ mine # NoName
    /\ handles' = [handles EXCEPT ![k] =
                     [GcHandles(k) EXCEPT ![mine] = AutoRenewed(@)]]
    /\ owner_to_handle' = [owner_to_handle EXCEPT ![k] = GcOwners(k)]
    /\ cooldowns' = [cooldowns EXCEPT ![k] =
                       [n \in Names |-> IF InCooldown(k, n) THEN cooldowns[k][n] ELSE 0]]
    /\ UNCHANGED <<now, last, wire, seen>>

\* The record that node k has of a name is handed to other nodes.
Offer(k, n) ==
    /\ handles[k][n] # Free
    /\ wire' = wire \cup {<<n, handles[k][n]>>}
    /\ UNCHANGED <<now, handles, owner_to_handle, last, cooldowns, seen>>

\* identity.register_handle, renew_handle and release_handle.
HandlesApi(o, n) ==
    \/ RegisterRefused(o, n) \/ RegisterInCooldown(o, n) \/ Register(o, n)
    \/ Renew(o, n) \/ Release(o, n)

Next ==
    \/ Tick
    \/ \E o \in Owners, n \in Names : HandlesApi(o, n)
    \/ \E k \in Nodes : \E m \in wire : Receive(k, m[1], m[2])
    \/ \E k \in Nodes : Gc(k)
    \/ \E k \in Nodes, n \in Names : Offer(k, n)
    \/ \E o \in Owners : GcAutoRenew(o)

Spec == Init /\ [][Next]_vars

-----------------------------------------------------------------------------
(* Properties. *)

TypeOK ==
    /\ now \in Nat
    /\ handles \in [Nodes -> [Names -> Record \cup {Free}]]
    /\ owner_to_handle \in [Nodes -> [Owners -> Names \cup {NoName}]]
    /\ last \in [Nodes -> [Owners -> Int]]
    /\ cooldowns \in [Nodes -> [Names -> Nat]]
    /\ wire \subseteq Names \X Record
    /\ seen \in [Nodes -> SUBSET (Names \X (Record \cup {Free}))]

\* The reverse map never lies: the name it gives an identity is registered
\* to that identity, however registrations, conflicts, releases, expiries
\* and the clean-ups of failed registrations interleave.
IndexSound ==
    \A k \in Nodes, o \in Owners :
       owner_to_handle[k][o] # NoName =>
          handles[k][owner_to_handle[k][o]].owner = o

\* A registration that has not expired is taken from its owner only by an
\* earlier one (or the lower key, in the same second), or by the owner.
NoTheft ==
    [][\A k \in Nodes, n \in Names :
         LET g == handles[k][n]
             h == handles'[k][n]
         IN  (Active(g) /\ h.owner # g.owner) =>
                \/ h # Free /\ Precedes(h, g)
                \/ h = Free /\ g.owner \in Releasers]_vars

\* Two nodes that have processed the same records of a name, in whatever
\* order, none of which has expired and which neither has released, agree on
\* who holds it.
Agreement ==
    \A j, k \in Nodes, n \in Names :
       LET at(i) == {m \in seen[i] : m[1] = n} IN
       (at(j) = at(k) /\ \A m \in at(j) : ~Expired(m[2]))
          => handles[j][n].owner = handles[k][n].owner

=============================================================================
