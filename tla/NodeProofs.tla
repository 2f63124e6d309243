----------------------------- MODULE NodeProofs -----------------------------
(***************************************************************************)
(* Proofs about the services of a node:                                    *)
(*   - HandleRegistry, for any nodes, identities and names: the reverse map*)
(*     is sound, an active handle is only displaced by an earlier          *)
(*     registration or given up by its owner, and nodes that have processed*)
(*     the same unexpired records agree                                    *)
(*   - NodeLifecycle, for any callers and topics: the network in place is  *)
(*     ingested from, and once                                             *)
(***************************************************************************)
EXTENDS HandleRegistry, NodeLifecycle, FiniteSetTheorems, TLAPS

IndexInv == TypeOK /\ IndexSound

\* The constants' assumptions in the form the steps use them.
LEMMA ConstantFacts ==
    /\ \A o \in Owners : Home[o] \in Nodes /\ KeyRank[o] \in Nat
    /\ TTL \in Nat \ {0} /\ RegisterCooldown \in Nat /\ ReleaseCooldown \in Nat
    /\ RenewWindow \in Nat /\ NoName \notin Names /\ NoName \notin Owners
BY ConstantsAssumption, Zenon

\* A new record is a record.
LEMMA NewRecordType ==
    ASSUME NEW o \in Owners, now \in Nat
    PROVE  /\ NewRecord(o) \in Record
           /\ [NewRecord(o) EXCEPT !.pow = "renewal"] \in Record
BY ConstantFacts DEF NewRecord, Record

\* The registries start empty.
LEMMA InitInv == Init => IndexInv
<1> SUFFICES ASSUME Init PROVE IndexInv
  BY Zenon
<1>1. TypeOK
  BY ConstantFacts DEF Init, TypeOK, Record, Free
<1>2. IndexSound
  BY Zenon DEF Init, IndexSound
<1> QED
  BY <1>1, <1>2, Zenon DEF IndexInv

\* The two maps of one node agree.
Sound(H, O) == \A x \in Owners : O[x] # NoName => H[O[x]].owner = x

NodeHandles == [Names -> Record \cup {Free}]
NodeOwners  == [Owners -> Names \cup {NoName}]

\* What the clean-ups of steps 2 and 4 return.
LEMMA CleanUp ==
    ASSUME IndexInv, NEW k \in Nodes, NEW o \in Owners, NEW n \in Names
    PROVE  /\ Handles2(k, o) \in NodeHandles
           /\ Owners2(k, o) \in NodeOwners
           /\ Owners4(k, o, n) \in NodeOwners
           /\ Sound(Handles2(k, o), Owners2(k, o))
           /\ Owners2(k, o)[o] = NoName
           /\ \A x \in Owners : Owners4(k, o, n)[x] # NoName =>
                 /\ Owners4(k, o, n)[x] # n
                 /\ Handles2(k, o)[Owners4(k, o, n)[x]].owner = x
<1> DEFINE H == handles[k]
           O == owner_to_handle[k]
<1>1. H \in NodeHandles /\ O \in NodeOwners /\ Sound(H, O)
  BY Zenon DEF IndexInv, TypeOK, IndexSound, NodeHandles, NodeOwners, Sound
<1>2. Free.owner = NoName /\ Free.owner \notin Owners
  BY ConstantFacts, Zenon DEF Free
<1>3. Handles2(k, o) \in NodeHandles
  BY <1>1, Zenon DEF Handles2, Held, NodeHandles
<1>4. Owners2(k, o) \in NodeOwners
  BY <1>1, Zenon DEF Owners2, Held, NodeOwners
<1>5. Owners2(k, o)[o] = NoName
  BY <1>1, <1>2, Zenon DEF Owners2, Held, NodeOwners, Sound
<1>6. Sound(Handles2(k, o), Owners2(k, o))
  BY <1>1, <1>2, <1>5, Zenon DEF Handles2, Owners2, Held, NodeHandles, NodeOwners, Sound
<1>7. Owners4(k, o, n) \in NodeOwners
  BY <1>4, Zenon DEF Owners4, NodeOwners
<1>8. \A x \in Owners : Owners4(k, o, n)[x] # NoName =>
         /\ Owners4(k, o, n)[x] # n
         /\ Handles2(k, o)[Owners4(k, o, n)[x]].owner = x
  BY <1>4, <1>6, Zenon DEF Owners4, NodeOwners, Sound
<1> QED
  BY <1>3, <1>4, <1>5, <1>6, <1>7, <1>8, Zenon

\* One node's maps change, and stay sound.
LEMMA OneNode ==
    ASSUME IndexInv, NEW k \in Nodes, NEW H \in NodeHandles, NEW O \in NodeOwners,
           handles' = [handles EXCEPT ![k] = H],
           owner_to_handle' = [owner_to_handle EXCEPT ![k] = O]
    PROVE  /\ handles' \in [Nodes -> NodeHandles]
           /\ owner_to_handle' \in [Nodes -> NodeOwners]
           /\ Sound(H, O) => IndexSound'
BY Zenon DEF IndexInv, TypeOK, IndexSound, Sound, NodeHandles, NodeOwners

\* The failing registrations only drop expired records and their entries.
LEMMA RefusedInv ==
    ASSUME IndexInv, NEW o \in Owners, NEW n \in Names, RegisterRefused(o, n)
    PROVE  IndexInv'
BY CleanUp, OneNode, ConstantFacts, Zenon
   DEF RegisterRefused, IndexInv, TypeOK, NodeHandles, NodeOwners

\* The same when the name is in its cooldown.
LEMMA InCooldownInv ==
    ASSUME IndexInv, NEW o \in Owners, NEW n \in Names, RegisterInCooldown(o, n)
    PROVE  IndexInv'
<1> DEFINE k == Home[o]
           H == [Handles2(k, o) EXCEPT ![n] = Free]
           O == Owners4(k, o, n)
<1>1. k \in Nodes
  BY ConstantFacts, Zenon
<1>2. H \in NodeHandles /\ O \in NodeOwners /\ Sound(H, O)
  BY <1>1, CleanUp DEF NodeHandles, NodeOwners, Sound
<1> HIDE DEF H, O
<1>3. /\ handles' = [handles EXCEPT ![k] = H]
      /\ owner_to_handle' = [owner_to_handle EXCEPT ![k] = O]
  BY Zenon DEF RegisterInCooldown, H, O
<1> QED
  BY <1>1, <1>2, <1>3, OneNode, Zenon
     DEF RegisterInCooldown, IndexInv, TypeOK, NodeHandles, NodeOwners

\* A registration replaces an expired record and enters its owner.
LEMMA RegisterInv ==
    ASSUME IndexInv, NEW o \in Owners, NEW n \in Names, Register(o, n)
    PROVE  IndexInv'
<1> DEFINE k == Home[o]
           H == [Handles2(k, o) EXCEPT ![n] = NewRecord(o)]
           O == [Owners4(k, o, n) EXCEPT ![o] = n]
<1>1. k \in Nodes
  BY ConstantFacts, Zenon
<1>2. NewRecord(o) \in Record /\ NewRecord(o).owner = o
  BY NewRecordType, Zenon DEF NewRecord, IndexInv, TypeOK
<1>3. H \in NodeHandles /\ O \in NodeOwners /\ Sound(H, O)
  BY <1>1, <1>2, CleanUp DEF NodeHandles, NodeOwners, Sound
<1> HIDE DEF H, O
<1>4. /\ handles' = [handles EXCEPT ![k] = H]
      /\ owner_to_handle' = [owner_to_handle EXCEPT ![k] = O]
  BY Zenon DEF Register, H, O
<1>5. /\ handles' \in [Nodes -> NodeHandles]
      /\ owner_to_handle' \in [Nodes -> NodeOwners]
      /\ IndexSound'
  BY <1>1, <1>3, <1>4, OneNode, Zenon
<1>6. <<n, NewRecord(o)>> \in Names \X Record
  BY <1>2, Zenon
<1>7. /\ last' \in [Nodes -> [Owners -> Int]] /\ cooldowns' \in [Nodes -> [Names -> Nat]]
      /\ wire' \subseteq Names \X Record /\ seen' \in [Nodes -> SUBSET (Names \X (Record \cup {Free}))]
  BY <1>1, <1>6 DEF Register, IndexInv, TypeOK
<1> QED
  BY <1>5, <1>7, Zenon DEF Register, IndexInv, TypeOK, NodeHandles, NodeOwners

\* A renewal keeps the owner.
LEMMA RenewInv ==
    ASSUME IndexInv, NEW o \in Owners, NEW n \in Names, Renew(o, n)
    PROVE  IndexInv'
<1> USE ConstantFacts DEF IndexInv, TypeOK, Renew
<1>1. TypeOK'
  BY NewRecordType
<1>2. IndexSound'
  BY DEF IndexSound, NewRecord
<1> QED
  BY <1>1, <1>2, Zenon

\* A release removes both entries.
LEMMA ReleaseInv ==
    ASSUME IndexInv, NEW o \in Owners, NEW n \in Names, Release(o, n)
    PROVE  IndexInv'
<1> USE ConstantFacts DEF IndexInv, TypeOK, Release
<1>1. TypeOK'
  OBVIOUS
<1>2. IndexSound'
  BY DEF IndexSound, Free
<1> QED
  BY <1>1, <1>2, Zenon

\* An accepted record removes the entry of the owner it displaces.
LEMMA ReceiveInv ==
    ASSUME IndexInv, NEW k \in Nodes, NEW m \in wire, Receive(k, m[1], m[2])
    PROVE  IndexInv'
<1> DEFINE n == m[1]
           h == m[2]
           H == [handles[k] EXCEPT ![n] = h]
           O == [x \in Owners |-> IF x = h.owner THEN n
                                  ELSE IF x = handles[k][n].owner THEN NoName
                                  ELSE owner_to_handle[k][x]]
<1>1. n \in Names /\ h \in Record /\ h.owner \in Owners /\ m = <<n, h>>
  BY DEF IndexInv, TypeOK, Record
<1>2. seen' \in [Nodes -> SUBSET (Names \X (Record \cup {Free}))]
  BY <1>1, Zenon DEF IndexInv, TypeOK, Receive
<1>3. CASE Accepts(k, n, h)
  <2>1. H \in NodeHandles /\ O \in NodeOwners /\ Sound(H, O)
    BY <1>1 DEF IndexInv, TypeOK, IndexSound, NodeHandles, NodeOwners, Sound
  <2> HIDE DEF O
  <2>2. /\ handles' = [handles EXCEPT ![k] = H]
        /\ owner_to_handle' = [owner_to_handle EXCEPT ![k] = O]
    BY <1>3, Zenon DEF Receive, InsertValidated, O, IndexInv, TypeOK
  <2> HIDE DEF H
  <2> QED
    BY <1>2, <2>1, <2>2, OneNode, Zenon
       DEF Receive, IndexInv, TypeOK, NodeHandles, NodeOwners
<1>4. CASE ~Accepts(k, n, h)
  BY <1>2, <1>4 DEF Receive, IndexInv, TypeOK, IndexSound
<1> QED
  BY <1>3, <1>4, Zenon

\* gc drops the entries of the owners of what it drops.
LEMMA GcInv ==
    ASSUME IndexInv, NEW k \in Nodes, Gc(k)
    PROVE  IndexInv'
<1> USE ConstantFacts DEF IndexInv, TypeOK, Gc, GcHandles, GcOwners
<1>1. TypeOK'
  OBVIOUS
<1>2. IndexSound'
  BY DEF IndexSound
<1> QED
  BY <1>1, <1>2, Zenon

\* The automatic renewal changes a date and nothing else.
LEMMA AutoRenewedType ==
    ASSUME now \in Nat, NEW h \in Record \cup {Free}
    PROVE  AutoRenewed(h) \in Record \cup {Free} /\ AutoRenewed(h).owner = h.owner
<1>1. CASE h = Free
  BY <1>1, Zenon DEF AutoRenewed
<1>2. CASE h \in Record
  <2> DEFINE g == [h EXCEPT !.expires_at = now + TTL]
  <2>1. now + TTL \in Nat
    BY ConstantFacts
  <2>2. g \in Record /\ g.owner = h.owner
    BY <1>2, <2>1, Zenon DEF Record
  <2>3. AutoRenewed(h) = g \/ AutoRenewed(h) = h
    BY Zenon DEF AutoRenewed
  <2> QED
    BY <1>2, <2>2, <2>3, Zenon
<1> QED
  BY <1>1, <1>2, Zenon

\* Renewal by the collection keeps the invariant.
LEMMA GcAutoRenewInv ==
    ASSUME IndexInv, NEW o \in Owners, GcAutoRenew(o)
    PROVE  IndexInv'
<1> DEFINE k == Home[o]
           mine == GcOwners(k)[o]
           H == [GcHandles(k) EXCEPT ![mine] = AutoRenewed(@)]
           O == GcOwners(k)
<1>1. k \in Nodes
  BY ConstantFacts, Zenon
<1>2. GcHandles(k) \in NodeHandles /\ O \in NodeOwners /\ Sound(GcHandles(k), O)
  <2> HIDE DEF k
  <2>1. GcHandles(k) \in NodeHandles
    BY <1>1 DEF IndexInv, TypeOK, GcHandles, NodeHandles
  <2>2. O \in NodeOwners
    BY <1>1 DEF IndexInv, TypeOK, GcOwners, NodeOwners
  <2>3. Sound(GcHandles(k), O)
    BY <1>1 DEF IndexInv, TypeOK, IndexSound, GcHandles, GcOwners, Sound
  <2> QED
    BY <2>1, <2>2, <2>3, Zenon
<1>3. mine \in Names
  BY <1>2, Zenon DEF GcAutoRenew, NodeOwners
<1>4. /\ AutoRenewed(GcHandles(k)[mine]) \in Record \cup {Free}
      /\ AutoRenewed(GcHandles(k)[mine]).owner = GcHandles(k)[mine].owner
  BY <1>2, <1>3, AutoRenewedType, Zenon DEF NodeHandles, IndexInv, TypeOK
<1> HIDE DEF O, mine
<1>5. H \in NodeHandles /\ Sound(H, O)
  BY <1>2, <1>3, <1>4, Zenon DEF NodeHandles, NodeOwners, Sound
<1>6. /\ handles' = [handles EXCEPT ![k] = H]
      /\ owner_to_handle' = [owner_to_handle EXCEPT ![k] = O]
  BY Zenon DEF GcAutoRenew, O, mine
<1>7. cooldowns' \in [Nodes -> [Names -> Nat]] /\ UNCHANGED <<now, last, wire, seen>>
  BY <1>1, Zenon DEF GcAutoRenew, IndexInv, TypeOK
<1> HIDE DEF H, k
<1>8. IndexSound' /\ handles' \in [Nodes -> NodeHandles]
                  /\ owner_to_handle' \in [Nodes -> NodeOwners]
  BY <1>1, <1>2, <1>5, <1>6, OneNode, Zenon
<1> QED
  BY <1>7, <1>8, Zenon DEF IndexInv, TypeOK, NodeHandles, NodeOwners

\* Handing a record over changes no registry.
LEMMA OfferInv ==
    ASSUME IndexInv, NEW k \in Nodes, NEW n \in Names, Offer(k, n)
    PROVE  IndexInv'
<1>1. handles[k][n] \in Record
  BY DEF IndexInv, TypeOK, Offer
<1> QED
  BY <1>1 DEF IndexInv, TypeOK, IndexSound, Offer

\* Every step preserves the invariant.
LEMMA NextInv == IndexInv /\ [Next]_vars => IndexInv'
<1> SUFFICES ASSUME IndexInv, [Next]_vars PROVE IndexInv'
  BY Zenon
<1>1. CASE UNCHANGED vars
  BY <1>1, Zenon DEF IndexInv, TypeOK, IndexSound, vars
<1>2. CASE Tick
  BY <1>2 DEF IndexInv, TypeOK, IndexSound, Tick
<1>3. CASE Next /\ ~Tick
  BY <1>3, RefusedInv, InCooldownInv, RegisterInv, RenewInv, ReleaseInv,
     ReceiveInv, GcInv, GcAutoRenewInv, OfferInv, Zenon
     DEF Next, HandlesApi
<1> QED
  BY <1>1, <1>2, <1>3, Zenon DEF Next, HandlesApi

\* The invariant of both maps.
THEOREM Invariance == Spec => []IndexInv
BY InitInv, NextInv, PTL DEF Spec

\* The variables keep their types.
THEOREM TypeCorrect == Spec => []TypeOK
BY Invariance, PTL DEF IndexInv

\* owner_to_handle never names a handle of somebody else, for any interleaving
\* of registrations, releases, conflicts, clean-ups and renewals.
THEOREM ReverseMapSound == Spec => []IndexSound
BY Invariance, PTL DEF IndexInv

-----------------------------------------------------------------------------
(* NoTheft. *)

\* Who may lose an active registration in one step.
Taken(k, n) ==
    LET g == handles[k][n]
        h == handles'[k][n]
    IN  (Active(g) /\ h.owner # g.owner) =>
           \/ h # Free /\ Precedes(h, g)
           \/ h = Free /\ g.owner \in Releasers

\* The clean-up of step 2 only drops a record that is not active.
LEMMA RegisterTakesNothing ==
    ASSUME IndexInv, NEW o \in Owners, NEW m \in Names,
           RegisterRefused(o, m) \/ RegisterInCooldown(o, m) \/ Register(o, m),
           NEW k \in Nodes, NEW n \in Names
    PROVE  Taken(k, n)
<1> USE DEF IndexInv, TypeOK
<1>1. Active(handles[Home[o]][n]) => Handles2(Home[o], o)[n] = handles[Home[o]][n]
  BY ConstantFacts, Zenon
     DEF RegisterRefused, RegisterInCooldown, Register, HoldsActive, Held, Handles2, Active
<1>2. handles'[k][n] = handles[k][n] \/ (k = Home[o] /\ handles'[k][n] = Handles2(k, o)[n])
      \/ (k = Home[o] /\ n = m)
  <2> DEFINE j == Home[o]
  <2>1. j \in Nodes /\ Handles2(j, o) \in [Names -> Record \cup {Free}]
    BY ConstantFacts DEF Handles2
  <2>2. \E x : handles' = [handles EXCEPT ![j] = Handles2(j, o)]
               \/ handles' = [handles EXCEPT ![j] = [Handles2(j, o) EXCEPT ![m] = x]]
    BY Zenon DEF RegisterRefused, RegisterInCooldown, Register
  <2> HIDE DEF j
  <2> QED
    BY <2>1, <2>2 DEF j
<1>3. ASSUME k = Home[o], n = m, Active(handles[k][n])
      PROVE  handles'[k][n] = handles[k][n]
  BY <1>1, <1>3, ConstantFacts, Zenon
     DEF RegisterRefused, RegisterInCooldown, Register, Handles2
<1> QED
  BY <1>1, <1>2, <1>3, Zenon DEF Taken

\* No step takes an active registration in another way.
LEMMA StepTakesNothing ==
    ASSUME IndexInv, [Next]_vars, NEW k \in Nodes, NEW n \in Names
    PROVE  Taken(k, n)
<1> USE DEF IndexInv, TypeOK
<1>1. ASSUME UNCHANGED handles
      PROVE  Taken(k, n)
  BY <1>1, Zenon DEF Taken
<1>2. ASSUME NEW o \in Owners, NEW m \in Names, Renew(o, m) \/ Release(o, m)
      PROVE  Taken(k, n)
  <2> DEFINE r == [NewRecord(o) EXCEPT !.pow = "renewal"]
  <2>1. r.owner = o
    BY Zenon DEF NewRecord
  <2>2. CASE Renew(o, m)
    <3>1. /\ handles'[k][n] = handles[k][n] \/ (k = Home[o] /\ n = m /\ handles'[k][n] = r)
          /\ handles[Home[o]][m].owner = o
      BY <2>2, ConstantFacts, Zenon DEF Renew
    <3> QED
      BY <2>1, <3>1, Zenon DEF Taken
  <2>3. CASE Release(o, m)
    <3>1. /\ handles'[k][n] = handles[k][n] \/ (k = Home[o] /\ n = m /\ handles'[k][n] = Free)
          /\ handles[Home[o]][m].owner = o /\ o \in Releasers
      BY <2>3, ConstantFacts, Zenon DEF Release
    <3> QED
      BY <3>1, Zenon DEF Taken
  <2> QED
    BY <1>2, <2>2, <2>3, Zenon
<1>3. ASSUME NEW j \in Nodes, NEW m \in wire, Receive(j, m[1], m[2])
      PROVE  Taken(k, n)
  <2>1. m[1] \in Names /\ m[2] \in Record /\ m[2] # Free
    BY ConstantFacts DEF Record, Free
  <2>2. \/ handles'[k][n] = handles[k][n]
        \/ /\ k = j /\ n = m[1] /\ handles'[k][n] = m[2]
           /\ ~Active(handles[k][n]) \/ Precedes(m[2], handles[k][n])
    BY <1>3, <2>1 DEF Receive, InsertValidated, Accepts
  <2> QED
    BY <2>1, <2>2, Zenon DEF Taken
<1>4. ASSUME NEW j \in Nodes, handles' = [handles EXCEPT ![j] = GcHandles(j)]
      PROVE  Taken(k, n)
  BY <1>4, Zenon DEF GcHandles, Taken, Active
<1>5. ASSUME NEW o \in Owners, GcAutoRenew(o)
      PROVE  Taken(k, n)
  <2> DEFINE j == Home[o]
             mine == GcOwners(j)[o]
             h == GcHandles(j)[mine]
  <2>1. j \in Nodes
    BY ConstantFacts, ZenonT(30)
  <2>2. mine \in Names
    BY <1>5, <2>1 DEF GcAutoRenew, GcOwners
  <2>3. h \in Record \cup {Free}
    BY <2>1, <2>2 DEF GcHandles
  <2>4. AutoRenewed(h).owner = h.owner
    BY <2>3, AutoRenewedType, Zenon
  <2>5. \/ k # j /\ handles'[k][n] = handles[k][n]
        \/ k = j /\ n # mine /\ handles'[k][n] = GcHandles(j)[n]
        \/ k = j /\ n = mine /\ handles'[k][n] = AutoRenewed(h)
    BY <1>5, <2>1, <2>2, Zenon DEF GcAutoRenew, GcHandles
  <2>6. Active(handles[j][n]) => GcHandles(j)[n] = handles[j][n]
    BY Zenon DEF GcHandles, Active
  <2> HIDE DEF j, mine
  <2> QED
    BY <2>4, <2>5, <2>6, Zenon DEF Taken
<1> QED
  BY <1>1, <1>2, <1>3, <1>4, <1>5, RegisterTakesNothing, Zenon
     DEF Next, HandlesApi, Gc, Tick, Offer, vars

\* For any number of nodes, owners, names and records, and any order of
\* delivery, an active registration changes hands only to an earlier one (or
\* the lower key), or is released by its owner.
THEOREM NoHandleIsStolen == Spec => NoTheft
<1>1. IndexInv /\ [Next]_vars => [\A k \in Nodes, n \in Names : Taken(k, n)]_vars
  BY StepTakesNothing, Zenon
<1>2. [\A k \in Nodes, n \in Names : Taken(k, n)]_vars
      => [\A k \in Nodes, n \in Names :
            LET g == handles[k][n]
                h == handles'[k][n]
            IN  (Active(g) /\ h.owner # g.owner) =>
                   \/ h # Free /\ Precedes(h, g)
                   \/ h = Free /\ g.owner \in Releasers]_vars
  BY Zenon DEF Taken
<1> QED
  BY <1>1, <1>2, Invariance, PTL DEF Spec, NoTheft

-----------------------------------------------------------------------------
(* Agreement of the registries. *)

\* What node k has processed of name n.
At(k, n) == {m \in seen[k] : m[1] = n}

\* None of it has expired, and none of it is a renewal.
Fresh(k, n) == \A m \in At(k, n) : ~Expired(m[2]) /\ m[2].pow = "full"

\* The record at k makes the claim of one that k has processed, none of which
\* precedes it.
Leads(k, n) ==
    LET h == handles[k][n] IN
    /\ \E m \in At(k, n) : /\ h.owner = m[2].owner /\ h.registered_at = m[2].registered_at
                           /\ m[2].expires_at <= h.expires_at
    /\ \A m \in At(k, n) : ~Precedes(m[2], h)

\* A name that k never heard of is free, and the others have their leader.
LeadOK(k, n) ==
    Fresh(k, n) => (At(k, n) = {} /\ handles[k][n] = Free) \/ (handles[k][n] # Free /\ Leads(k, n))

\* What a node has processed are records and releases; what has not expired is a record.
LEMMA SeenTyped ==
    ASSUME IndexInv, NEW k \in Nodes, NEW n \in Names, NEW m \in At(k, n)
    PROVE  /\ m[2] \in Record \cup {Free}
           /\ ~Expired(m[2]) => m[2] \in Record
<1>1. m \in Names \X (Record \cup {Free})
  BY Zenon DEF At, IndexInv, TypeOK
<1>2. m[2] \in Record \cup {Free}
  BY <1>1
<1>3. Expired(Free)
  <2>1. Free.expires_at = 0 /\ now \in Nat
    BY Zenon DEF Free, IndexInv, TypeOK
  <2> QED
    BY <2>1 DEF Expired
<1> QED
  BY <1>2, <1>3, Zenon

\* resolve_conflict orders the registrations, and ties only those of one owner.
LEMMA PrecedesOrder ==
    ASSUME NEW g \in Record, NEW h \in Record
    PROVE  /\ ~Precedes(g, g)
           /\ ~Precedes(g, h) /\ ~Precedes(h, g) => g.owner = h.owner
           /\ \A f \in Record : Precedes(g, h) /\ ~Precedes(f, h) => ~Precedes(f, g)
<1>1. /\ \A f \in Record : f.owner \in Owners /\ f.registered_at \in Nat
      /\ \A o \in Owners : KeyRank[o] \in Nat
  BY ConstantFacts, Zenon DEF Record
<1>2. \A a, b \in Owners : KeyRank[a] = KeyRank[b] => a = b
  BY ConstantsAssumption, Zenon
<1>3. \A f \in Record : f.registered_at \in Nat /\ KeyRank[f.owner] \in Nat
  BY <1>1, Zenon
<1>4. ~Precedes(g, g)
  BY <1>3 DEF Precedes
<1>5. ~Precedes(g, h) /\ ~Precedes(h, g) => KeyRank[g.owner] = KeyRank[h.owner]
  BY <1>3 DEF Precedes
<1>6. \A f \in Record : Precedes(g, h) /\ ~Precedes(f, h) => ~Precedes(f, g)
  BY <1>3 DEF Precedes
<1> QED
  BY <1>1, <1>2, <1>4, <1>5, <1>6, Zenon

\* While nothing that a node processed has expired, its record is active.
LEMMA LeadIsActive ==
    ASSUME IndexInv, NEW k \in Nodes, NEW n \in Names, LeadOK(k, n), Fresh(k, n), handles[k][n] # Free
    PROVE  Active(handles[k][n]) /\ Leads(k, n)
<1>1. Leads(k, n)
  BY Zenon DEF LeadOK
<1>2. PICK m \in At(k, n) : m[2].expires_at <= handles[k][n].expires_at
  BY <1>1, Zenon DEF Leads
<1>3. ~Expired(m[2]) /\ m[2] \in Record
  BY SeenTyped, Zenon DEF Fresh
<1>4. handles[k][n] \in Record /\ now \in Nat
  BY Zenon DEF IndexInv, TypeOK
<1>5. m[2].expires_at \in Nat /\ handles[k][n].expires_at \in Nat
  BY <1>3, <1>4, Zenon DEF Record
<1>6. ~Expired(handles[k][n])
  BY <1>2, <1>3, <1>4, <1>5 DEF Expired
<1> QED
  BY <1>1, <1>6, Zenon DEF Active

\* What was fresh after a step was so before it.
LEMMA FreshBefore ==
    ASSUME IndexInv, NEW k \in Nodes, NEW n \in Names, At(k, n) \subseteq At(k, n)',
           now' = now \/ now' = now + 1, Fresh(k, n)'
    PROVE  Fresh(k, n)
<1> SUFFICES ASSUME NEW m \in At(k, n) PROVE ~Expired(m[2]) /\ m[2].pow = "full"
  BY Zenon DEF Fresh
<1>1. ~(now' >= m[2].expires_at) /\ m[2].pow = "full"
  BY Zenon DEF Fresh, Expired
<1>2. now \in Nat /\ m[2].expires_at \in Nat
  <2>1. m[2] \in Record \cup {Free}
    BY SeenTyped, Zenon
  <2>2. Free.expires_at = 0
    BY Zenon DEF Free
  <2>3. \A f \in Record : f.expires_at \in Nat
    BY Zenon DEF Record
  <2> QED
    BY <2>1, <2>2, <2>3 DEF IndexInv, TypeOK
<1> QED
  BY <1>1, <1>2 DEF Expired

\* What a step may do at a node to a name without processing a record of it: nothing,
\* drop a record that is not active, or move its date.
LEMMA LeadStays ==
    ASSUME IndexInv, NEW k \in Nodes, NEW n \in Names, LeadOK(k, n), At(k, n)' = At(k, n),
           now' = now \/ now' = now + 1,
           \/ handles'[k][n] = handles[k][n]
           \/ ~Active(handles[k][n]) /\ handles'[k][n] = Free
           \/ /\ handles[k][n] # Free /\ handles'[k][n] = [handles[k][n] EXCEPT !.expires_at = now + TTL]
              /\ handles[k][n].expires_at <= now + RenewWindow
    PROVE  LeadOK(k, n)'
<1> SUFFICES ASSUME Fresh(k, n)'
             PROVE  (At(k, n) = {} /\ handles'[k][n] = Free) \/ (handles'[k][n] # Free /\ Leads(k, n)')
  BY Zenon DEF LeadOK
<1>1. Fresh(k, n)
  BY FreshBefore, Zenon
<1>2. CASE handles[k][n] = Free
  <2>1. At(k, n) = {}
    BY <1>1, <1>2, Zenon DEF LeadOK
  <2> QED
    BY <1>2, <2>1, Zenon
<1>3. CASE handles[k][n] # Free
  <2> DEFINE g == handles[k][n]
             h == handles'[k][n]
  <2>1. Active(g) /\ Leads(k, n) /\ g \in Record
    <3>1. Active(g) /\ Leads(k, n)
      BY <1>1, <1>3, LeadIsActive, Zenon
    <3>2. g \in Record \cup {Free}
      BY Zenon DEF IndexInv, TypeOK
    <3> QED
      BY <1>3, <3>1, <3>2, Zenon
  <2>2. h \in Record /\ h.owner = g.owner /\ h.registered_at = g.registered_at /\ g.expires_at <= h.expires_at
    <3>1. g.expires_at \in Nat /\ now \in Nat /\ TTL \in Nat /\ RenewWindow \in Nat
      BY <2>1, ConstantFacts, Zenon DEF Record, IndexInv, TypeOK
    <3>2. CASE h = g
      <4>1. g.expires_at <= g.expires_at
        BY <3>1
      <4> QED
        BY <2>1, <3>2, <4>1, Zenon
    <3>3. CASE h = [g EXCEPT !.expires_at = now + TTL] /\ g.expires_at <= now + RenewWindow
      <4> HIDE DEF g, h
      <4>1. g.expires_at <= now + TTL /\ now + TTL \in Nat
        BY <3>1, <3>3, RenewAssumption
      <4> QED
        BY <2>1, <3>3, <4>1 DEF Record
    <3> QED
      BY <2>1, <3>2, <3>3, Zenon
  <2>3. h # Free
    <3>1. h.owner \in Owners /\ Free.owner = NoName
      BY <2>2, Zenon DEF Record, Free
    <3> QED
      BY <3>1, ConstantFacts, Zenon
  <2>4. PICK m \in At(k, n) : /\ g.owner = m[2].owner /\ g.registered_at = m[2].registered_at
                              /\ m[2].expires_at <= g.expires_at
    BY <2>1, Zenon DEF Leads
  <2>5. m[2].expires_at <= h.expires_at
    <3>1. m[2].expires_at \in Nat /\ g.expires_at \in Nat /\ h.expires_at \in Nat
      BY <1>1, <2>1, <2>2, SeenTyped, Zenon DEF Fresh, Record
    <3> HIDE DEF g, h
    <3> QED
      BY <2>2, <2>4, <3>1
  <2>6. \A x \in At(k, n) : ~Precedes(x[2], h)
    BY <2>1, <2>2, Zenon DEF Leads, Precedes
  <2>7. Leads(k, n)'
    BY <2>2, <2>4, <2>5, <2>6, Zenon DEF Leads, Precedes
  <2> QED
    BY <2>3, <2>7, Zenon
<1> QED
  BY <1>2, <1>3, Zenon

\* A record that a node registers or validates, and keeps when it wins.
LEMMA LeadMoves ==
    ASSUME IndexInv, NEW k \in Nodes, NEW n \in Names, LeadOK(k, n), NEW h \in Record, now' = now,
           At(k, n)' = At(k, n) \cup {<<n, h>>},
           \/ handles'[k][n] = h /\ (~Active(handles[k][n]) \/ Precedes(h, handles[k][n]))
           \/ handles'[k][n] = handles[k][n] /\ Active(handles[k][n]) /\ ~Precedes(h, handles[k][n])
    PROVE  LeadOK(k, n)'
<1> SUFFICES ASSUME Fresh(k, n)'
             PROVE  handles'[k][n] # Free /\ Leads(k, n)'
  BY Zenon DEF LeadOK
<1>1. Fresh(k, n)
  BY FreshBefore, Zenon
<1>2. h # Free /\ <<n, h>>[2] = h /\ h.expires_at \in Nat
  BY ConstantFacts DEF Record, Free
<1>3. h.expires_at <= h.expires_at
  BY <1>2
<1>4. \A x \in At(k, n) : x[2] \in Record
  BY <1>1, SeenTyped, Zenon DEF Fresh
<1>5. CASE handles'[k][n] = h
  <2>1. \A x \in At(k, n) : ~Precedes(x[2], h)
    <3>1. CASE handles[k][n] = Free
      BY <1>1, <3>1, Zenon DEF LeadOK
    <3>2. CASE handles[k][n] # Free
      <4>1. Active(handles[k][n]) /\ Leads(k, n) /\ handles[k][n] \in Record
        BY <1>1, <3>2, LeadIsActive, Zenon DEF IndexInv, TypeOK
      <4>2. CASE Precedes(h, handles[k][n])
        BY <1>4, <4>1, <4>2, PrecedesOrder, Zenon DEF Leads
      <4>3. CASE ~Precedes(h, handles[k][n])
        <5>1. handles[k][n] = h
          BY <1>5, <4>1, <4>3, Zenon
        <5> QED
          BY <4>1, <5>1, Zenon DEF Leads
      <4> QED
        BY <4>2, <4>3, Zenon
    <3> QED
      BY <3>1, <3>2, Zenon
  <2>2. ~Precedes(h, h)
    BY PrecedesOrder, Zenon
  <2>3. \A x \in At(k, n)' : ~Precedes(x[2], h)
    BY <1>2, <2>1, <2>2, Zenon
  <2>4. \E x \in At(k, n)' : h.owner = x[2].owner /\ h.registered_at = x[2].registered_at /\ x[2].expires_at <= h.expires_at
    BY <1>2, <1>3, Zenon
  <2> QED
    BY <1>2, <1>5, <2>3, <2>4, Zenon DEF Leads, Precedes
<1>6. CASE handles'[k][n] = handles[k][n] /\ Active(handles[k][n]) /\ ~Precedes(h, handles[k][n])
  <2>1. handles[k][n] # Free /\ Leads(k, n)
    BY <1>1, <1>6, LeadIsActive, Zenon DEF Active
  <2>2. \A x \in At(k, n)' : ~Precedes(x[2], handles[k][n])
    BY <1>2, <1>6, <2>1, Zenon DEF Leads
  <2>3. \E x \in At(k, n)' : /\ handles[k][n].owner = x[2].owner
                             /\ handles[k][n].registered_at = x[2].registered_at
                             /\ x[2].expires_at <= handles[k][n].expires_at
    BY <2>1, Zenon DEF Leads
  <2> QED
    BY <1>6, <2>1, <2>2, <2>3, Zenon DEF Leads, Precedes
<1> QED
  BY <1>5, <1>6, Zenon

\* What a step does to a name of which it processes no record.
Tidied(k, n) ==
    LET g == handles[k][n]
        h == handles'[k][n]
    IN  \/ h = g
        \/ ~Active(g) /\ h = Free
        \/ /\ g # Free /\ g.expires_at <= now + RenewWindow
           /\ h = [g EXCEPT !.expires_at = now + TTL]

\* A registration, refused or not, leaves the other names so.
LEMMA RegisterTidies ==
    ASSUME IndexInv, NEW o \in Owners, NEW m \in Names,
           RegisterRefused(o, m) \/ RegisterInCooldown(o, m) \/ Register(o, m),
           NEW k \in Nodes, NEW n \in Names
    PROVE  /\ Register(o, m) /\ k = Home[o] /\ n = m =>
                 ~Active(handles[k][n]) /\ handles'[k][n] = NewRecord(o)
           /\ (Register(o, m) /\ k = Home[o] /\ n = m) \/ Tidied(k, n)
<1> PICK j \in Nodes : j = Home[o]
  BY ConstantFacts, Zenon
<1> DEFINE H == Handles2(j, o)
<1>1. H \in [Names -> Record \cup {Free}] /\ handles \in [Nodes -> [Names -> Record \cup {Free}]]
  BY CleanUp, Zenon DEF NodeHandles, IndexInv, TypeOK
<1>2. \A x \in Names : H[x] = handles[j][x] \/ (~Active(handles[j][x]) /\ H[x] = Free)
  <2>1. ~HoldsActive(j, o)
    BY Zenon DEF RegisterRefused, RegisterInCooldown, Register
  <2>2. \A x \in Names : H[x] = IF x = Held(j, o) THEN Free ELSE handles[j][x]
    BY Zenon DEF Handles2
  <2>3. \A x \in Names : x # NoName
    BY ConstantFacts, Zenon
  <2>4. \A x \in Names : x = Held(j, o) => ~Active(handles[j][x])
    BY <2>1, <2>3, Zenon DEF HoldsActive
  <2> QED
    BY <2>2, <2>4
<1> HIDE DEF H
<1>3. CASE RegisterRefused(o, m)
  <2>1. handles' = [handles EXCEPT ![j] = H]
    BY <1>3, Zenon DEF RegisterRefused, H
  <2>2. handles'[k][n] = IF k = j THEN H[n] ELSE handles[k][n]
    BY <1>1, <2>1, Zenon
  <2> QED
    BY <1>2, <2>2, <1>3, Zenon DEF Tidied, RegisterRefused, Register
<1>4. CASE RegisterInCooldown(o, m)
  <2>1. handles' = [handles EXCEPT ![j] = [H EXCEPT ![m] = Free]] /\ ~Active(H[m])
    BY <1>4, Zenon DEF RegisterInCooldown, H
  <2>2. handles'[k][n] = IF k = j THEN IF n = m THEN Free ELSE H[n] ELSE handles[k][n]
    BY <1>1, <2>1, Zenon
  <2>3. ~Active(handles[j][m])
    BY <1>2, <2>1, Zenon
  <2> QED
    BY <1>2, <2>2, <2>3, <1>4, Zenon DEF Tidied, RegisterInCooldown, Register
<1>5. CASE Register(o, m)
  <2>1. handles' = [handles EXCEPT ![j] = [H EXCEPT ![m] = NewRecord(o)]] /\ ~Active(H[m])
    BY <1>5, Zenon DEF Register, H
  <2>2. handles'[k][n] = IF k = j THEN IF n = m THEN NewRecord(o) ELSE H[n] ELSE handles[k][n]
    BY <1>1, <2>1, Zenon
  <2>3. ~Active(handles[j][m])
    BY <1>2, <2>1, Zenon
  <2> QED
    BY <1>2, <2>2, <2>3, <1>5, Zenon DEF Tidied
<1> QED
  BY <1>3, <1>4, <1>5, Zenon

\* The clean-up of the expired records, with or without a renewal.
LEMMA GcTidies ==
    ASSUME IndexInv, NEW k \in Nodes, NEW n \in Names,
           (\E j \in Nodes : Gc(j)) \/ (\E o \in Owners : GcAutoRenew(o))
    PROVE  Tidied(k, n)
<1> USE DEF IndexInv, TypeOK
<1>1. \A j \in Nodes : /\ GcHandles(j) \in [Names -> Record \cup {Free}]
                       /\ \A x \in Names : \/ GcHandles(j)[x] = handles[j][x]
                                           \/ ~Active(handles[j][x]) /\ GcHandles(j)[x] = Free
  BY Zenon DEF GcHandles, Active
<1>2. ASSUME NEW j \in Nodes, Gc(j)
      PROVE  Tidied(k, n)
  <2>1. handles'[k][n] = IF k = j THEN GcHandles(j)[n] ELSE handles[k][n]
    BY <1>2, Zenon DEF Gc
  <2> QED
    BY <1>1, <2>1, Zenon DEF Tidied
<1>3. ASSUME NEW o \in Owners, GcAutoRenew(o)
      PROVE  Tidied(k, n)
  <2> PICK j \in Nodes : j = Home[o]
    BY ConstantFacts, Zenon
  <2> PICK mine : mine = GcOwners(j)[o]
    BY Zenon
  <2>1. handles' = [handles EXCEPT ![j] = [GcHandles(j) EXCEPT ![mine] = AutoRenewed(@)]]
    BY <1>3, Zenon DEF GcAutoRenew
  <2>2. handles'[k][n] = IF k = j THEN IF n = mine THEN AutoRenewed(GcHandles(j)[n]) ELSE GcHandles(j)[n]
                         ELSE handles[k][n]
    BY <1>1, <2>1, Zenon
  <2>3. CASE k = j /\ n = mine
    <3>1. handles'[k][n] = AutoRenewed(GcHandles(k)[n])
      BY <2>2, <2>3, Zenon
    <3>2. CASE GcHandles(k)[n] = Free
      BY <1>1, <3>1, <3>2, Zenon DEF AutoRenewed, Tidied
    <3>3. CASE GcHandles(k)[n] = handles[k][n]
      BY <3>1, <3>3, Zenon DEF AutoRenewed, Tidied
    <3> QED
      BY <1>1, <3>2, <3>3, Zenon
  <2> QED
    BY <1>1, <2>2, <2>3, Zenon DEF Tidied
<1> QED
  BY <1>2, <1>3, Zenon

\* A node processes a record of a name.
Processes(j, m, h) == seen' = [seen EXCEPT ![j] = @ \cup {<<m, h>>}]

\* What a node has processed of a name, after a node processed a record.
LEMMA SeenHere ==
    ASSUME IndexInv, NEW k \in Nodes, NEW n \in Names, NEW h, Processes(k, n, h)
    PROVE  At(k, n)' = At(k, n) \cup {<<n, h>>}
<1>1. seen'[k] = seen[k] \cup {<<n, h>>}
  BY Zenon DEF Processes, IndexInv, TypeOK
<1>2. <<n, h>>[1] = n
  OBVIOUS
<1> QED
  BY <1>1, <1>2, SMT DEF At

\* A record of another name, or at another node, is none of it.
LEMMA SeenElsewhere ==
    ASSUME IndexInv, NEW k \in Nodes, NEW n \in Names, NEW h,
           NEW j \in Nodes, NEW m \in Names, Processes(j, m, h), k # j \/ n # m
    PROVE  At(k, n)' = At(k, n)
<1>1. seen'[k] = IF k = j THEN seen[k] \cup {<<m, h>>} ELSE seen[k]
  BY Zenon DEF Processes, IndexInv, TypeOK
<1>2. <<m, h>>[1] = m
  OBVIOUS
<1> QED
  BY <1>1, <1>2, SMT DEF At

\* A name that is only tidied keeps its leader.
LEMMA TidiedStays ==
    ASSUME IndexInv, NEW k \in Nodes, NEW n \in Names, LeadOK(k, n), At(k, n)' = At(k, n),
           now' = now \/ now' = now + 1, Tidied(k, n)
    PROVE  LeadOK(k, n)'
BY LeadStays, Zenon DEF Tidied

\* A node that processed a renewal or a release has more than fresh records.
LEMMA NotFresh ==
    ASSUME NEW k \in Nodes, NEW n \in Names, NEW h, <<n, h>> \in At(k, n)', now' \in Nat,
           h.pow = "renewal" \/ h = Free
    PROVE  LeadOK(k, n)'
<1>1. <<n, h>>[2] = h
  OBVIOUS
<1>2. now' >= Free.expires_at
  BY DEF Free
<1>3. ~(Fresh(k, n)')
  BY <1>1, <1>2, Zenon DEF Fresh, Expired
<1> QED
  BY <1>3, Zenon DEF LeadOK

\* Every step keeps who leads where all that was processed is fresh.
LEMMA LeadStep ==
    ASSUME IndexInv, [Next]_vars, NEW k \in Nodes, NEW n \in Names, LeadOK(k, n)
    PROVE  LeadOK(k, n)'
<1>1. ASSUME UNCHANGED <<handles, seen>>, now' = now \/ now' = now + 1
      PROVE  LeadOK(k, n)'
  <2>1. At(k, n)' = At(k, n) /\ Tidied(k, n)
    BY <1>1, Zenon DEF At, Tidied
  <2> QED
    BY <1>1, <2>1, TidiedStays, Zenon
<1>2. ASSUME NEW o \in Owners, NEW m \in Names,
             RegisterRefused(o, m) \/ RegisterInCooldown(o, m)
      PROVE  LeadOK(k, n)'
  <2>1. At(k, n)' = At(k, n) /\ now' = now
    BY <1>2, Zenon DEF RegisterRefused, RegisterInCooldown, At
  <2>2. Tidied(k, n)
    BY <1>2, RegisterTidies, Zenon DEF RegisterRefused, RegisterInCooldown, Register
  <2> QED
    BY <2>1, <2>2, TidiedStays, Zenon
<1>3. ASSUME NEW o \in Owners, NEW m \in Names, Register(o, m)
      PROVE  LeadOK(k, n)'
  <2>1. /\ Processes(Home[o], m, NewRecord(o)) /\ now' = now
        /\ Home[o] \in Nodes
    BY <1>3, ConstantFacts, Zenon DEF Register, Processes
  <2>2. CASE k = Home[o] /\ n = m
    <3>1. At(k, n)' = At(k, n) \cup {<<n, NewRecord(o)>>}
      <4>1. Processes(k, n, NewRecord(o))
        BY <2>1, <2>2, Zenon
      <4> QED
        BY <4>1, SeenHere, Zenon
    <3>2. NewRecord(o) \in Record
      BY NewRecordType, Zenon DEF IndexInv, TypeOK
    <3>3. handles'[k][n] = NewRecord(o) /\ ~Active(handles[k][n])
      BY <1>3, <2>2, RegisterTidies
    <3> QED
      BY <2>1, <3>1, <3>2, <3>3, LeadMoves, Zenon
  <2>3. CASE ~(k = Home[o] /\ n = m)
    <3>1. At(k, n)' = At(k, n)
      BY <2>1, <2>3, SeenElsewhere, Zenon
    <3>2. Tidied(k, n)
      BY <1>3, <2>3, RegisterTidies, Zenon
    <3> QED
      BY <2>1, <3>1, <3>2, TidiedStays, Zenon
  <2> QED
    BY <2>2, <2>3, Zenon
<1>4. ASSUME NEW o \in Owners, NEW m \in Names, Renew(o, m) \/ Release(o, m)
      PROVE  LeadOK(k, n)'
  <2>1. PICK h : /\ Processes(Home[o], m, h)
                 /\ handles' = [handles EXCEPT ![Home[o]][m] = h]
                 /\ h.pow = "renewal" \/ h = Free
    <3>1. [NewRecord(o) EXCEPT !.pow = "renewal"].pow = "renewal"
      BY Zenon DEF NewRecord
    <3> QED
      BY <1>4, <3>1, Zenon DEF Renew, Release, Processes
  <2>2. now' = now /\ Home[o] \in Nodes
    BY <1>4, ConstantFacts, Zenon DEF Renew, Release
  <2>3. CASE k = Home[o] /\ n = m
    <3>1. At(k, n)' = At(k, n) \cup {<<n, h>>}
      <4>1. Processes(k, n, h)
        BY <2>1, <2>3, Zenon
      <4> QED
        BY <4>1, SeenHere, Zenon
    <3> QED
      BY <2>1, <2>2, <3>1, NotFresh, Zenon DEF IndexInv, TypeOK
  <2>4. CASE ~(k = Home[o] /\ n = m)
    <3>1. At(k, n)' = At(k, n)
      BY <2>1, <2>2, <2>4, SeenElsewhere, Zenon
    <3>2. Tidied(k, n)
      BY <2>1, <2>2, <2>4, Zenon DEF Tidied, IndexInv, TypeOK
    <3> QED
      BY <2>2, <3>1, <3>2, TidiedStays, Zenon
  <2> QED
    BY <2>3, <2>4, Zenon
<1>5. ASSUME NEW j \in Nodes, NEW m \in wire, Receive(j, m[1], m[2])
      PROVE  LeadOK(k, n)'
  <2>1. m[1] \in Names /\ m[2] \in Record
    BY DEF IndexInv, TypeOK
  <2>2. Processes(j, m[1], m[2]) /\ now' = now
    BY <1>5, Zenon DEF Receive, Processes
  <2>3. \/ handles' = [handles EXCEPT ![j][m[1]] = m[2]] /\ Accepts(j, m[1], m[2])
        \/ handles' = handles /\ ~Accepts(j, m[1], m[2])
    BY <1>5, Zenon DEF Receive, InsertValidated
  <2>4. CASE k = j /\ n = m[1]
    <3>1. At(k, n)' = At(k, n) \cup {<<n, m[2]>>}
      <4>1. Processes(k, n, m[2])
        BY <2>2, <2>4, Zenon
      <4> QED
        BY <4>1, SeenHere, Zenon
    <3>2. \/ handles'[k][n] = m[2] /\ Accepts(k, n, m[2])
          \/ handles'[k][n] = handles[k][n] /\ ~Accepts(k, n, m[2])
      BY <2>1, <2>3, <2>4 DEF IndexInv, TypeOK
    <3> QED
      BY <2>1, <2>2, <3>1, <3>2, LeadMoves, Zenon DEF Accepts
  <2>5. CASE ~(k = j /\ n = m[1])
    <3>1. At(k, n)' = At(k, n)
      BY <2>1, <2>2, <2>5, SeenElsewhere, Zenon
    <3>2. Tidied(k, n)
      BY <2>1, <2>3, <2>5 DEF Tidied, IndexInv, TypeOK
    <3> QED
      BY <2>2, <3>1, <3>2, TidiedStays, Zenon
  <2> QED
    BY <2>4, <2>5, Zenon
<1>6. ASSUME (\E j \in Nodes : Gc(j)) \/ (\E o \in Owners : GcAutoRenew(o))
      PROVE  LeadOK(k, n)'
  <2>1. now' = now /\ At(k, n)' = At(k, n)
    BY <1>6, Zenon DEF Gc, GcAutoRenew, At
  <2> QED
    BY <1>6, <2>1, GcTidies, TidiedStays, Zenon
<1> QED
  BY <1>1, <1>2, <1>3, <1>4, <1>5, <1>6, Zenon
     DEF Next, HandlesApi, Tick, Offer, vars

\* A renewal is known only where it was made: a record of renewal difficulty is
\* not accepted elsewhere.
RenewalsAtHome ==
    \A k \in Nodes : \A m \in seen[k] : m[2].pow = "renewal" => k = Home[m[2].owner]

\* Only a renewal adds one, at the node of its owner.
LEMMA RenewalsStay ==
    ASSUME IndexInv, [Next]_vars, RenewalsAtHome
    PROVE  RenewalsAtHome'
<1> USE DEF IndexInv, TypeOK
<1>1. ASSUME NEW j \in Nodes, NEW n, NEW h, seen' = [seen EXCEPT ![j] = @ \cup {<<n, h>>}],
             h.pow = "renewal" => j = Home[h.owner]
      PROVE  RenewalsAtHome'
  <2> SUFFICES ASSUME NEW k \in Nodes, NEW m \in seen'[k], m[2].pow = "renewal"
               PROVE  k = Home[m[2].owner]
    BY Zenon DEF RenewalsAtHome
  <2>1. m \in seen[k] \/ (k = j /\ m = <<n, h>>)
    BY <1>1, Zenon
  <2>2. <<n, h>>[2] = h
    OBVIOUS
  <2> QED
    BY <1>1, <2>1, <2>2, Zenon DEF RenewalsAtHome
<1>2. CASE seen' = seen
  BY <1>2, Zenon DEF RenewalsAtHome
<1>3. ASSUME NEW o \in Owners, NEW n \in Names, Register(o, n) \/ Renew(o, n) \/ Release(o, n)
      PROVE  RenewalsAtHome'
  <2> DEFINE r == [NewRecord(o) EXCEPT !.pow = "renewal"]
  <2>1. /\ NewRecord(o).pow = "full" /\ r.owner = o /\ Free.pow = "full" /\ "full" # "renewal"
        /\ Home[o] \in Nodes
    BY ConstantFacts, Zenon DEF NewRecord, Free
  <2>2. PICK h \in {NewRecord(o), r, Free} : seen' = [seen EXCEPT ![Home[o]] = @ \cup {<<n, h>>}]
    BY <1>3, Zenon DEF Register, Renew, Release
  <2>3. h.pow = "renewal" => Home[o] = Home[h.owner]
    BY <2>1, Zenon
  <2> HIDE DEF r
  <2> QED
    BY <1>1, <2>1, <2>2, <2>3, Zenon
<1>4. ASSUME NEW j \in Nodes, NEW m \in wire, Receive(j, m[1], m[2])
      PROVE  RenewalsAtHome'
  <2>1. m[2].pow = "full" /\ "full" # "renewal"
    BY <1>4, Zenon DEF Receive, Validate
  <2>2. seen' = [seen EXCEPT ![j] = @ \cup {<<m[1], m[2]>>}]
    BY <1>4, Zenon DEF Receive
  <2> QED
    BY <1>1, <2>1, <2>2, Zenon
<1> QED
  BY <1>2, <1>3, <1>4, Zenon
     DEF Next, HandlesApi, RegisterRefused, RegisterInCooldown, Gc, GcAutoRenew, Tick, Offer, vars

\* Who leads where, and where renewals are.
LeadInv == (\A k \in Nodes, n \in Names : LeadOK(k, n)) /\ RenewalsAtHome

\* At the start nothing is registered or processed.
LEMMA LeadInit == Init => LeadInv
<1> SUFFICES ASSUME Init PROVE LeadInv
  OBVIOUS
<1>1. \A k \in Nodes : seen[k] = {} /\ \A n \in Names : handles[k][n] = Free
  BY Zenon DEF Init
<1>2. \A k \in Nodes, n \in Names : At(k, n) = {}
  BY <1>1, Zenon DEF At
<1> QED
  BY <1>1, <1>2, Zenon DEF LeadInv, LeadOK, RenewalsAtHome

\* Two leaders over the same records have the same owner.
LEMMA LeadersAgree ==
    ASSUME IndexInv, LeadInv, NEW j \in Nodes, NEW k \in Nodes, NEW n \in Names,
           At(j, n) = At(k, n), \A m \in At(j, n) : ~Expired(m[2])
    PROVE  handles[j][n].owner = handles[k][n].owner
<1>1. CASE j = k
  BY <1>1, Zenon
<1>2. CASE j # k
  <2>1. \A m \in At(j, n) : m[2] \in Record
    BY SeenTyped, Zenon
  <2>2. \A m \in At(j, n) : m[2].pow = "full"
    <3> SUFFICES ASSUME NEW m \in At(j, n) PROVE m[2].pow = "full"
      BY Zenon
    <3>1. m \in seen[j] /\ m \in seen[k]
      BY Zenon DEF At
    <3>2. m[2].pow # "renewal"
      BY <1>2, <3>1, Zenon DEF LeadInv, RenewalsAtHome
    <3> QED
      BY <2>1, <3>2, Zenon DEF Record
  <2>3. Fresh(j, n) /\ Fresh(k, n)
    BY <2>2, Zenon DEF Fresh
  <2>4. LeadOK(j, n) /\ LeadOK(k, n)
    BY Zenon DEF LeadInv
  <2>5. CASE At(j, n) = {}
    <3>1. handles[j][n] = Free /\ handles[k][n] = Free
      BY <2>3, <2>4, <2>5, Zenon DEF LeadOK, Leads
    <3> QED
      BY <3>1, Zenon
  <2>6. CASE At(j, n) # {}
    <3> PICK g : g = handles[j][n]
      BY Zenon
    <3> PICK h : h = handles[k][n]
      BY Zenon
    <3>1. g # Free /\ h # Free /\ Leads(j, n) /\ Leads(k, n)
      BY <2>3, <2>4, <2>6, Zenon DEF LeadOK
    <3>2. g \in Record \cup {Free} /\ h \in Record \cup {Free}
      BY Zenon DEF IndexInv, TypeOK
    <3>3. g \in Record /\ h \in Record
      BY <3>1, <3>2, Zenon
    <3>4. ~Precedes(g, h)
      BY <3>1, Zenon DEF Leads, Precedes
    <3>5. ~Precedes(h, g)
      BY <3>1, Zenon DEF Leads, Precedes
    <3> QED
      BY <3>3, <3>4, <3>5, PrecedesOrder, Zenon
  <2> QED
    BY <2>5, <2>6, Zenon
<1> QED
  BY <1>1, <1>2, Zenon

\* For any number of nodes, owners, names and records, and any order of delivery:
\* nodes that have processed the same unexpired records of a name agree on
\* who holds it.
THEOREM RegistriesAgree == Spec => []Agreement
<1>1. IndexInv /\ LeadInv /\ [Next]_vars => LeadInv'
  BY LeadStep, RenewalsStay, Zenon DEF LeadInv
<1>2. IndexInv /\ LeadInv => Agreement
  BY LeadersAgree, Zenon DEF Agreement, At
<1> QED
  BY <1>1, <1>2, LeadInit, Invariance, PTL DEF Spec

-----------------------------------------------------------------------------
(* Start and shutdown. *)

Starts == Callers \cup {Boot}
SpawnNames == {TopicOrder[i] : i \in Nat}
StartCalls == [step : {"idle", "bind", "spawn"}, net : Nat \cup {NoNet}, topics : SUBSET SpawnNames]

\* A call is idle, has spawned nothing before it has its endpoint, and has one then.
CallOK(x) ==
    /\ x \in StartCalls /\ IsFiniteSet(x.topics)
    /\ x.step = "idle" => x = Idle
    /\ x.step = "bind" => x.net = NoNet /\ x.topics = {}
    /\ x.step = "spawn" => x.net \in Nat

NodeTypeOK ==
    /\ signal \in Nat /\ endpoints \in Nat
    /\ calls \in [Starts -> StartCalls] /\ \A c \in Starts : CallOK(calls[c])
    /\ \A l \in loops : l.seen \in Nat /\ l.seen <= signal

HasLoop(t, net) == \E l \in loops : l.name = t /\ l.net = net

\* Before a shutdown, what a call has spawned is there, and so is what the network
\* of the services has.
SpawnedThere ==
    signal = 0 => \A c \in Starts : calls[c].step = "spawn" =>
                     \A t \in calls[c].topics : HasLoop(t, calls[c].net)

IngestInv == NodeTypeOK /\ SpawnedThere /\ NetworkIngests

\* What the steps of a call make of it.
LEMMA CallSteps ==
    ASSUME NodeTypeOK, NEW c \in Starts
    PROVE  /\ CallOK(Idle) /\ Idle.step = "idle" /\ Idle.topics = {} /\ Idle.net = NoNet
           /\ LET x == [calls[c] EXCEPT !.step = "bind"] IN
                 calls[c] = Idle => CallOK(x) /\ x.step = "bind" /\ x.topics = {}
           /\ LET x == [calls[c] EXCEPT !.step = "spawn", !.net = endpoints + 1] IN
                 calls[c].step = "bind" => CallOK(x) /\ x.step = "spawn" /\ x.topics = {} /\ x.net = endpoints + 1
           /\ LET t == TopicOrder[Cardinality(calls[c].topics) + 1]
                  x == [calls[c] EXCEPT !.topics = @ \cup {t}]
              IN calls[c].step = "spawn" => /\ CallOK(x) /\ x.step = "spawn" /\ x.net = calls[c].net
                                            /\ x.topics = calls[c].topics \cup {t}
<1>1. CallOK(Idle) /\ Idle.step = "idle" /\ Idle.topics = {} /\ Idle.net = NoNet
  BY FS_EmptySet, Zenon DEF Idle, CallOK, StartCalls
<1>2. CallOK(calls[c]) /\ calls[c] \in StartCalls
  BY Zenon DEF NodeTypeOK
<1>3. ASSUME calls[c] = Idle
      PROVE  LET x == [calls[c] EXCEPT !.step = "bind"] IN CallOK(x) /\ x.step = "bind" /\ x.topics = {}
  <2> DEFINE x == [calls[c] EXCEPT !.step = "bind"]
  <2>1. x \in StartCalls /\ x.step = "bind" /\ x.topics = {} /\ x.net = NoNet
    BY <1>1, <1>2, <1>3, Zenon DEF StartCalls
  <2> HIDE DEF x
  <2> QED
    BY <2>1, FS_EmptySet, Zenon DEF CallOK, x
<1>4. ASSUME calls[c].step = "bind"
      PROVE  LET x == [calls[c] EXCEPT !.step = "spawn", !.net = endpoints + 1] IN
             CallOK(x) /\ x.step = "spawn" /\ x.topics = {} /\ x.net = endpoints + 1
  <2> DEFINE x == [calls[c] EXCEPT !.step = "spawn", !.net = endpoints + 1]
  <2>1. calls[c].topics = {} /\ endpoints + 1 \in Nat
    BY <1>2, <1>4 DEF CallOK, NodeTypeOK
  <2>2. x \in StartCalls /\ x.step = "spawn" /\ x.topics = {} /\ x.net = endpoints + 1
    BY <1>2, <2>1, Zenon DEF StartCalls
  <2> HIDE DEF x
  <2> QED
    BY <2>1, <2>2, FS_EmptySet, Zenon DEF CallOK, x
<1>5. ASSUME calls[c].step = "spawn"
      PROVE  LET t == TopicOrder[Cardinality(calls[c].topics) + 1]
                 x == [calls[c] EXCEPT !.topics = @ \cup {t}]
             IN /\ CallOK(x) /\ x.step = "spawn" /\ x.net = calls[c].net
                /\ x.topics = calls[c].topics \cup {t}
  <2> DEFINE t == TopicOrder[Cardinality(calls[c].topics) + 1]
             x == [calls[c] EXCEPT !.topics = @ \cup {t}]
  <2>1. calls[c].topics \in SUBSET SpawnNames /\ IsFiniteSet(calls[c].topics)
    BY <1>2, Zenon DEF CallOK, StartCalls
  <2>2. Cardinality(calls[c].topics) \in Nat
    BY <2>1, FS_CardinalityType, Zenon
  <2>3. t \in SpawnNames
    BY <2>2 DEF SpawnNames
  <2> HIDE DEF t
  <2>4. x \in StartCalls /\ x.step = "spawn" /\ x.net = calls[c].net /\ x.topics = calls[c].topics \cup {t}
    BY <1>2, <1>5, <2>1, <2>3, Zenon DEF StartCalls
  <2>5. IsFiniteSet(calls[c].topics \cup {t}) /\ calls[c].net \in Nat
    BY <1>2, <1>5, <2>1, FS_AddElement, Zenon DEF CallOK
  <2> HIDE DEF x
  <2> QED
    BY <2>4, <2>5, Zenon DEF CallOK, x, t
<1> QED
  BY <1>1, <1>3, <1>4, <1>5, Zenon

\* The state of the calls and of the network of the services after a step.
Moved(c, x) == calls' = [calls EXCEPT ![c] = x]

\* What each step of start_network does to the calls, the loops and the network.
LEMMA StartSteps ==
    ASSUME NodeTypeOK, NEW c \in Starts
    PROVE  /\ CheckRunning(c) =>
                /\ UNCHANGED <<signal, endpoints, loops, svcNet, halfway>> /\ calls[c] = Idle
                /\ \/ calls' = calls /\ UNCHANGED <<overlap, late>>
                   \/ /\ Moved(c, [calls[c] EXCEPT !.step = "bind"]) /\ svcNet = NoNet
                      /\ overlap' = (overlap \/ Starting # {})
                      /\ late' = (late \/ (~running /\ signal > 0))
           /\ BindEndpoint(c) =>
                /\ UNCHANGED <<signal, loops, svcNet, overlap, halfway, late>> /\ calls[c].step = "bind"
                /\ endpoints' = endpoints + 1
                /\ \/ Moved(c, Idle)
                   \/ Moved(c, [calls[c] EXCEPT !.step = "spawn", !.net = endpoints + 1])
           /\ StartFails(c) =>
                /\ UNCHANGED <<signal, endpoints, loops, svcNet, overlap, late>>
                /\ halfway' = (halfway \/ calls[c].topics # {})
                /\ Moved(c, Idle)
<1>1. calls[c] = Idle => [calls EXCEPT ![c] = Idle] = calls
  BY Zenon DEF NodeTypeOK
<1>2. ASSUME CheckRunning(c)
      PROVE  /\ UNCHANGED <<signal, endpoints, loops, svcNet, halfway>> /\ calls[c] = Idle
             /\ \/ calls' = calls /\ UNCHANGED <<overlap, late>>
                \/ /\ Moved(c, [calls[c] EXCEPT !.step = "bind"]) /\ svcNet = NoNet
                   /\ overlap' = (overlap \/ Starting # {})
                   /\ late' = (late \/ (~running /\ signal > 0))
  <2>1. UNCHANGED <<signal, endpoints, loops, svcNet, halfway>> /\ calls[c] = Idle
    BY <1>2, Zenon DEF CheckRunning
  <2>2. CASE svcNet # NoNet \/ ~unlocked
    BY <1>1, <1>2, <2>1, <2>2, Zenon DEF CheckRunning, Return
  <2>3. CASE ~(svcNet # NoNet \/ ~unlocked)
    <3>1. /\ calls' = [calls EXCEPT ![c].step = "bind"]
          /\ overlap' = (overlap \/ Starting # {})
          /\ late' = (late \/ (~running /\ signal > 0))
      BY <1>2, <2>3, Zenon DEF CheckRunning
    <3> QED
      BY <2>1, <2>3, <3>1, Zenon DEF Moved
  <2> QED
    BY <2>2, <2>3, Zenon
<1>3. ASSUME BindEndpoint(c)
      PROVE  /\ UNCHANGED <<signal, loops, svcNet, overlap, halfway, late>> /\ calls[c].step = "bind"
             /\ endpoints' = endpoints + 1
             /\ \/ Moved(c, Idle)
                \/ Moved(c, [calls[c] EXCEPT !.step = "spawn", !.net = endpoints + 1])
  BY <1>3, Zenon DEF BindEndpoint, Return, Moved
<1>4. ASSUME StartFails(c)
      PROVE  /\ UNCHANGED <<signal, endpoints, loops, svcNet, overlap, late>>
             /\ halfway' = (halfway \/ calls[c].topics # {})
             /\ Moved(c, Idle)
  BY <1>4, Zenon DEF StartFails, Return, Moved
<1> QED
  BY <1>2, <1>3, <1>4, Zenon

\* Every step keeps the types.
LEMMA NodeTyped == ASSUME NodeTypeOK, [NodeNext]_nodeVars PROVE NodeTypeOK'
<1>1. ASSUME NEW c \in Starts, NEW x, CallOK(x), Moved(c, x), UNCHANGED <<signal, loops>>, endpoints' \in Nat
      PROVE  NodeTypeOK'
  <2>1. x \in StartCalls
    BY <1>1, Zenon DEF CallOK
  <2>2. calls' \in [Starts -> StartCalls] /\ \A d \in Starts : calls'[d] = IF d = c THEN x ELSE calls[d]
    BY <1>1, <2>1, Zenon DEF Moved, NodeTypeOK
  <2>3. \A d \in Starts : CallOK(calls'[d])
    BY <1>1, <2>2, Zenon DEF NodeTypeOK
  <2>4. \A d \in Starts : CallOK(calls[d])'
    BY <2>3, Zenon DEF CallOK
  <2> QED
    BY <1>1, <2>2, <2>4, Zenon DEF NodeTypeOK
<1>2. ASSUME UNCHANGED <<signal, endpoints, calls>>, \A l \in loops' : l \in loops \/ l.seen = signal
      PROVE  NodeTypeOK'
  BY <1>2 DEF NodeTypeOK, CallOK
<1>3. ASSUME NEW c \in Starts, CheckRunning(c) PROVE NodeTypeOK'
  <2>1. CASE calls' = calls
    BY <1>2, <1>3, <2>1, StartSteps, Zenon
  <2>2. CASE calls' # calls
    BY <1>1, <1>3, <2>2, StartSteps, CallSteps, Zenon DEF NodeTypeOK
  <2> QED
    BY <2>1, <2>2, Zenon
<1>4. ASSUME NEW c \in Starts, BindEndpoint(c) PROVE NodeTypeOK'
  <2>1. endpoints' \in Nat
    BY <1>4 DEF BindEndpoint, NodeTypeOK
  <2> QED
    BY <1>1, <1>4, <2>1, StartSteps, CallSteps, Zenon
<1>5. ASSUME NEW c \in Starts, StartFails(c) PROVE NodeTypeOK'
  BY <1>1, <1>5, StartSteps, CallSteps, Zenon DEF NodeTypeOK
<1>6. ASSUME NEW c \in Starts, SpawnIngest(c) PROVE NodeTypeOK'
  <2> DEFINE t == TopicOrder[Cardinality(calls[c].topics) + 1]
             x == [calls[c] EXCEPT !.topics = @ \cup {t}]
             l == Subscribed(t, calls[c].net)
  <2>1. Moved(c, x) /\ loops' = loops \cup {l} /\ UNCHANGED <<signal, endpoints>> /\ calls[c].step = "spawn"
    BY <1>6, Zenon DEF SpawnIngest, Moved
  <2>2. CallOK(x) /\ x \in StartCalls /\ l.seen = signal
    BY <2>1, CallSteps, Zenon DEF CallOK, Subscribed
  <2> HIDE DEF x, l
  <2>3. calls' \in [Starts -> StartCalls] /\ \A d \in Starts : CallOK(calls'[d])
    BY <2>1, <2>2, Zenon DEF Moved, NodeTypeOK
  <2>4. \A d \in Starts : CallOK(calls[d])'
    BY <2>3, Zenon DEF CallOK
  <2> QED
    BY <2>1, <2>2, <2>3, <2>4 DEF NodeTypeOK
<1>7. ASSUME NEW c \in Starts, StoreNetwork(c) PROVE NodeTypeOK'
  <2>1. Moved(c, Idle) /\ UNCHANGED <<signal, loops, endpoints>>
    BY <1>7, Zenon DEF StoreNetwork, Return, Moved
  <2> QED
    BY <1>1, <2>1, CallSteps, Zenon DEF NodeTypeOK
<1>8. ASSUME StartNode \/ NetworkAtBoot \/ Unlock \/ Lock PROVE NodeTypeOK'
  BY <1>2, <1>8, Zenon DEF StartNode, NetworkAtBoot, Unlock, Lock
<1>9. ASSUME SpawnBackground PROVE NodeTypeOK'
  <2>1. loops' = loops \cup {Subscribed(b, NoNet) : b \in Background}
    BY <1>9, Zenon DEF SpawnBackground
  <2>2. \A b \in Background : Subscribed(b, NoNet).seen = signal
    BY Zenon DEF Subscribed
  <2> QED
    BY <1>2, <1>9, <2>1, <2>2, Zenon DEF SpawnBackground
<1>10. ASSUME Shutdown PROVE NodeTypeOK'
  <2>1. signal' = signal + 1 /\ UNCHANGED <<loops, calls, endpoints>>
    BY <1>10, Zenon DEF Shutdown
  <2> QED
    BY <2>1 DEF NodeTypeOK, CallOK
<1>11. ASSUME NEW l \in loops, LoopEnds(l) PROVE NodeTypeOK'
  BY <1>2, <1>11, Zenon DEF LoopEnds
<1>12. CASE UNCHANGED nodeVars
  BY <1>2, <1>12, Zenon DEF nodeVars
<1> QED
  BY <1>3, <1>4, <1>5, <1>6, <1>7, <1>8, <1>9, <1>10, <1>11, <1>12, Zenon DEF NodeNext, Starts

\* Every step of a node that was not shut down keeps the loops of its networks.
LEMMA IngestStep == IngestInv /\ [NodeNext]_nodeVars => IngestInv'
<1> SUFFICES ASSUME IngestInv, [NodeNext]_nodeVars PROVE SpawnedThere' /\ NetworkIngests'
  BY NodeTyped, Zenon DEF IngestInv
<1> USE DEF IngestInv
<1> DEFINE Goal == SpawnedThere' /\ NetworkIngests'
\* Calls of which none has more topics than before, and no loop less.
<1>1. ASSUME UNCHANGED <<signal, svcNet>>, loops \subseteq loops',
             \A d \in Starts : calls'[d].step = "spawn" => calls'[d] = calls[d] \/ calls'[d].topics = {}
      PROVE  Goal
  BY <1>1 DEF SpawnedThere, NetworkIngests, HasLoop
<1>2. ASSUME NEW c \in Starts, CheckRunning(c) PROVE Goal
  <2>1. CASE calls' = calls
    BY <1>1, <1>2, <2>1, StartSteps, Zenon
  <2>2. CASE calls' # calls
    <3>1. Moved(c, [calls[c] EXCEPT !.step = "bind"]) /\ [calls[c] EXCEPT !.step = "bind"].topics = {}
      BY <1>2, <2>2, StartSteps, CallSteps, Zenon
    <3>2. \A d \in Starts : calls'[d] = calls[d] \/ calls'[d].topics = {}
      BY <3>1, Zenon DEF Moved, NodeTypeOK
    <3> QED
      BY <1>1, <1>2, <3>2, StartSteps, Zenon
  <2> QED
    BY <2>1, <2>2, Zenon
<1>3. ASSUME NEW c \in Starts, BindEndpoint(c) \/ StartFails(c) PROVE Goal
  <2>1. PICK x : Moved(c, x) /\ x.topics = {}
    BY <1>3, StartSteps, CallSteps, Zenon
  <2>2. \A d \in Starts : calls'[d] = calls[d] \/ calls'[d].topics = {}
    BY <2>1, Zenon DEF Moved, NodeTypeOK
  <2> QED
    BY <1>1, <1>3, <2>2, StartSteps, Zenon
<1>4. ASSUME NEW c \in Starts, SpawnIngest(c) PROVE Goal
  <2> DEFINE t == TopicOrder[Cardinality(calls[c].topics) + 1]
             x == [calls[c] EXCEPT !.topics = @ \cup {t}]
             l == Subscribed(t, calls[c].net)
  <2>1. Moved(c, x) /\ loops' = loops \cup {l} /\ UNCHANGED <<signal, svcNet>> /\ calls[c].step = "spawn"
    BY <1>4, Zenon DEF SpawnIngest, Moved
  <2>2. x.topics = calls[c].topics \cup {t} /\ x.net = calls[c].net
    BY <2>1, CallSteps, Zenon
  <2>3. l.name = t /\ l.net = calls[c].net
    BY Zenon DEF Subscribed
  <2> HIDE DEF x, l, t
  <2>4. \A d \in Starts : calls'[d] = IF d = c THEN x ELSE calls[d]
    BY <2>1, Zenon DEF Moved, NodeTypeOK
  <2>5. SpawnedThere'
    BY <2>1, <2>2, <2>3, <2>4 DEF SpawnedThere, HasLoop
  <2> QED
    BY <2>1, <2>5, Zenon DEF NetworkIngests
<1>5. ASSUME NEW c \in Starts, StoreNetwork(c) PROVE Goal
  <2>1. /\ Moved(c, Idle) /\ UNCHANGED <<signal, loops>> /\ calls[c].step = "spawn"
        /\ calls[c].topics = Topics /\ svcNet' = calls[c].net
    BY <1>5, Zenon DEF StoreNetwork, Return, Moved
  <2>2. \A d \in Starts : calls'[d] = calls[d] \/ calls'[d].topics = {}
    BY <2>1, CallSteps, Zenon DEF Moved, NodeTypeOK
  <2>3. SpawnedThere'
    BY <2>1, <2>2 DEF SpawnedThere, HasLoop
  <2>4. NetworkIngests'
    BY <2>1 DEF SpawnedThere, NetworkIngests, HasLoop
  <2> QED
    BY <2>3, <2>4, Zenon
<1>6. ASSUME StartNode \/ NetworkAtBoot \/ Unlock \/ Lock \/ SpawnBackground PROVE Goal
  BY <1>1, <1>6, Zenon DEF StartNode, NetworkAtBoot, Unlock, Lock, SpawnBackground
<1>7. ASSUME Shutdown PROVE Goal
  <2>1. signal' # 0
    BY <1>7 DEF Shutdown, NodeTypeOK
  <2> QED
    BY <2>1, Zenon DEF SpawnedThere, NetworkIngests
<1>8. ASSUME NEW l \in loops, LoopEnds(l) PROVE Goal
  <2>1. signal' # 0
    BY <1>8 DEF LoopEnds, NodeTypeOK
  <2> QED
    BY <2>1, Zenon DEF SpawnedThere, NetworkIngests
<1>9. ASSUME UNCHANGED nodeVars PROVE Goal
  BY <1>1, <1>9, Zenon DEF nodeVars
<1> HIDE DEF Goal
<1>10. Goal
  BY <1>2, <1>3, <1>4, <1>5, <1>6, <1>7, <1>8, <1>9, Zenon DEF NodeNext, Starts
<1> QED
  BY <1>10, Zenon DEF Goal

\* A node that was not started satisfies the invariant.
LEMMA NodeInitInv == NodeInit => IngestInv
<1> SUFFICES ASSUME NodeInit PROVE IngestInv
  BY Zenon
<1>1. Idle \in StartCalls /\ CallOK(Idle) /\ Idle.step = "idle"
  BY FS_EmptySet, Zenon DEF Idle, CallOK, StartCalls
<1>2. \A c \in Starts : calls[c] = Idle
  BY Zenon DEF NodeInit, Starts
<1>3. NodeTypeOK
  BY <1>1, <1>2, Zenon DEF NodeInit, NodeTypeOK, Starts
<1> QED
  BY <1>1, <1>2, <1>3, Zenon DEF NodeInit, IngestInv, SpawnedThere, NetworkIngests

\* For any overlapping calls, failures and locks, before a shutdown: the network that
\* the services use takes in what arrives on every topic.
THEOREM NetworkAlwaysIngests == NodeSpec => []NetworkIngests
<1>1. IngestInv => NetworkIngests
  BY Zenon DEF IngestInv
<1> QED
  BY <1>1, NodeInitInv, IngestStep, PTL DEF NodeSpec

\* Nothing happened that the comment on start_network does not think of.
Quiet == ~overlap /\ ~halfway /\ ~late

Current == {l \in loops : l.name \in Topics /\ l.seen = signal}

\* One start at a time, and only without a network; a loop that runs was spawned for
\* the network or by the start under way.
OneStart ==
    /\ \A c, d \in Starts : calls[c].step # "idle" /\ calls[d].step # "idle" => c = d
    /\ \A c \in Starts : calls[c].step # "idle" => svcNet = NoNet
    /\ \A l \in Current :
          \/ svcNet # NoNet /\ l.net = svcNet
          \/ \E c \in Starts : calls[c].step = "spawn" /\ l.name \in calls[c].topics /\ l.net = calls[c].net

OneInv == NodeTypeOK /\ (Quiet => OneStart)

\* Every step keeps to one ingest.
LEMMA OneStep == OneInv /\ [NodeNext]_nodeVars => OneInv'
<1> SUFFICES ASSUME OneInv, [NodeNext]_nodeVars, Quiet' PROVE OneStart'
  BY NodeTyped, Zenon DEF OneInv
<1> USE DEF OneInv
<1>1. \A c \in Starts : calls[c] # Idle <=> calls[c].step # "idle"
  BY CallSteps, Zenon DEF NodeTypeOK, CallOK
<1>2. Starting = {c \in Starts : calls[c].step # "idle"}
  BY <1>1, Zenon DEF Starting, NodeTypeOK
<1>3. ASSUME UNCHANGED <<signal, svcNet, calls, overlap, halfway, late>>,
             \A l \in loops' : l \in loops \/ l.name \notin Topics
      PROVE  OneStart'
  BY <1>3, Zenon DEF OneStart, Quiet, Current
<1>4. ASSUME NEW c \in Starts, CheckRunning(c) PROVE OneStart'
  <2>1. CASE calls' = calls /\ UNCHANGED <<overlap, late>>
    <3>1. UNCHANGED <<signal, svcNet, halfway, loops>>
      BY <1>4, Zenon DEF CheckRunning
    <3> QED
      BY <1>3, <2>1, <3>1, Zenon
  <2>2. CASE ~(calls' = calls /\ UNCHANGED <<overlap, late>>)
    <3> DEFINE x == [calls[c] EXCEPT !.step = "bind"]
    <3>1. /\ UNCHANGED <<signal, loops, svcNet, halfway>> /\ calls[c] = Idle /\ svcNet = NoNet
          /\ Moved(c, x) /\ overlap' = (overlap \/ Starting # {})
          /\ late' = (late \/ (~running /\ signal > 0))
      BY <1>4, <2>2, StartSteps, Zenon
    <3>2. Quiet /\ \A d \in Starts : calls[d].step = "idle"
      BY <1>2, <3>1, Zenon DEF Quiet
    <3>3. \A d \in Starts : d # c => calls'[d] = calls[d]
      BY <3>1, Zenon DEF Moved, NodeTypeOK
    <3>4. Current = {}
      BY <3>1, <3>2, Zenon DEF OneStart
    <3>5. Current' = {}
      BY <3>1, <3>4, Zenon DEF Current
    <3> QED
      BY <3>1, <3>2, <3>3, <3>5, Zenon DEF OneStart
  <2> QED
    BY <2>1, <2>2, Zenon
<1>5. ASSUME NEW c \in Starts, NEW x, Moved(c, x), UNCHANGED <<signal, svcNet, overlap, late>>, loops' = loops,
             halfway \/ calls[c].topics # {} => halfway', calls[c].step # "idle"
      PROVE  OneStart'
  <2>1. Quiet /\ calls[c].topics = {}
    BY <1>5, Zenon DEF Quiet
  <2>2. \A d \in Starts : calls'[d] = IF d = c THEN x ELSE calls[d]
    BY <1>5, Zenon DEF Moved, NodeTypeOK
  <2>3. Current' = Current
    BY <1>5, Zenon DEF Current
  <2> QED
    BY <1>5, <2>1, <2>2, <2>3, Zenon DEF OneStart
<1>6. ASSUME NEW c \in Starts, BindEndpoint(c) PROVE OneStart'
  <2>1. calls[c].step = "bind" /\ calls[c].topics = {}
    BY <1>6, Zenon DEF BindEndpoint, NodeTypeOK, CallOK
  <2>2. /\ UNCHANGED <<signal, loops, svcNet, overlap, halfway, late>>
        /\ \E x : Moved(c, x)
    BY <1>6, StartSteps, Zenon
  <2> QED
    BY <1>5, <2>1, <2>2, Zenon
<1>7. ASSUME NEW c \in Starts, StartFails(c) PROVE OneStart'
  <2>1. calls[c].step # "idle"
    BY <1>7, Zenon DEF StartFails
  <2> QED
    BY <1>5, <1>7, <2>1, StartSteps, Zenon
<1>8. ASSUME NEW c \in Starts, SpawnIngest(c) PROVE OneStart'
  <2> DEFINE t == TopicOrder[Cardinality(calls[c].topics) + 1]
             x == [calls[c] EXCEPT !.topics = @ \cup {t}]
             l == Subscribed(t, calls[c].net)
  <2>1. /\ Moved(c, x) /\ loops' = loops \cup {l} /\ calls[c].step = "spawn"
        /\ UNCHANGED <<signal, svcNet, overlap, halfway, late>>
    BY <1>8, Zenon DEF SpawnIngest, Moved
  <2>2. x.step = "spawn" /\ x.topics = calls[c].topics \cup {t} /\ x.net = calls[c].net
    BY <2>1, CallSteps, Zenon
  <2>3. l.name = t /\ l.net = calls[c].net
    BY Zenon DEF Subscribed
  <2> HIDE DEF x, l, t
  <2>4. \A d \in Starts : calls'[d] = IF d = c THEN x ELSE calls[d]
    BY <2>1, Zenon DEF Moved, NodeTypeOK
  <2>5. OneStart
    BY <2>1, Zenon DEF Quiet
  <2>6. Current' \subseteq Current \cup {l}
    BY <2>1, Zenon DEF Current
  <2> QED
    BY <2>1, <2>2, <2>3, <2>4, <2>5, <2>6 DEF OneStart
<1>9. ASSUME NEW c \in Starts, StoreNetwork(c) PROVE OneStart'
  <2>1. /\ Moved(c, Idle) /\ UNCHANGED <<signal, loops, overlap, halfway, late>>
        /\ calls[c].step = "spawn" /\ svcNet' = calls[c].net
    BY <1>9, Zenon DEF StoreNetwork, Return, Moved
  <2>2. svcNet' # NoNet
    BY <2>1, NodeAssumption, Zenon DEF NodeTypeOK, CallOK
  <2>3. OneStart /\ Current' = Current
    BY <2>1, Zenon DEF Quiet, Current
  <2>4. \A d \in Starts : calls'[d].step = "idle"
    BY <2>1, <2>3, CallSteps, Zenon DEF Moved, NodeTypeOK, OneStart
  <2>5. \A l \in Current : l.net = calls[c].net
    BY <2>1, <2>3, Zenon DEF OneStart
  <2> QED
    BY <2>1, <2>2, <2>3, <2>4, <2>5, Zenon DEF OneStart
<1>10. ASSUME Shutdown PROVE OneStart'
  <2>1. signal' = signal + 1 /\ UNCHANGED <<loops, calls, svcNet, overlap, halfway>>
        /\ late' = (late \/ Starting # {})
    BY <1>10, Zenon DEF Shutdown
  <2>2. \A l \in loops : l.seen # signal'
    BY <2>1 DEF NodeTypeOK
  <2>3. Current' = {}
    BY <2>1, <2>2, Zenon DEF Current
  <2>4. \A d \in Starts : calls'[d].step = "idle"
    BY <1>2, <2>1, Zenon DEF Quiet
  <2> QED
    BY <2>3, <2>4, Zenon DEF OneStart
<1>11. ASSUME SpawnBackground PROVE OneStart'
  <2>1. \A b \in Background : Subscribed(b, NoNet).name = b /\ b \notin Topics
    BY NodeAssumption, Zenon DEF Subscribed
  <2> QED
    BY <1>3, <1>11, <2>1, Zenon DEF SpawnBackground
<1>12. ASSUME StartNode \/ NetworkAtBoot \/ Unlock \/ Lock PROVE OneStart'
  BY <1>3, <1>12, Zenon DEF StartNode, NetworkAtBoot, Unlock, Lock
<1>13. ASSUME NEW l \in loops, LoopEnds(l) PROVE OneStart'
  BY <1>3, <1>13, Zenon DEF LoopEnds
<1>14. CASE UNCHANGED nodeVars
  BY <1>3, <1>14, Zenon DEF nodeVars
<1> QED
  BY <1>4, <1>6, <1>7, <1>8, <1>9, <1>10, <1>11, <1>12, <1>13, <1>14, Zenon DEF NodeNext, Starts

\* For any callers, topics and shutdowns: the ingest loops that listen are those of
\* one endpoint, unless starts overlapped, one failed half-way, or one met a shutdown.
THEOREM IngestsOnce == NodeSpec => []OneIngest
<1>1. NodeInit => OneInv
  <2> SUFFICES ASSUME NodeInit PROVE OneInv
    BY Zenon
  <2>1. NodeTypeOK
    BY NodeInitInv, Zenon DEF IngestInv
  <2>2. \A c \in Starts : calls[c].step = "idle"
    BY Zenon DEF NodeInit, Starts, Idle
  <2>3. Current = {}
    BY Zenon DEF NodeInit, Current
  <2> QED
    BY <2>1, <2>2, <2>3, Zenon DEF OneInv, OneStart
<1>2. OneInv => OneIngest
  <2> SUFFICES ASSUME OneInv, Quiet
               PROVE  Cardinality({l.net : l \in Current}) <= 1
    BY Zenon DEF OneIngest, Quiet, Current
  <2> DEFINE nets == {l.net : l \in Current}
  <2>1. \A l, k \in Current : l.net = k.net
    BY Zenon DEF OneInv, OneStart
  <2>2. CASE nets = {}
    BY <2>2, FS_EmptySet
  <2>3. CASE nets # {}
    <3>1. PICK x \in nets : TRUE
      BY <2>3, Zenon
    <3>2. nets = {x}
      BY <2>1, <3>1, Zenon
    <3> HIDE DEF nets
    <3>3. Cardinality(nets) = 1
      BY <3>2, FS_Singleton, Zenon
    <3> QED
      BY <3>3 DEF nets
  <2> QED
    BY <2>2, <2>3, Zenon
<1> QED
  BY <1>1, <1>2, OneStep, PTL DEF NodeSpec
=============================================================================
