---------------------------- MODULE NetworkProofs ----------------------------
(***************************************************************************)
(* Gossip: the service implements Broadcast, for every graph of nodes and  *)
(* any number of faults. What makes it inductive: a message handed to a    *)
(* subscriber is one its node has seen, and whatever is on the wire,       *)
(* announced, cached or seen was published.                                *)
(*                                                                         *)
(* DhtLookup: for any identifiers, any distance that tells them apart, any *)
(* bucket size, any parallelism and any answers a lookup ends only when it *)
(* is complete, and until then it can go on. The routing table gives every *)
(* node one entry: nodes wait in a cache only while its bucket is full, so *)
(* a node that finds room was not waiting, and one that is promoted had no *)
(* entry and waited once.                                                  *)
(*                                                                         *)
(* PlumTree: a topic has seen what its channel took, and a mark that is    *)
(* not in the current set of the engine's filter is older than its epoch.  *)
(***************************************************************************)
EXTENDS Gossip, DhtLookup, PlumTree, FiniteSetTheorems, SequenceTheorems,
        WellFoundedInduction, TLAPS

Once == \A n \in Nodes, m \in Messages :
           delivered[n][m] = 0 \/ (delivered[n][m] = 1 /\ m \in seen[n])

AllPublished ==
    /\ \A n \in Nodes : seen[n] \subseteq published /\ cache[n] \subseteq published
    /\ \A e \in wire : e.m \in published
    /\ \A q \in pending : q[2] \in published

AnnouncedCached ==
    \A e \in wire : e.kind = "ihave" => e.m \in cache[e.from] \/ e.from \in unsteady

IInv == TypeOK /\ Once /\ AllPublished /\ AnnouncedCached /\ AnnouncerHasIt

\* The initial states satisfy the invariant.
THEOREM InitInv == Init => IInv
  BY DEF Init, IInv, TypeOK, Once, AllPublished, AnnouncedCached, AnnouncerHasIt

\* What try_send does to the counts: nothing, or one more for this message.
LEMMA LocalDelivery ==
    ASSUME TypeOK, NEW n \in Nodes, NEW m \in Messages, DeliverLocally(n, m)
    PROVE  /\ queue' \in [Nodes -> Nat]
           /\ overflow' \subseteq Nodes \X Messages
           /\ \/ delivered' = delivered
              \/ delivered' = [delivered EXCEPT ![n][m] = @ + 1]
<1>1. queue' = queue \/ queue' = [queue EXCEPT ![n] = @ + 1]
  BY Zenon DEF DeliverLocally
<1>2. queue' \in [Nodes -> Nat]
  BY <1>1 DEF TypeOK
<1>3. overflow' = overflow \/ overflow' = overflow \cup {<<n, m>>}
  BY Zenon DEF DeliverLocally
<1>4. overflow' \subseteq Nodes \X Messages
  BY <1>3 DEF TypeOK
<1>5. delivered' = delivered \/ delivered' = [delivered EXCEPT ![n][m] = @ + 1]
  BY Zenon DEF DeliverLocally
<1> QED
  BY <1>2, <1>4, <1>5, Zenon

\* A first delivery keeps the counts at most one and typed.
LEMMA CountStep ==
    ASSUME TypeOK, Once, NEW n \in Nodes, NEW m \in Messages,
           m \notin seen[n], seen' = [seen EXCEPT ![n] = @ \cup {m}],
           \/ delivered' = delivered
           \/ delivered' = [delivered EXCEPT ![n][m] = @ + 1]
    PROVE  /\ Once' /\ delivered' \in [Nodes -> [Messages -> Nat]]
           /\ delivered[n][m] = 0
<1>1. seen \in [Nodes -> SUBSET Messages] /\ delivered \in [Nodes -> [Messages -> Nat]]
  BY Zenon DEF TypeOK
<1>2. delivered[n][m] = 0
  BY Zenon DEF Once
<1>3. \A k \in Nodes, x \in Messages :
        /\ delivered'[k][x] = IF k = n /\ x = m /\ delivered' # delivered
                              THEN 1 ELSE delivered[k][x]
        /\ x \in seen[k] => x \in seen'[k]
  BY <1>1, <1>2
<1>4. m \in seen'[n]
  BY <1>1, Zenon
<1>5. Once'
  BY <1>3, <1>4 DEF Once
<1>6. delivered' \in [Nodes -> [Messages -> Nat]]
  <2> DEFINE row == [delivered[n] EXCEPT ![m] = @ + 1]
  <2>1. row \in [Messages -> Nat]
    BY <1>1
  <2>2. delivered' = delivered \/ delivered' = [delivered EXCEPT ![n] = row]
    BY Zenon
  <2> HIDE DEF row
  <2> QED BY <1>1, <2>1, <2>2, Zenon
<1> QED BY <1>2, <1>5, <1>6, Zenon

\* Publishing.
LEMMA PublishInv ==
    ASSUME IInv, NEW n \in Nodes, NEW m \in Messages, Publish(n, m)
    PROVE  IInv'
<1> USE DEF IInv
<1>1. m \notin seen[n]
  BY Zenon DEF Publish, AllPublished, TypeOK
<1>2. DeliverLocally(n, m)
  BY Zenon DEF Publish
<1>3. Once' /\ delivered' \in [Nodes -> [Messages -> Nat]]
  BY <1>1, <1>2, LocalDelivery, CountStep, Zenon DEF Publish
<1>4. PICK E \in Fanouts(n) :
        wire' = wire \cup {Envelope("msg", m, n, p) : p \in E}
                     \cup {Envelope("ihave", m, n, p) : p \in Peers(n) \ E}
  BY Zenon DEF Publish
<1>5. E \subseteq Nodes /\ Peers(n) \subseteq Nodes
  BY Zenon DEF Fanouts, Peers
<1>6. \A e \in wire' :
        \/ e \in wire
        \/ /\ e \in [kind : {"msg", "ihave", "iwant"}, m : Messages, from : Nodes, to : Nodes]
           /\ e.m = m /\ e.from = n
  BY <1>4, <1>5 DEF Envelope
<1>7. TypeOK'
  <2>1. /\ seen' \in [Nodes -> SUBSET Messages] /\ cache' \in [Nodes -> SUBSET Messages]
        /\ published' \subseteq Messages
    BY DEF TypeOK, Publish
  <2>2. wire' \subseteq [kind : {"msg", "ihave", "iwant"}, m : Messages, from : Nodes, to : Nodes]
    BY <1>6, Zenon DEF TypeOK
  <2>3. queue' \in [Nodes -> Nat] /\ overflow' \subseteq Nodes \X Messages
    BY <1>2, LocalDelivery, Zenon
  <2> QED BY <1>3, <2>1, <2>2, <2>3, Zenon DEF TypeOK, Publish
<1>8. AllPublished'
  BY <1>6, Zenon DEF AllPublished, TypeOK, Publish
<1>9. AnnouncedCached'
  BY <1>6, Zenon DEF AnnouncedCached, TypeOK, Publish
<1>10. AnnouncerHasIt'
  BY Zenon DEF AnnouncerHasIt, TypeOK, Publish
<1> QED BY <1>3, <1>7, <1>8, <1>9, <1>10, Zenon

\* A first copy of a message.
LEMMA HandleFullInv ==
    ASSUME IInv, NEW e \in wire, HandleFull(e),
           UNCHANGED <<subscribed, published, unsteady, faults>>
    PROVE  IInv'
<1> DEFINE n == e.to
           m == e.m
<1> USE DEF IInv
<1>1. n \in Nodes /\ m \in Messages /\ m \in published
  BY Zenon DEF TypeOK, AllPublished
<1>2. DeliverLocally(n, m) /\ m \notin seen[n]
  BY Zenon DEF HandleFull
<1>3. Once' /\ delivered' \in [Nodes -> [Messages -> Nat]]
  BY <1>1, <1>2, LocalDelivery, CountStep, Zenon DEF HandleFull
<1>4. \A d \in wire' :
        \/ d \in wire
        \/ /\ d \in [kind : {"msg", "ihave", "iwant"}, m : Messages, from : Nodes, to : Nodes]
           /\ d.m = m /\ d.kind = "msg"
  <2>1. \A p \in Nodes : Envelope("msg", m, n, p) \in
           [kind : {"msg", "ihave", "iwant"}, m : Messages, from : Nodes, to : Nodes]
    BY <1>1, Zenon DEF Envelope
  <2>2. \A p \in Nodes : Envelope("msg", m, n, p).m = m /\ Envelope("msg", m, n, p).kind = "msg"
    BY Zenon DEF Envelope
  <2>3. \A d \in wire' : d \in wire \/ \E p \in Nodes : d = Envelope("msg", m, n, p)
    BY Zenon DEF HandleFull, Peers
  <2> QED BY <2>1, <2>2, <2>3
<1>5. TypeOK'
  <2>1. queue' \in [Nodes -> Nat] /\ overflow' \subseteq Nodes \X Messages
    BY <1>1, <1>2, LocalDelivery, Zenon
  <2>2. seen' \in [Nodes -> SUBSET Messages] /\ cache' \in [Nodes -> SUBSET Messages]
    BY <1>1, Zenon DEF TypeOK, HandleFull
  <2>3. pending' \subseteq Nodes \X Messages \X Nodes
    BY Zenon DEF TypeOK, HandleFull
  <2>4. wire' \subseteq [kind : {"msg", "ihave", "iwant"}, m : Messages, from : Nodes, to : Nodes]
    BY <1>4, Zenon DEF TypeOK
  <2> QED
    BY <1>3, <2>1, <2>2, <2>3, <2>4, Zenon DEF TypeOK
<1>6. AllPublished'
  BY <1>1, <1>4, Zenon DEF AllPublished, TypeOK, HandleFull
<1>7. AnnouncedCached'
  BY <1>1, <1>4, Zenon DEF AnnouncedCached, TypeOK, HandleFull
<1>8. AnnouncerHasIt'
  BY <1>1, Zenon DEF AnnouncerHasIt, TypeOK, HandleFull
<1> QED BY <1>3, <1>5, <1>6, <1>7, <1>8, Zenon

\* The other envelopes, and the lazy loop.
LEMMA HandleRestInv ==
    ASSUME IInv, NEW e \in wire,
           \/ HandleDuplicate(e)
           \/ e.kind = "ihave" /\ HandleIHave(e)
           \/ HandleIWant(e),
           UNCHANGED <<subscribed, published, unsteady, faults>>
    PROVE  IInv'
<1> USE DEF IInv
<1>1. CASE HandleDuplicate(e)
  BY <1>1, Zenon DEF HandleDuplicate, TypeOK, Once, AllPublished, AnnouncedCached, AnnouncerHasIt
<1>2. CASE e.kind = "ihave" /\ HandleIHave(e)
  <2>1. \A q \in pending' : q \in pending \/ q = <<e.to, e.m, e.from>>
    BY <1>2, Zenon DEF HandleIHave
  <2>2. TypeOK'
    <3>1. pending' \subseteq Nodes \X Messages \X Nodes
      <4>1. e.to \in Nodes /\ e.m \in Messages /\ e.from \in Nodes
        BY Zenon DEF TypeOK
      <4> QED BY <2>1, <4>1 DEF TypeOK
    <3>2. wire' \subseteq wire
      BY <1>2, Zenon DEF HandleIHave
    <3> QED BY <1>2, <3>1, <3>2, Zenon DEF HandleIHave, TypeOK
  <2>3. AllPublished' /\ Once' /\ AnnouncedCached'
    BY <1>2, <2>1 DEF HandleIHave, AllPublished, Once, AnnouncedCached
  <2>4. AnnouncerHasIt'
    BY <1>2, <2>1 DEF HandleIHave, AnnouncerHasIt, AnnouncedCached
  <2> QED BY <2>2, <2>3, <2>4, Zenon
<1>3. CASE HandleIWant(e)
  <2>1. \A d \in wire' :
          \/ d \in wire
          \/ /\ d \in [kind : {"msg", "ihave", "iwant"}, m : Messages, from : Nodes, to : Nodes]
             /\ d.m = e.m /\ d.kind = "msg"
    BY <1>3 DEF HandleIWant, Envelope, TypeOK
  <2> QED BY <1>3, <2>1, Zenon DEF HandleIWant, TypeOK, Once, AllPublished, AnnouncedCached, AnnouncerHasIt
<1> QED BY <1>1, <1>2, <1>3, Zenon

\* A lazy timeout keeps the invariant.
LEMMA LazyTimeoutInv ==
    ASSUME IInv, NEW q \in pending, LazyTimeout(q)
    PROVE  IInv'
<1> USE DEF IInv
<1>1. \A d \in wire' :
        \/ d \in wire
        \/ /\ d \in [kind : {"msg", "ihave", "iwant"}, m : Messages, from : Nodes, to : Nodes]
           /\ d.m = q[2] /\ d.kind = "iwant"
  BY DEF LazyTimeout, Envelope, TypeOK
<1> QED
  BY <1>1 DEF LazyTimeout, TypeOK, Once, AllPublished, AnnouncedCached, AnnouncerHasIt

\* Consuming, subscribing and the faults.
LEMMA NodeInv ==
    ASSUME IInv, NEW n \in Nodes,
           Consume(n) \/ Subscribe(n) \/ Unsubscribe(n) \/ Restart(n)
    PROVE  IInv'
<1> USE DEF IInv
<1>1. CASE Consume(n)
  BY <1>1 DEF Consume, TypeOK, Once, AllPublished, AnnouncedCached, AnnouncerHasIt
<1>2. CASE Subscribe(n)
  BY <1>2, Zenon DEF Subscribe, TypeOK, Once, AllPublished, AnnouncedCached, AnnouncerHasIt
<1>3. CASE Unsubscribe(n)
  BY <1>3 DEF Unsubscribe, TypeOK, Once, AllPublished, AnnouncedCached, AnnouncerHasIt
<1>4. CASE Restart(n)
  <2>1. wire' \subseteq wire /\ pending' \subseteq pending
    BY <1>4, Zenon DEF Restart
  <2>2. TypeOK'
    BY <1>4, <2>1 DEF Restart, TypeOK
  <2>3. Once'
    BY <1>4, Zenon DEF Restart, TypeOK, Once
  <2>4. AllPublished'
    BY <1>4, <2>1 DEF Restart, TypeOK, AllPublished
  <2>5. AnnouncedCached' /\ AnnouncerHasIt'
    BY <1>4, <2>1, Zenon DEF Restart, TypeOK, AnnouncedCached, AnnouncerHasIt
  <2> QED BY <2>2, <2>3, <2>4, <2>5, Zenon
<1> QED BY <1>1, <1>2, <1>3, <1>4, Zenon

\* The loss of a message keeps the invariant.
LEMMA LoseInv ==
    ASSUME IInv, NEW e \in wire, Lose(e)
    PROVE  IInv'
  BY DEF Lose, IInv, TypeOK, Once, AllPublished, AnnouncedCached, AnnouncerHasIt

\* Every step keeps the invariant.
THEOREM NextInv == IInv /\ [Next]_vars => IInv'
<1> SUFFICES ASSUME IInv, [Next]_vars PROVE IInv'
  BY Zenon
<1>1. CASE \E n \in Nodes, m \in Messages : Publish(n, m)
  BY <1>1, PublishInv, Zenon
<1>2. CASE \E e \in wire : Receive(e)
  BY <1>2, HandleFullInv, HandleRestInv, Zenon DEF Receive
<1>3. CASE \E e \in wire : Lose(e)
  BY <1>3, LoseInv, Zenon
<1>4. CASE \E q \in pending : LazyTimeout(q)
  BY <1>4, LazyTimeoutInv, Zenon
<1>5. CASE \E n \in Nodes : Consume(n) \/ Subscribe(n) \/ Unsubscribe(n) \/ Restart(n)
  BY <1>5, NodeInv, Zenon
<1>6. CASE UNCHANGED vars
  BY <1>6, Zenon DEF vars, IInv, TypeOK, Once, AllPublished, AnnouncedCached, AnnouncerHasIt
<1> QED BY <1>1, <1>2, <1>3, <1>4, <1>5, <1>6, Zenon DEF Next

\* The invariant holds in every reachable state of the overlay.
THEOREM Invariance == Spec => []IInv
  BY InitInv, NextInv, PTL DEF Spec

\* In every network, whoever is remembered as the announcer of a message can
\* still serve it, unless it restarted (service.rs, message_cache).
THEOREM AnnouncersServe == Spec => []AnnouncerHasIt
<1>1. IInv => AnnouncerHasIt
  BY Zenon DEF IInv
<1> QED BY <1>1, Invariance, PTL

-----------------------------------------------------------------------------
(* Refinement. *)

\* The initial states of the overlay are initial states of Broadcast.
LEMMA AbstractInit == Init => Abstract!Init
  BY Zenon DEF Init, Abstract!Init

\* A step of the service is a step of Broadcast or leaves its state alone.
LEMMA AbstractStep ==
    ASSUME IInv, [Next]_vars
    PROVE  [Abstract!Next]_<<published, delivered>>
<1> USE DEF IInv
<1>1. CASE \E n \in Nodes, m \in Messages : Publish(n, m)
  <2> PICK n \in Nodes, m \in Messages : Publish(n, m)
    BY <1>1, Zenon
  <2>1. m \notin seen[n]
    BY Zenon DEF Publish, AllPublished, TypeOK
  <2>2. delivered' = delivered \/ delivered' = [delivered EXCEPT ![n][m] = @ + 1]
    BY LocalDelivery, Zenon DEF Publish
  <2>3. delivered[n][m] = 0
    BY <2>1, Zenon DEF Once
  <2>4. delivered' = delivered \/ delivered' = [delivered EXCEPT ![n][m] = 1]
    BY <2>2, <2>3 DEF TypeOK
  <2>5. Abstract!Send(n, m)
    BY <2>3, <2>4, Zenon DEF Publish, Abstract!Send
  <2> QED BY <2>5, Zenon DEF Abstract!Next
<1>2. CASE \E e \in wire : Receive(e)
  <2> PICK e \in wire : Receive(e)
    BY <1>2, Zenon
  <2>1. e.to \in Nodes /\ e.m \in Messages /\ e.m \in published
    BY Zenon DEF TypeOK, AllPublished
  <2>2. CASE HandleFull(e)
    <3>1. delivered' = delivered \/ delivered' = [delivered EXCEPT ![e.to][e.m] = @ + 1]
      BY <2>1, <2>2, LocalDelivery, Zenon DEF HandleFull
    <3>2. delivered[e.to][e.m] = 0
      BY <2>1, <2>2, Zenon DEF HandleFull, Once
    <3>3. delivered' = delivered \/ delivered' = [delivered EXCEPT ![e.to][e.m] = 1]
      BY <3>1, <3>2 DEF TypeOK
    <3>4. published' = published
      BY Zenon DEF Receive
    <3>5. delivered' = delivered \/ Abstract!Deliver(e.to, e.m)
      BY <2>1, <3>2, <3>3, <3>4, Zenon DEF Abstract!Deliver
    <3> QED BY <2>1, <3>4, <3>5, Zenon DEF Abstract!Next
  <2>3. CASE HandleDuplicate(e) \/ HandleIHave(e) \/ HandleIWant(e)
    BY <2>3, Zenon DEF Receive, HandleDuplicate, HandleIHave, HandleIWant
  <2> QED BY <2>2, <2>3, Zenon DEF Receive
<1>3. CASE \E e \in wire : Lose(e)
  BY <1>3, Zenon DEF Lose
<1>4. CASE \E q \in pending : LazyTimeout(q)
  BY <1>4, Zenon DEF LazyTimeout
<1>5. CASE \E n \in Nodes : Consume(n) \/ Subscribe(n) \/ Unsubscribe(n)
  BY <1>5, Zenon DEF Consume, Subscribe, Unsubscribe
<1>6. CASE \E n \in Nodes : Restart(n)
  <2> PICK n \in Nodes : Restart(n)
    BY <1>6, Zenon
  <2>1. Abstract!Forget(n)
    BY Zenon DEF Restart, Abstract!Forget
  <2> QED BY <2>1, Zenon DEF Abstract!Next
<1>7. CASE UNCHANGED vars
  BY <1>7, Zenon DEF vars
<1> QED BY <1>1, <1>2, <1>3, <1>4, <1>5, <1>6, <1>7, Zenon DEF Next

\* Whatever the network, the losses and the restarts, the service hands a
\* subscriber only published messages and none twice.
THEOREM Refinement == Spec => ImplementsBroadcast
<1>1. IInv /\ [Next]_vars => [Abstract!Next]_<<published, delivered>>
  BY AbstractStep, Zenon
<1> QED
  BY <1>1, AbstractInit, Invariance, PTL DEF Spec, ImplementsBroadcast, Abstract!Spec

-----------------------------------------------------------------------------
(* DhtLookup. *)

\* A set of numbers that is not empty has a least one.
LEMMA LeastNumber ==
  ASSUME NEW T \in SUBSET Nat, T # {}
  PROVE  \E x \in T : \A y \in T : ~(y < x)
<1> DEFINE R == {p \in Nat \X Nat : p[1] < p[2]}
<1>1. IsWellFoundedOn(R, Nat)
  BY NatLessThanWellFounded, Zenon DEF OpToRel
<1>2. \E x \in T : \A y \in T : ~(<<y, x>> \in R)
  BY <1>1, WFMin, Zenon
<1> QED
  BY <1>2, Zenon

\* Where there is a candidate left, next_to_query returns one: the closest.
LEMMA ClosestNotEmpty ==
  ASSUME NEW nodes \in SUBSET Ids, nodes # {}, NEW n \in Nat \ {0}
  PROVE  Closest(nodes, n) # {}
<1> DEFINE D == {XorDistance(i, Target) : i \in nodes}
<1>1. D \in SUBSET Nat /\ D # {}
  BY LookupAssumption
<1>2. PICK d \in D : \A e \in D : ~(e < d)
  BY <1>1, LeastNumber, Zenon
<1>3. PICK i \in nodes : d = XorDistance(i, Target)
  BY <1>2, Zenon
<1>4. {j \in nodes : XorDistance(j, Target) < XorDistance(i, Target)} = {}
  BY <1>2, <1>3, Zenon
<1>5. Cardinality({j \in nodes : XorDistance(j, Target) < XorDistance(i, Target)}) = 0
  BY <1>4, FS_EmptySet, Zenon
<1>6. i \in Closest(nodes, n)
  BY <1>3, <1>5 DEF Closest
<1> QED
  BY <1>6, Zenon

----------------------------------------------------------------------------
Bucket == [entries : Seq(Ids), cache : Seq(Ids)]

QueryTypeOK ==
    /\ seeds \in SUBSET Ids /\ told \in SUBSET Ids
    /\ candidates \in SUBSET Ids /\ queried \in SUBSET Ids /\ asked \in SUBSET Ids
    /\ started \in BOOLEAN /\ finished \in BOOLEAN

\* The candidates are what the lookup heard of. Before it starts it has heard of
\* nothing; while it runs one of them is left to ask, unless it had none to
\* start from; and it ends without the value only when none is left.
LookupInv ==
    /\ buckets \in [0 .. Bits - 1 -> Bucket]
    /\ QueryTypeOK
    /\ candidates = seeds \cup (told \ {LocalId})
    /\ ~started => candidates = {} /\ queried = {} /\ asked = {} /\ ~finished
    /\ started /\ ~finished => seeds = {} \/ ~(candidates \subseteq queried)
    /\ finished /\ found_value = "none" => candidates \subseteq queried

\* An empty table and a lookup that has not started satisfy the invariant.
LEMMA LookupInitInv == LookupInit => LookupInv
<1> SUFFICES ASSUME LookupInit PROVE LookupInv
  BY Zenon
<1>1. [entries |-> <<>>, cache |-> <<>>] \in Bucket
  BY EmptySeq, Zenon DEF Bucket
<1>2. buckets \in [0 .. Bits - 1 -> Bucket]
  BY <1>1, Zenon DEF LookupInit
<1>3. QueryTypeOK /\ candidates = seeds \cup (told \ {LocalId})
  BY Zenon DEF LookupInit, QueryTypeOK
<1> QED
  BY <1>2, <1>3, Zenon DEF LookupInit, LookupInv

\* Taking the oldest entry off leaves identifiers.
LEMMA PopFrontType ==
  ASSUME NEW s \in Seq(Ids)
  PROVE  PopFront(s) \in Seq(Ids)
  BY SubSeqProperties DEF PopFront

\* So does taking the newest off a cache, which is an identifier itself.
LEMMA PopBackType ==
  ASSUME NEW s \in Seq(Ids), s # <<>>
  PROVE  PopBack(s) \in Seq(Ids) /\ s[Len(s)] \in Ids
<1>1. Len(s) \in Nat \ {0}
  BY EmptySeq, LenProperties, Zenon
<1> QED
  BY <1>1, SubSeqProperties, ElementOfSeq DEF PopBack

\* Moving an entry to the back leaves identifiers.
LEMMA MoveToBackType ==
  ASSUME NEW s \in Seq(Ids), NEW i \in Elements(s)
  PROVE  MoveToBack(s, i) \in Seq(Ids)
<1> DEFINE pos == CHOOSE k \in DOMAIN s : s[k] = i
<1>1. pos \in DOMAIN s /\ s[pos] = i
  BY Zenon DEF Elements
<1>2. pos \in 1 .. Len(s) /\ i \in Ids
  BY <1>1, LenProperties, ElementOfSeq, Zenon
<1> HIDE DEF pos
<1>3. SubSeq(s, 1, pos - 1) \in Seq(Ids) /\ SubSeq(s, pos + 1, Len(s)) \in Seq(Ids)
  <2>1. Len(s) \in Nat /\ \A k \in 1 .. Len(s) : s[k] \in Ids
    BY LenProperties, ElementOfSeq, Zenon
  <2>2. SubSeq(s, 1, pos - 1) \in Seq(Ids)
    <3>1. \A k \in 1 .. pos - 1 : s[k] \in Ids
      BY <1>2, <2>1
    <3> QED
      BY <1>2, <3>1, SubSeqProperties
  <2>3. SubSeq(s, pos + 1, Len(s)) \in Seq(Ids)
    <3>1. \A k \in pos + 1 .. Len(s) : s[k] \in Ids
      BY <1>2, <2>1
    <3> QED
      BY <1>2, <2>1, <3>1, SubSeqProperties
  <2> QED
    BY <2>2, <2>3, Zenon
<1>4. Append(SubSeq(s, 1, pos - 1) \o SubSeq(s, pos + 1, Len(s)), i) \in Seq(Ids)
  BY <1>2, <1>3
<1> QED
  BY <1>4, Zenon DEF MoveToBack, pos

Distinct(s) == \A j, k \in DOMAIN s : s[j] = s[k] => j = k

\* A bucket over neither size, which keeps nodes waiting only while it is full;
\* its nodes belong to it and, unless one was put into a cache twice, differ.
SoundBucket(b, x, twice) ==
    /\ x \in Bucket /\ Len(x.entries) <= K /\ Len(x.cache) <= K
    /\ x.cache # <<>> => Len(x.entries) = K
    /\ \A i \in Elements(x.entries) \cup Elements(x.cache) : BucketIndex(i) = b
    /\ ~twice => /\ Distinct(x.entries) /\ Distinct(x.cache)
                 /\ Elements(x.entries) \cap Elements(x.cache) = {}

TableInv ==
    /\ buckets \in [0 .. Bits - 1 -> Bucket] /\ recached \in BOOLEAN
    /\ \A b \in 0 .. Bits - 1 : SoundBucket(b, buckets[b], recached)

\* What pop_front leaves of a bucket.
LEMMA PopFrontKeeps ==
  ASSUME NEW s \in Seq(Ids)
  PROVE  /\ PopFront(s) \in Seq(Ids) /\ Elements(PopFront(s)) \subseteq Elements(s)
         /\ Len(PopFront(s)) = IF Len(s) = 0 THEN 0 ELSE Len(s) - 1
         /\ Distinct(s) => Distinct(PopFront(s))
<1> DEFINE r == PopFront(s)
<1>1. /\ Len(s) \in Nat /\ DOMAIN s = 1 .. Len(s) /\ r \in Seq(Ids)
  BY LenProperties, PopFrontType, Zenon
<1>2. Len(r) = IF Len(s) = 0 THEN 0 ELSE Len(s) - 1
  BY <1>1 DEF PopFront
<1>3. DOMAIN r = 1 .. Len(r) /\ \A k \in 1 .. Len(r) : r[k] = s[k + 1] /\ k + 1 \in 1 .. Len(s)
  BY <1>1, <1>2 DEF PopFront
<1> HIDE DEF r
<1>4. Elements(r) \subseteq Elements(s)
  BY <1>1, <1>3, Zenon DEF Elements
<1>5. Distinct(s) => Distinct(r)
  <2> SUFFICES ASSUME Distinct(s), NEW j \in 1 .. Len(r), NEW k \in 1 .. Len(r), r[j] = r[k] PROVE j = k
    BY <1>3, Zenon DEF Distinct
  <2>1. j + 1 = k + 1
    BY <1>1, <1>3, Zenon DEF Distinct
  <2> QED
    BY <1>1, <2>1
<1> QED
  BY <1>1, <1>2, <1>4, <1>5, Zenon DEF r

\* What pop_back leaves of a cache, and what it takes.
LEMMA PopBackKeeps ==
  ASSUME NEW s \in Seq(Ids), s # <<>>
  PROVE  /\ PopBack(s) \in Seq(Ids) /\ Elements(PopBack(s)) \subseteq Elements(s)
         /\ Len(PopBack(s)) = Len(s) - 1 /\ s[Len(s)] \in Elements(s)
         /\ Distinct(s) => Distinct(PopBack(s)) /\ s[Len(s)] \notin Elements(PopBack(s))
<1> DEFINE r == PopBack(s)
<1>1. /\ Len(s) \in Nat \ {0} /\ DOMAIN s = 1 .. Len(s) /\ r \in Seq(Ids)
  BY EmptySeq, LenProperties, PopBackType, Zenon
<1>2. Len(r) = Len(s) - 1
  BY <1>1 DEF PopBack
<1>3. /\ DOMAIN r = 1 .. Len(r)
      /\ \A k \in 1 .. Len(r) : r[k] = s[k] /\ k \in 1 .. Len(s) /\ k # Len(s)
  <2>1. DOMAIN r = 1 .. Len(r)
    BY <1>1, LenProperties, Zenon
  <2>a. \A n \in Nat : \A k \in 1 .. n - 1 : k \in 1 .. n /\ k # n
    OBVIOUS
  <2>2. \A k \in 1 .. Len(s) - 1 : k \in 1 .. Len(s) /\ k # Len(s)
    BY <1>1, <2>a, Zenon
  <2>3. \A k \in 1 .. Len(s) - 1 : s[k] \in Ids
    BY <2>2, ElementOfSeq, Zenon
  <2>4. \A k \in 1 .. Len(s) - 1 : SubSeq(s, 1, Len(s) - 1)[k] = s[k]
    BY <1>1, <2>3, SubSeqProperties
  <2> QED
    BY <1>2, <2>1, <2>2, <2>4, Zenon DEF PopBack
<1>4. Len(s) \in DOMAIN s
  BY <1>1
<1> HIDE DEF r
<1>5. Elements(r) \subseteq Elements(s) /\ s[Len(s)] \in Elements(s)
  BY <1>1, <1>3, <1>4, Zenon DEF Elements
<1>6. Distinct(s) => Distinct(r) /\ s[Len(s)] \notin Elements(r)
  BY <1>1, <1>3, <1>4, Zenon DEF Distinct, Elements
<1> QED
  BY <1>1, <1>2, <1>5, <1>6, Zenon DEF r

\* What push_back makes of a sequence of nodes.
LEMMA AppendKeeps ==
  ASSUME NEW s \in Seq(Ids), NEW i \in Ids
  PROVE  /\ Append(s, i) \in Seq(Ids) /\ Elements(Append(s, i)) = Elements(s) \cup {i}
         /\ Len(Append(s, i)) = Len(s) + 1 /\ Append(s, i) # <<>>
         /\ Distinct(s) /\ i \notin Elements(s) => Distinct(Append(s, i))
<1> DEFINE r == Append(s, i)
<1>1. /\ Len(s) \in Nat /\ DOMAIN s = 1 .. Len(s) /\ r \in Seq(Ids) /\ Len(r) = Len(s) + 1 /\ r # <<>>
      /\ \A k \in 1 .. Len(s) : r[k] = s[k]
      /\ r[Len(s) + 1] = i
  BY LenProperties, AppendProperties
<1> HIDE DEF r
<1>2. DOMAIN r = (1 .. Len(s)) \cup {Len(s) + 1}
  BY <1>1, LenProperties
<1>3. Elements(r) = Elements(s) \cup {i}
  <2>1. \A k \in DOMAIN r : (k \in DOMAIN s /\ r[k] = s[k]) \/ (k = Len(s) + 1 /\ r[k] = i)
    BY <1>1, <1>2, Zenon
  <2>2. \A k \in DOMAIN s : k \in DOMAIN r /\ r[k] = s[k]
    BY <1>1, <1>2, Zenon
  <2>3. Len(s) + 1 \in DOMAIN r
    BY <1>2, Zenon
  <2> QED
    <3>1. \A x : x \in Elements(r) <=> \E k \in DOMAIN r : x = r[k]
      BY Zenon DEF Elements
    <3>2. \A x : x \in Elements(s) <=> \E k \in DOMAIN s : x = s[k]
      BY Zenon DEF Elements
    <3> QED
      BY <1>1, <2>1, <2>2, <2>3, <3>1, <3>2
<1>4. Distinct(s) /\ i \notin Elements(s) => Distinct(r)
  BY <1>1, <1>2, Zenon DEF Elements, Distinct
<1> QED
  BY <1>1, <1>3, <1>4, Zenon DEF r

\* A known node that is heard from changes its place only.
LEMMA MoveToBackKeeps ==
  ASSUME NEW s \in Seq(Ids), NEW i \in Elements(s)
  PROVE  /\ MoveToBack(s, i) \in Seq(Ids) /\ Elements(MoveToBack(s, i)) \subseteq Elements(s)
         /\ Len(MoveToBack(s, i)) = Len(s)
         /\ Distinct(s) => Distinct(MoveToBack(s, i))
<1> DEFINE pos == CHOOSE k \in DOMAIN s : s[k] = i
           before == SubSeq(s, 1, pos - 1)
           after == SubSeq(s, pos + 1, Len(s))
           u == before \o after
           from(k) == IF k < pos THEN k ELSE k + 1
<1>1. pos \in DOMAIN s /\ s[pos] = i
  BY Zenon DEF Elements
<1>2. /\ pos \in 1 .. Len(s) /\ i \in Ids /\ Len(s) \in Nat /\ DOMAIN s = 1 .. Len(s)
      /\ \A k \in 1 .. Len(s) : s[k] \in Ids
  BY <1>1, LenProperties, ElementOfSeq, Zenon
<1>a. MoveToBack(s, i) = Append(u, i)
  BY Zenon DEF MoveToBack
<1> HIDE DEF pos
<1>3. /\ before \in Seq(Ids) /\ Len(before) = pos - 1
      /\ \A k \in 1 .. pos - 1 : before[k] = s[k]
  <2>1. \A k \in 1 .. pos - 1 : s[k] \in Ids
    BY <1>2
  <2> QED
    BY <1>2, <2>1, SubSeqProperties
<1>4. /\ after \in Seq(Ids) /\ Len(after) = Len(s) - pos
      /\ \A k \in 1 .. Len(s) - pos : after[k] = s[pos + k]
  <2>1. \A k \in pos + 1 .. Len(s) : s[k] \in Ids
    BY <1>2
  <2>2. \A n \in Nat : \A q \in 1 .. n :
          /\ q + 1 \in Int /\ n \in Int /\ n - (q + 1) + 1 = n - q
          /\ ~(q + 1 <= n) => n - q = 0
          /\ \A k \in 1 .. n - q : (q + 1) + k - 1 = q + k
    OBVIOUS
  <2>3. /\ after \in Seq(Ids)
        /\ Len(after) = IF pos + 1 <= Len(s) THEN Len(s) - (pos + 1) + 1 ELSE 0
    BY <1>2, <2>1, SubSeqProperties
  <2>4. \A k \in 1 .. Len(s) - (pos + 1) + 1 : after[k] = s[(pos + 1) + k - 1]
    BY <1>2, <2>1, SubSeqProperties
  <2> HIDE DEF after
  <2> QED
    BY <1>2, <2>2, <2>3, <2>4, Zenon
<1> HIDE DEF before, after
<1>5. u \in Seq(Ids) /\ Len(u) = Len(s) - 1
  <2>1. u \in Seq(Ids) /\ Len(u) = Len(before) + Len(after)
    BY <1>3, <1>4, ConcatProperties, Zenon
  <2>2. (pos - 1) + (Len(s) - pos) = Len(s) - 1
    BY <1>2
  <2> QED
    BY <1>3, <1>4, <2>1, <2>2, Zenon
<1>6. \A k \in 1 .. Len(s) - 1 : /\ u[k] = s[from(k)]
                                 /\ from(k) \in 1 .. Len(s) /\ from(k) # pos
  <2> SUFFICES ASSUME NEW k \in 1 .. Len(s) - 1
               PROVE  u[k] = s[from(k)] /\ from(k) \in 1 .. Len(s) /\ from(k) # pos
    BY Zenon
  <2>1. u[k] = IF k <= pos - 1 THEN before[k] ELSE after[k - (pos - 1)]
    BY <1>2, <1>3, <1>4, ConcatProperties
  <2>2. CASE k < pos
    BY <1>2, <1>3, <2>1, <2>2
  <2>3. CASE ~(k < pos)
    <3>1. k - (pos - 1) \in 1 .. Len(s) - pos /\ pos + (k - (pos - 1)) = k + 1 /\ ~(k <= pos - 1)
      BY <1>2, <2>3
    <3>2. u[k] = s[k + 1]
      BY <1>4, <2>1, <3>1, Zenon
    <3> QED
      BY <1>2, <2>3, <3>2
  <2> QED
    BY <2>2, <2>3, Zenon
<1>7. \A j, k \in 1 .. Len(s) - 1 : from(j) = from(k) => j = k
  BY <1>2
<1>8. DOMAIN u = 1 .. Len(s) - 1
  BY <1>5, LenProperties, Zenon
<1> HIDE DEF u, from
<1>9. Elements(u) \subseteq Elements(s)
  BY <1>2, <1>6, <1>8, Zenon DEF Elements
<1>10. ASSUME Distinct(s) PROVE Distinct(u) /\ i \notin Elements(u)
  <2>1. ASSUME NEW j \in DOMAIN u, NEW k \in DOMAIN u, u[j] = u[k] PROVE j = k
    <3>1. from(j) = from(k)
      BY <1>2, <1>6, <1>8, <1>10, <2>1, Zenon DEF Distinct
    <3> QED
      BY <1>7, <1>8, <3>1, Zenon
  <2>2. ASSUME NEW k \in DOMAIN u PROVE u[k] # i
    BY <1>1, <1>2, <1>6, <1>8, <1>10, Zenon DEF Distinct
  <2> QED
    BY <2>1, <2>2, Zenon DEF Distinct, Elements
<1>11. Len(u) + 1 = Len(s)
  BY <1>2, <1>5
<1> QED
  <2>1. /\ Append(u, i) \in Seq(Ids) /\ Elements(Append(u, i)) = Elements(u) \cup {i}
        /\ Len(Append(u, i)) = Len(s)
        /\ Distinct(u) /\ i \notin Elements(u) => Distinct(Append(u, i))
    BY <1>2, <1>5, <1>11, AppendKeeps, Zenon
  <2> QED
    BY <1>a, <1>9, <1>10, <2>1, Zenon

----------------------------------------------------------------------------
\* A node heard from again stays in its bucket.
LEMMA MovedSound ==
  ASSUME NEW b, NEW x, NEW t, SoundBucket(b, x, t), NEW i \in Elements(x.entries)
  PROVE  SoundBucket(b, [x EXCEPT !.entries = MoveToBack(x.entries, i)], t)
<1> DEFINE y == [x EXCEPT !.entries = MoveToBack(x.entries, i)]
<1>1. x.entries \in Seq(Ids) /\ x.cache \in Seq(Ids)
  BY Zenon DEF SoundBucket, Bucket
<1>2. /\ MoveToBack(x.entries, i) \in Seq(Ids) /\ Elements(MoveToBack(x.entries, i)) \subseteq Elements(x.entries)
      /\ Len(MoveToBack(x.entries, i)) = Len(x.entries)
      /\ Distinct(x.entries) => Distinct(MoveToBack(x.entries, i))
  BY <1>1, MoveToBackKeeps, Zenon
<1>3. y \in Bucket /\ y.entries = MoveToBack(x.entries, i) /\ y.cache = x.cache
  BY <1>1, <1>2, Zenon DEF SoundBucket, Bucket
<1> HIDE DEF y
<1>4. SoundBucket(b, y, t)
  BY <1>2, <1>3, Zenon DEF SoundBucket
<1> QED
  BY <1>4, Zenon DEF y

\* A new node finds room only in a bucket that keeps nobody waiting.
LEMMA AddedSound ==
  ASSUME NEW b, NEW x, NEW t, SoundBucket(b, x, t), NEW i \in Ids, BucketIndex(i) = b,
         i \notin Elements(x.entries), Len(x.entries) < K
  PROVE  SoundBucket(b, [x EXCEPT !.entries = Append(x.entries, i)], t)
<1> DEFINE y == [x EXCEPT !.entries = Append(x.entries, i)]
<1>1. x.entries \in Seq(Ids) /\ x.cache \in Seq(Ids)
  BY Zenon DEF SoundBucket, Bucket
<1>2. /\ Append(x.entries, i) \in Seq(Ids) /\ Elements(Append(x.entries, i)) = Elements(x.entries) \cup {i}
      /\ Len(Append(x.entries, i)) = Len(x.entries) + 1
      /\ Distinct(x.entries) => Distinct(Append(x.entries, i))
  BY <1>1, AppendKeeps, Zenon
<1>3. y \in Bucket /\ y.entries = Append(x.entries, i) /\ y.cache = x.cache
  BY <1>1, <1>2, Zenon DEF SoundBucket, Bucket
<1>4. Len(x.entries) \in Nat /\ Len(x.entries) + 1 <= K /\ Len(x.entries) # K
  BY <1>1, LenProperties, LookupAssumption
<1>5. x.cache = <<>> /\ Elements(<<>>) = {}
  BY <1>4 DEF SoundBucket, Elements
<1> HIDE DEF y
<1>6. /\ Len(y.entries) <= K /\ Len(y.cache) <= K /\ y.cache = <<>>
      /\ Elements(y.entries) = Elements(x.entries) \cup {i} /\ Elements(y.cache) = {}
      /\ ~t => Distinct(y.entries) /\ Distinct(y.cache)
  BY <1>2, <1>3, <1>4, <1>5, Zenon DEF SoundBucket
<1>7. SoundBucket(b, y, t)
  BY <1>3, <1>6, Zenon DEF SoundBucket
<1> QED
  BY <1>7, Zenon DEF y

\* A new node waits behind a full bucket; a cache that had it already is noted.
LEMMA CachedSound ==
  ASSUME NEW b, NEW x, NEW t, SoundBucket(b, x, t), NEW i \in Ids, BucketIndex(i) = b,
         i \notin Elements(x.entries), ~(Len(x.entries) < K), NEW c,
         c = IF Len(x.cache) >= K THEN PopFront(x.cache) ELSE x.cache
  PROVE  SoundBucket(b, [x EXCEPT !.cache = Append(c, i)], t \/ i \in Elements(x.cache))
<1> DEFINE y == [x EXCEPT !.cache = Append(c, i)]
<1>1. x.entries \in Seq(Ids) /\ x.cache \in Seq(Ids) /\ Len(x.entries) <= K /\ Len(x.cache) <= K
  BY Zenon DEF SoundBucket, Bucket
<1>2. Len(x.entries) \in Nat /\ Len(x.cache) \in Nat /\ K \in Nat \ {0}
  BY <1>1, LenProperties, LookupAssumption, Zenon
<1>3. /\ c \in Seq(Ids) /\ Elements(c) \subseteq Elements(x.cache) /\ Len(c) + 1 <= K
      /\ Distinct(x.cache) => Distinct(c)
  <2>1. CASE Len(x.cache) >= K
    <3>1. /\ c \in Seq(Ids) /\ Elements(c) \subseteq Elements(x.cache)
          /\ Len(c) = IF Len(x.cache) = 0 THEN 0 ELSE Len(x.cache) - 1
          /\ Distinct(x.cache) => Distinct(c)
      BY <1>1, <2>1, PopFrontKeeps, Zenon
    <3>2. Len(c) + 1 <= K
      BY <1>1, <1>2, <3>1
    <3> QED
      BY <3>1, <3>2, Zenon
  <2>2. CASE ~(Len(x.cache) >= K)
    <3>1. c = x.cache
      BY <2>2, Zenon
    <3>2. Len(x.cache) + 1 <= K
      BY <1>2, <2>2
    <3> QED
      BY <1>1, <3>1, <3>2, Zenon
  <2> QED
    BY <2>1, <2>2, Zenon
<1>4. /\ Append(c, i) \in Seq(Ids) /\ Elements(Append(c, i)) = Elements(c) \cup {i}
      /\ Len(Append(c, i)) = Len(c) + 1
      /\ Distinct(c) /\ i \notin Elements(c) => Distinct(Append(c, i))
  BY <1>3, AppendKeeps, Zenon
<1>5. y \in Bucket /\ y.entries = x.entries /\ y.cache = Append(c, i)
  BY <1>1, <1>4, Zenon DEF SoundBucket, Bucket
<1>6. Len(x.entries) = K
  BY <1>1, <1>2
<1> HIDE DEF y
<1>7. /\ Len(y.entries) <= K /\ Len(y.cache) <= K /\ Len(y.entries) = K
      /\ \A j \in Elements(y.entries) \cup Elements(y.cache) : BucketIndex(j) = b
  <2>1. Elements(y.cache) \subseteq Elements(x.cache) \cup {i}
    BY <1>3, <1>4, <1>5, Zenon
  <2>2. \A j \in Elements(y.entries) \cup Elements(y.cache) : BucketIndex(j) = b
    <3>1. \A j \in Elements(x.entries) \cup Elements(x.cache) : BucketIndex(j) = b
      BY Zenon DEF SoundBucket
    <3>2. Elements(y.entries) = Elements(x.entries)
      BY <1>5, Zenon
    <3> QED
      BY <2>1, <3>1, <3>2
  <2>3. Len(y.cache) <= K
    BY <1>3, <1>4, <1>5, Zenon
  <2> QED
    BY <1>1, <1>5, <1>6, <2>2, <2>3, Zenon
<1>8. ASSUME ~t, i \notin Elements(x.cache)
      PROVE  /\ Distinct(y.entries) /\ Distinct(y.cache)
             /\ Elements(y.entries) \cap Elements(y.cache) = {}
  <2>1. Distinct(x.entries) /\ Distinct(x.cache) /\ Elements(x.entries) \cap Elements(x.cache) = {}
    BY <1>8, Zenon DEF SoundBucket
  <2>2. i \notin Elements(c) /\ Distinct(c)
    BY <1>3, <1>8, <2>1, Zenon
  <2> QED
    BY <1>3, <1>4, <1>5, <2>1, <2>2, Zenon
<1>9. SoundBucket(b, y, t \/ i \in Elements(x.cache))
  BY <1>5, <1>7, <1>8, Zenon DEF SoundBucket
<1> QED
  BY <1>9, Zenon DEF y

\* The newest node of the cache takes the place of the oldest entry.
LEMMA EvictedSound ==
  ASSUME NEW b, NEW x, NEW t, SoundBucket(b, x, t), NEW e, e = PopFront(x.entries)
  PROVE  SoundBucket(b, IF x.cache = <<>> THEN [entries |-> e, cache |-> x.cache]
                        ELSE [entries |-> Append(e, x.cache[Len(x.cache)]), cache |-> PopBack(x.cache)], t)
<1>1. x.entries \in Seq(Ids) /\ x.cache \in Seq(Ids) /\ Len(x.entries) <= K /\ Len(x.cache) <= K
  BY Zenon DEF SoundBucket, Bucket
<1>2. Len(x.entries) \in Nat /\ Len(x.cache) \in Nat /\ K \in Nat \ {0}
  BY <1>1, LenProperties, LookupAssumption, Zenon
<1>3. /\ e \in Seq(Ids) /\ Elements(e) \subseteq Elements(x.entries)
      /\ Len(e) = IF Len(x.entries) = 0 THEN 0 ELSE Len(x.entries) - 1
      /\ Distinct(x.entries) => Distinct(e)
  BY <1>1, PopFrontKeeps, Zenon
<1>4. CASE x.cache = <<>>
  <2> DEFINE y == [entries |-> e, cache |-> x.cache]
  <2>1. y \in Bucket /\ y.entries = e /\ y.cache = x.cache
    BY <1>1, <1>3, Zenon DEF Bucket
  <2>2. Len(e) <= K
    BY <1>1, <1>2, <1>3
  <2> HIDE DEF y
  <2>3. SoundBucket(b, y, t)
    BY <1>1, <1>3, <1>4, <2>1, <2>2, Zenon DEF SoundBucket
  <2> QED
    BY <1>4, <2>3, Zenon DEF y
<1>5. CASE x.cache # <<>>
  <2> DEFINE i == x.cache[Len(x.cache)]
             c == PopBack(x.cache)
             y == [entries |-> Append(e, i), cache |-> c]
  <2>1. /\ c \in Seq(Ids) /\ Elements(c) \subseteq Elements(x.cache) /\ Len(c) = Len(x.cache) - 1
        /\ i \in Elements(x.cache) /\ i \in Ids
        /\ Distinct(x.cache) => Distinct(c) /\ i \notin Elements(c)
    BY <1>1, <1>5, PopBackKeeps, PopBackType, Zenon
  <2> HIDE DEF i, c
  <2>2. /\ Append(e, i) \in Seq(Ids) /\ Elements(Append(e, i)) = Elements(e) \cup {i}
        /\ Len(Append(e, i)) = Len(e) + 1
        /\ Distinct(e) /\ i \notin Elements(e) => Distinct(Append(e, i))
    BY <1>3, <2>1, AppendKeeps, Zenon
  <2>3. y \in Bucket /\ y.entries = Append(e, i) /\ y.cache = c
    BY <2>1, <2>2, Zenon DEF Bucket
  <2>4. Len(x.entries) = K
    BY <1>5, Zenon DEF SoundBucket
  <2>5. Len(e) + 1 = K /\ Len(c) <= K
    BY <1>1, <1>2, <1>3, <2>1, <2>4
  <2>6. K <= K
    BY <1>2
  <2> HIDE DEF y
  <2>7. /\ Len(y.entries) <= K /\ Len(y.cache) <= K /\ Len(y.entries) = K
        /\ \A j \in Elements(y.entries) \cup Elements(y.cache) : BucketIndex(j) = b
    BY <1>3, <2>1, <2>2, <2>3, <2>5, <2>6, Zenon DEF SoundBucket
  <2>8. ASSUME ~t
        PROVE  /\ Distinct(y.entries) /\ Distinct(y.cache)
               /\ Elements(y.entries) \cap Elements(y.cache) = {}
    BY <1>3, <2>1, <2>2, <2>3, <2>8, Zenon DEF SoundBucket
  <2>9. SoundBucket(b, y, t)
    BY <2>3, <2>7, <2>8, Zenon DEF SoundBucket
  <2> QED
    BY <1>5, <2>9, Zenon DEF y, i, c
<1> QED
  BY <1>4, <1>5, Zenon

----------------------------------------------------------------------------
\* A table stays sound when one of its buckets is replaced by a sound one.
LEMMA TableReplaced ==
  ASSUME TableInv, NEW b, NEW x, NEW t \in BOOLEAN, recached => t,
         b \in 0 .. Bits - 1 => SoundBucket(b, x, t),
         buckets' = [buckets EXCEPT ![b] = x], recached' = t
  PROVE  TableInv'
<1> DEFINE B == 0 .. Bits - 1
<1>1. \A a \in B : SoundBucket(a, buckets[a], recached)
  BY Zenon DEF TableInv
<1>2. \A a, y : SoundBucket(a, y, recached) => SoundBucket(a, y, t)
  BY Zenon DEF SoundBucket
<1>3. buckets \in [B -> Bucket]
  BY Zenon DEF TableInv
<1> HIDE DEF B
<1>4. \A a \in B : buckets'[a] = IF a = b THEN x ELSE buckets[a]
  BY <1>3, Zenon
<1>5. \A a \in B : SoundBucket(a, buckets'[a], t)
  BY <1>1, <1>2, <1>4, Zenon DEF B
<1>6. buckets' \in [B -> Bucket]
  <2>1. b \in B => x \in Bucket
    BY Zenon DEF SoundBucket, B
  <2> QED
    BY <1>3, <2>1, Zenon
<1>7. \A a \in B : SoundBucket(a, buckets[a], recached)'
  BY <1>5, Zenon DEF SoundBucket, Bucket, Elements, Distinct, BucketIndex
<1> QED
  BY <1>6, <1>7, Zenon DEF TableInv, B, Bucket

\* Every step keeps the table sound.
LEMMA TableStep == TableInv /\ [LookupNext]_lookupVars => TableInv'
<1> SUFFICES ASSUME TableInv, [LookupNext]_lookupVars PROVE TableInv'
  BY Zenon
<1>0. /\ \A b \in 0 .. Bits - 1 : SoundBucket(b, buckets[b], recached)
      /\ recached \in BOOLEAN
  BY Zenon DEF TableInv
<1>1. CASE UNCHANGED tableVars
  BY <1>1, Zenon DEF tableVars, TableInv
<1>2. ASSUME NEW i \in Ids, Insert(i) PROVE TableInv'
  <2> DEFINE b == BucketIndex(i)
             x == buckets[b]
             c == IF Len(x.cache) >= K THEN PopFront(x.cache) ELSE x.cache
  <2>1. CASE i \in Elements(x.entries)
    <3> DEFINE y == [x EXCEPT !.entries = MoveToBack(x.entries, i)]
    <3>1. buckets' = [buckets EXCEPT ![b] = y] /\ recached' = recached
      BY <1>2, <2>1, Zenon DEF Insert
    <3>2. b \in 0 .. Bits - 1 => SoundBucket(b, y, recached)
      BY <1>0, <2>1, MovedSound, Zenon
    <3> HIDE DEF y, b
    <3> QED
      BY <1>0, <3>1, <3>2, TableReplaced, Zenon
  <2>2. CASE i \notin Elements(x.entries) /\ Len(x.entries) < K
    <3> DEFINE y == [x EXCEPT !.entries = Append(x.entries, i)]
    <3>1. buckets' = [buckets EXCEPT ![b] = y] /\ recached' = recached
      BY <1>2, <2>2, Zenon DEF Insert
    <3>2. b \in 0 .. Bits - 1 => SoundBucket(b, y, recached)
      BY <1>0, <2>2, AddedSound, Zenon
    <3> HIDE DEF y, b
    <3> QED
      BY <1>0, <3>1, <3>2, TableReplaced, Zenon
  <2>3. CASE i \notin Elements(x.entries) /\ ~(Len(x.entries) < K)
    <3> DEFINE y == [x EXCEPT !.cache = Append(c, i)]
               t == recached \/ i \in Elements(x.cache)
    <3>1. buckets' = [buckets EXCEPT ![b] = y] /\ recached' = t
      BY <1>2, <2>3, Zenon DEF Insert
    <3>2. b \in 0 .. Bits - 1 => SoundBucket(b, y, t)
      BY <1>0, <2>3, CachedSound, Zenon
    <3>3. t \in BOOLEAN /\ (recached => t)
      BY Zenon
    <3> HIDE DEF y, b, t
    <3> QED
      BY <3>1, <3>2, <3>3, TableReplaced, Zenon
  <2> QED
    BY <2>1, <2>2, <2>3, Zenon
<1>3. ASSUME NEW p \in pings, EvictOldest(p) PROVE TableInv'
  <2> DEFINE b == p[1]
             x == buckets[b]
             e == PopFront(x.entries)
             y == IF x.cache = <<>> THEN [entries |-> e, cache |-> x.cache]
                  ELSE [entries |-> Append(e, x.cache[Len(x.cache)]), cache |-> PopBack(x.cache)]
  <2>1. buckets' = [buckets EXCEPT ![b] = y] /\ recached' = recached
    BY <1>3, Zenon DEF EvictOldest
  <2>2. b \in 0 .. Bits - 1 => SoundBucket(b, y, recached)
    BY <1>0, EvictedSound, Zenon
  <2> HIDE DEF y, b
  <2> QED
    BY <1>0, <2>1, <2>2, TableReplaced, Zenon
<1>4. ASSUME NEW p \in pings, Ponged(p) PROVE TableInv'
  <2> DEFINE b == p[1]
             x == buckets[b]
             y == [x EXCEPT !.entries = MoveToBack(x.entries, p[2])]
  <2>1. CASE p[2] \in Elements(x.entries)
    <3>1. buckets' = [buckets EXCEPT ![b] = y] /\ recached' = recached
      BY <1>4, <2>1, Zenon DEF Ponged
    <3>2. b \in 0 .. Bits - 1 => SoundBucket(b, y, recached)
      BY <1>0, <2>1, MovedSound, Zenon
    <3> HIDE DEF y, b
    <3> QED
      BY <1>0, <3>1, <3>2, TableReplaced, Zenon
  <2>2. CASE p[2] \notin Elements(x.entries)
    <3>1. buckets' = buckets /\ recached' = recached
      BY <1>4, <2>2, Zenon DEF Ponged
    <3> QED
      BY <3>1, Zenon DEF TableInv
  <2> QED
    BY <2>1, <2>2, Zenon
<1>5. CASE QueryNext
  <2>1. UNCHANGED tableVars
    BY <1>5, Zenon DEF QueryNext, NewQuery, Ask, TakeFoundValue, ProcessFindNodeResponse, SetFoundValue, AnswerLost
  <2> QED
    BY <1>1, <2>1, Zenon
<1>6. CASE UNCHANGED lookupVars
  BY <1>1, <1>6, Zenon DEF lookupVars, tableVars
<1> QED
  BY <1>2, <1>3, <1>4, <1>5, <1>6, Zenon DEF LookupNext, TableNext

\* A sequence without repetition has as many elements as places.
LEMMA DistinctCount ==
  ASSUME NEW s \in Seq(Ids), Distinct(s)
  PROVE  Cardinality(Elements(s)) = Len(s)
<1>1. Len(s) \in Nat /\ DOMAIN s = 1 .. Len(s) /\ s \in [1 .. Len(s) -> Elements(s)]
  <2>1. Len(s) \in Nat /\ DOMAIN s = 1 .. Len(s) /\ s \in [1 .. Len(s) -> Ids]
    BY LenProperties, Zenon
  <2>2. \A k \in 1 .. Len(s) : s[k] \in Elements(s)
    BY <2>1, Zenon DEF Elements
  <2> QED
    BY <2>1, <2>2, Zenon
<1>2. s \in Bijection(1 .. Len(s), Elements(s))
  BY <1>1, Zenon DEF Bijection, Injection, Surjection, IsInjective, Distinct, Elements
<1>3. ExistsBijection(1 .. Len(s), Elements(s))
  BY <1>2, Zenon DEF ExistsBijection
<1> QED
  BY <1>1, <1>3, FS_CountingElements, Zenon

\* An empty table is sound.
LEMMA TableStart == LookupInit => TableInv
<1> SUFFICES ASSUME LookupInit PROVE TableInv
  BY Zenon
<1> DEFINE x == [entries |-> <<>>, cache |-> <<>>]
<1>1. x \in Bucket /\ x.entries = <<>> /\ x.cache = <<>>
  BY EmptySeq, Zenon DEF Bucket
<1>2. Elements(<<>>) = {} /\ Distinct(<<>>) /\ Len(<<>>) <= K
  BY LookupAssumption DEF Elements, Distinct
<1> HIDE DEF x
<1>3. \A b, t : SoundBucket(b, x, t)
  BY <1>1, <1>2, Zenon DEF SoundBucket
<1>4. buckets = [b \in 0 .. Bits - 1 |-> x] /\ recached = FALSE
  BY Zenon DEF LookupInit, x
<1> QED
  BY <1>1, <1>3, <1>4, Zenon DEF TableInv

\* The table is sound whatever is inserted, evicted or answers.
THEOREM TableAlwaysSound == LookupSpec => []TableInv
  BY TableStart, TableStep, PTL DEF LookupSpec

\* RoutingTable::insert, evictions and answered pings: a node has one entry, in
\* the bucket of its distance, and is not waiting for another, for any number of
\* nodes, any bucket size and any order of calls.
THEOREM NodesHaveOneEntry == LookupSpec => []NoNodeTwice
<1>1. ASSUME TableInv PROVE NoNodeTwice
  <2> SUFFICES ASSUME NEW b \in 0 .. Bits - 1, NEW e, e = buckets[b].entries, NEW c, c = buckets[b].cache
               PROVE  /\ Len(e) <= K /\ Len(c) <= K
                      /\ \A i \in Elements(e) \cup Elements(c) : BucketIndex(i) = b
                      /\ ~recached => /\ Cardinality(Elements(e)) = Len(e)
                                      /\ Elements(e) \cap Elements(c) = {}
    BY <1>1, Zenon DEF NoNodeTwice, TableInv
  <2>1. SoundBucket(b, buckets[b], recached) /\ e \in Seq(Ids)
    BY <1>1, Zenon DEF TableInv, Bucket
  <2>2. ~recached => Cardinality(Elements(e)) = Len(e)
    BY <2>1, DistinctCount, Zenon DEF SoundBucket
  <2> QED
    BY <2>1, <2>2, Zenon DEF SoundBucket
<1> QED
  BY <1>1, TableAlwaysSound, PTL DEF LookupSpec

----------------------------------------------------------------------------
\* What closest returns are identifiers.
LEMMA ClosestEntriesType ==
  ASSUME buckets \in [0 .. Bits - 1 -> Bucket]
  PROVE  ClosestEntries \in SUBSET Ids
<1>1. ASSUME NEW p \in Places PROVE buckets[p[1]].entries[p[2]] \in Ids
  <2>1. p[1] \in 0 .. Bits - 1 /\ p[2] \in 1 .. K /\ p[2] <= Len(buckets[p[1]].entries)
    BY <1>1, Zenon DEF Places
  <2>2. buckets[p[1]].entries \in Seq(Ids)
    BY <2>1, Zenon DEF Bucket
  <2>3. p[2] \in 1 .. Len(buckets[p[1]].entries)
    BY <2>1, <2>2, LenProperties, LookupAssumption
  <2> QED
    BY <2>2, <2>3, ElementOfSeq, Zenon
<1> QED
  BY <1>1, Zenon DEF ClosestEntries

\* Every step keeps the invariant. An answer ends the lookup exactly when it
\* leaves next_to_query nothing to return.
LEMMA LookupStepInv == LookupInv /\ TableInv /\ [LookupNext]_lookupVars => LookupInv'
<1> SUFFICES ASSUME LookupInv, TableInv, [LookupNext]_lookupVars PROVE LookupInv'
  BY Zenon
<1>1. CASE UNCHANGED lookupVars
  BY <1>1, Zenon DEF LookupInv, QueryTypeOK, lookupVars, tableVars, queryVars
<1>2. CASE TableNext
  <2>1. UNCHANGED queryVars
    BY <1>2, Zenon DEF TableNext, Insert, EvictOldest, Ponged
  <2>2. buckets' \in [0 .. Bits - 1 -> Bucket]
    BY TableStep, Zenon DEF TableInv
  <2> QED
    BY <2>1, <2>2, Zenon DEF LookupInv, QueryTypeOK, queryVars
<1>3. CASE NewQuery
  <2>1. ClosestEntries \in SUBSET Ids
    BY ClosestEntriesType, Zenon DEF LookupInv
  <2>2. candidates = {} /\ queried = {} /\ ~finished /\ told \subseteq {LocalId}
    BY <1>3, Zenon DEF NewQuery, LookupInv, QueryTypeOK
  <2> QED
    BY <1>3, <2>1, <2>2, Zenon DEF NewQuery, LookupInv, QueryTypeOK, tableVars
<1>4. CASE Ask
  <2>1. NextToQuery \subseteq Ids
    BY Zenon DEF NextToQuery, Closest, LookupInv, QueryTypeOK
  <2> QED
    BY <1>4, <2>1, Zenon DEF Ask, LookupInv, QueryTypeOK, tableVars
<1>5. CASE TakeFoundValue
  BY <1>5, Zenon DEF TakeFoundValue, LookupInv, QueryTypeOK, tableVars
<1>6. ASSUME NEW from \in asked, NEW closer \in Answers, ProcessFindNodeResponse(from, closer)
      PROVE  LookupInv'
  <2>1. from \in Ids /\ closer \in SUBSET Ids /\ ~finished /\ started
    BY <1>6, LookupAssumption, Zenon DEF ProcessFindNodeResponse, LookupInv, QueryTypeOK
  <2>2. /\ queried' = queried \cup {from}
        /\ candidates' = candidates \cup (closer \ {LocalId})
        /\ finished' = (NextToQuery' = {})
        /\ told' = told \cup closer /\ asked' = asked \ {from}
        /\ UNCHANGED <<buckets, started, seeds, found_value>>
    BY <1>6, <2>1, Zenon DEF ProcessFindNodeResponse, Process, tableVars
  <2>3. QueryTypeOK'
    BY <2>1, <2>2, Zenon DEF LookupInv, QueryTypeOK
  <2>4. NextToQuery' = {} <=> candidates' \subseteq queried'
    <3>1. NextToQuery' = Closest(candidates' \ queried', Alpha)
      BY Zenon DEF NextToQuery, Closest
    <3>2. candidates' \ queried' \in SUBSET Ids
      BY <2>3, Zenon DEF QueryTypeOK
    <3>3. ~(candidates' \subseteq queried') => NextToQuery' # {}
      BY <3>1, <3>2, ClosestNotEmpty, LookupAssumption, Zenon
    <3>4. candidates' \subseteq queried' => NextToQuery' = {}
      BY <3>1, Zenon DEF Closest
    <3> QED
      BY <3>3, <3>4, Zenon
  <2> QED
    BY <2>1, <2>2, <2>3, <2>4, Zenon DEF LookupInv
<1>7. ASSUME NEW from \in asked, SetFoundValue(from) PROVE LookupInv'
  BY <1>7, Zenon DEF SetFoundValue, LookupInv, QueryTypeOK, tableVars
<1>8. ASSUME NEW from \in asked, AnswerLost(from) PROVE LookupInv'
  BY <1>8, Zenon DEF AnswerLost, LookupInv, QueryTypeOK, tableVars
<1> QED
  BY <1>1, <1>2, <1>3, <1>4, <1>5, <1>6, <1>7, <1>8, Zenon DEF LookupNext, QueryNext

\* The invariant holds in every state of the table and the lookup.
THEOREM LookupInvariant == LookupSpec => []LookupInv
  BY LookupInitInv, LookupStepInv, TableAlwaysSound, PTL DEF LookupSpec

\* A lookup that ends without the value has asked every node it heard of, and its
\* results are the closest of them (process_find_node_response, closest_results).
THEOREM LookupAlwaysComplete == LookupSpec => []LookupComplete
<1>1. LookupInv => LookupComplete
  BY Zenon DEF LookupInv, LookupComplete
<1> QED
  BY <1>1, LookupInvariant, PTL

\* A lookup that has not ended has a node left to ask, unless it started with none
\* (next_to_query and the test for the end never disagree).
THEOREM LookupAlwaysGoesOn == LookupSpec => []LookupCanGoOn
<1>1. LookupInv => LookupCanGoOn
  <2> SUFFICES ASSUME LookupInv, started, ~finished, seeds # {} PROVE NextToQuery # {}
    BY Zenon DEF LookupCanGoOn
  <2>1. candidates \ queried \in SUBSET Ids /\ candidates \ queried # {}
    BY Zenon DEF LookupInv, QueryTypeOK
  <2> QED
    BY <2>1, ClosestNotEmpty, LookupAssumption, Zenon DEF NextToQuery
<1> QED
  BY <1>1, LookupInvariant, PTL
-----------------------------------------------------------------------------
(* PlumTree. *)

TreeTypeOK ==
    /\ tick \in Nat /\ epochStart \in Nat
    /\ topics \in [Topics -> TopicStates \cup {NoState}]
    /\ current \subseteq Hashes /\ previous \subseteq Hashes
    /\ markedAt \subseteq Hashes \X Nat

\* What a topic's channel took, the topic has seen, and nothing twice.
HandedOnce(s) ==
    /\ \A i \in 1 .. Len(s.handed) : s.handed[i] \in s.seen
    /\ \A i, j \in 1 .. Len(s.handed) : i # j => s.handed[i] # s.handed[j]
    /\ s.eager \cap s.lazy = {}

\* Until an epoch has passed since its mark a hash is in one of the two sets; and it
\* is in the current one, unless the mark is older than the epoch: this is what a
\* rotation, which drops the other set, needs.
EpochInv ==
    /\ epochStart <= tick
    /\ \A m \in markedAt :
          /\ m[2] <= tick
          /\ m[1] \in current \cup previous \/ tick >= m[2] + EpochDuration
          /\ m[1] \in current \/ m[2] <= epochStart

TreeInv ==
    /\ TreeTypeOK /\ EpochInv
    /\ \A t \in Topics : topics[t] # NoState => HandedOnce(topics[t])

\* Appending what is not there yet to what is handed keeps it without repetition.
LEMMA AppendOnce ==
    ASSUME NEW s \in TopicStates, NEW h \in Hashes, HandedOnce(s), h \notin s.seen
    PROVE  /\ TrySend([s EXCEPT !.seen = @ \cup {h}], h) \in TopicStates
           /\ HandedOnce(TrySend([s EXCEPT !.seen = @ \cup {h}], h))
<1> DEFINE u == [s EXCEPT !.seen = @ \cup {h}]
<1> DEFINE w == [u EXCEPT !.handed = Append(@, h), !.waiting = @ + 1]
<1>1. /\ u \in TopicStates /\ u.seen = s.seen \cup {h} /\ u.handed = s.handed
      /\ u.eager = s.eager /\ u.lazy = s.lazy
  BY Zenon DEF TopicStates
<1>2. HandedOnce(u)
  BY <1>1, Zenon DEF HandedOnce, TopicStates
<1>3. /\ w \in TopicStates /\ w.seen = u.seen /\ w.handed = Append(s.handed, h)
      /\ w.eager = s.eager /\ w.lazy = s.lazy
  <2>1. w.handed = Append(s.handed, h) /\ w.seen = u.seen /\ w.eager = s.eager /\ w.lazy = s.lazy
    BY <1>1, Zenon DEF TopicStates
  <2>2. Append(s.handed, h) \in Seq(Hashes)
    BY DEF TopicStates
  <2>3. w \in TopicStates
    <3> HIDE DEF u
    <3>1. u.handed = s.handed /\ u.waiting + 1 \in Nat
      BY <1>1 DEF TopicStates
    <3> QED
      BY <1>1, <2>2, <3>1, Zenon DEF TopicStates
  <2> QED
    BY <2>1, <2>3, Zenon
<1>4. HandedOnce(w)
  <2>1. /\ Len(w.handed) = Len(s.handed) + 1 /\ Len(s.handed) \in Nat
        /\ w.handed[Len(s.handed) + 1] = h
        /\ \A i \in 1 .. Len(s.handed) : w.handed[i] = s.handed[i]
    BY <1>3 DEF TopicStates
  <2>2. \A i \in 1 .. Len(w.handed) : i \in 1 .. Len(s.handed) \/ i = Len(s.handed) + 1
    BY <2>1
  <2>3. \A i \in 1 .. Len(w.handed) : w.handed[i] \in w.seen
    BY <1>1, <1>3, <2>1, <2>2, Zenon DEF HandedOnce
  <2>4. \A i, j \in 1 .. Len(w.handed) : i # j => w.handed[i] # w.handed[j]
    BY <2>1, <2>2 DEF HandedOnce
  <2> QED
    BY <1>3, <2>3, <2>4, Zenon DEF HandedOnce
<1>5. TrySend(u, h) = u \/ TrySend(u, h) = w
  BY Zenon DEF TrySend
<1> QED
  BY <1>1, <1>2, <1>3, <1>4, <1>5, Zenon

\* A message is handled: the rotation first, then the mark, then the topic.
LEMMA ReceiveKeeps ==
    ASSUME TreeInv, NEW t \in Topics, NEW h \in Hashes, ReceiveMessage(t, h)
    PROVE  TreeInv'
<1> DEFINE d == MaybeRotate
<1>1. /\ d.current \subseteq Hashes /\ d.previous \subseteq Hashes
      /\ d.epochStart \in Nat /\ d.epochStart <= tick
      /\ \A m \in markedAt :
            /\ m[1] \in d.current \cup d.previous \/ tick >= m[2] + EpochDuration
            /\ m[1] \in d.current \/ m[2] <= d.epochStart
  <2>1. CASE EpochOver
    <3>1. d.current = {} /\ d.previous = current /\ d.epochStart = tick
      BY <2>1, Zenon DEF MaybeRotate
    <3>2. ASSUME NEW m \in markedAt
          PROVE  m[1] \in current \/ tick >= m[2] + EpochDuration
      BY <2>1, PlumTreeAssumption DEF EpochOver, TreeInv, TreeTypeOK, EpochInv
    <3> QED
      BY <3>1, <3>2, SMTT(30) DEF TreeInv, TreeTypeOK, EpochInv
  <2>2. CASE ~EpochOver
    <3>1. d.current = current /\ d.previous = previous /\ d.epochStart = epochStart
      BY <2>2, Zenon DEF MaybeRotate
    <3> QED
      BY <3>1, Zenon DEF TreeInv, TreeTypeOK, EpochInv
  <2> QED
    BY <2>1, <2>2, Zenon
<1>2. /\ epochStart' = d.epochStart /\ previous' = d.previous /\ tick' = tick
      /\ \/ current' = d.current /\ UNCHANGED <<topics, markedAt>>
         \/ /\ current' = d.current \cup {h}
            /\ markedAt' = markedAt \cup {<<h, tick>>}
            /\ topics' = [topics EXCEPT ![t] = TopicReceives(@, h)]
  BY Zenon DEF ReceiveMessage
<1> HIDE DEF d
<1>3. EpochInv'
  <2>1. CASE current' = d.current /\ UNCHANGED <<topics, markedAt>>
    BY <1>1, <1>2, <2>1, Zenon DEF EpochInv, TreeInv
  <2>2. CASE current' = d.current \cup {h} /\ markedAt' = markedAt \cup {<<h, tick>>}
    <3>1. ASSUME NEW m \in markedAt'
          PROVE  /\ m[2] <= tick'
                 /\ m[1] \in current' \cup previous' \/ tick' >= m[2] + EpochDuration
                 /\ m[1] \in current' \/ m[2] <= epochStart'
      <4>1. CASE m \in markedAt
        BY <1>1, <1>2, <2>2, <4>1, Zenon DEF EpochInv, TreeInv
      <4>2. CASE m = <<h, tick>>
        BY <1>2, <2>2, <4>2, SMTT(30) DEF TreeInv, TreeTypeOK
      <4> QED
        BY <2>2, <4>1, <4>2, Zenon
    <3> QED
      BY <1>1, <1>2, <3>1, Zenon DEF EpochInv
  <2> QED
    BY <1>2, <2>1, <2>2, Zenon
<1>4. TopicReceives(topics[t], h) \in TopicStates \cup {NoState}
      /\ (TopicReceives(topics[t], h) # NoState => HandedOnce(TopicReceives(topics[t], h)))
  <2>1. CASE topics[t] = NoState \/ h \in topics[t].seen
    BY <2>1, Zenon DEF TopicReceives, TreeInv, TreeTypeOK
  <2>2. CASE ~(topics[t] = NoState \/ h \in topics[t].seen)
    <3>1. topics[t] \in TopicStates /\ HandedOnce(topics[t])
      BY <2>2, Zenon DEF TreeInv, TreeTypeOK
    <3> QED
      BY <2>2, <3>1, AppendOnce, Zenon DEF TopicReceives
  <2> QED
    BY <2>1, <2>2, Zenon
<1>5. /\ topics' \in [Topics -> TopicStates \cup {NoState}]
      /\ \A k \in Topics : topics'[k] # NoState => HandedOnce(topics'[k])
  BY <1>2, <1>4, Zenon DEF TreeInv, TreeTypeOK
<1>6. TreeTypeOK'
  BY <1>1, <1>2, <1>5, SMTT(30) DEF TreeInv, TreeTypeOK
<1> QED
  BY <1>3, <1>5, <1>6, Zenon DEF TreeInv, HandedOnce

\* The steps that leave the filter of the engine alone.
LEMMA TopicStepKeeps ==
    ASSUME TreeInv, UNCHANGED <<tick, dedupVars>>, NEW t \in Topics,
           NEW s \in TopicStates \cup {NoState}, s # NoState => HandedOnce(s),
           topics' = [topics EXCEPT ![t] = s]
    PROVE  TreeInv'
<1>1. EpochInv'
  BY Zenon DEF EpochInv, TreeInv, dedupVars
<1>2. TreeTypeOK'
  BY Zenon DEF TreeTypeOK, TreeInv, dedupVars
<1>3. \A k \in Topics : topics'[k] # NoState => HandedOnce(topics'[k])
  BY Zenon DEF TreeTypeOK, TreeInv
<1> QED
  BY <1>1, <1>2, <1>3, Zenon DEF TreeInv, HandedOnce

\* Every step of the tree engine keeps its invariant.
LEMMA TreeStepInv == TreeInv /\ [TreeNext]_treeVars => TreeInv'
<1> SUFFICES ASSUME TreeInv, [TreeNext]_treeVars PROVE TreeInv'
  BY Zenon
<1>1. ASSUME NEW t \in Topics, SubscribeTopic(t) PROVE TreeInv'
  <2>1. NewTopicState \in TopicStates /\ HandedOnce(NewTopicState)
    BY DEF NewTopicState, TopicStates, HandedOnce
  <2> QED
    BY <1>1, <2>1, TopicStepKeeps, Zenon DEF SubscribeTopic
<1>2. ASSUME NEW t \in Topics, UnsubscribeTopic(t) PROVE TreeInv'
  BY <1>2, TopicStepKeeps, Zenon DEF UnsubscribeTopic
<1>3. ASSUME NEW t \in Topics, Recv(t) PROVE TreeInv'
  <2> DEFINE s == [topics[t] EXCEPT !.waiting = @ - 1]
  <2>1. topics[t] \in TopicStates /\ HandedOnce(topics[t]) /\ topics[t].waiting \in Nat \ {0}
    BY <1>3 DEF Recv, Subscribed, TreeInv, TreeTypeOK, TopicStates
  <2>2. s \in TopicStates /\ HandedOnce(s)
    BY <2>1 DEF TopicStates, HandedOnce
  <2>3. topics' = [topics EXCEPT ![t] = s]
    BY <1>3, Zenon DEF Recv
  <2> QED
    BY <1>3, <2>2, <2>3, TopicStepKeeps, Zenon DEF Recv
<1>4. ASSUME NEW t \in Topics, NEW p \in Sources,
             AddEagerPeer(t, p) \/ PruneToLazy(t, p) \/ GraftToEager(t, p)
      PROVE TreeInv'
  <2> DEFINE eagerly == [topics[t] EXCEPT !.lazy = @ \ {p}, !.eager = @ \cup {p}]
             lazily  == [topics[t] EXCEPT !.eager = @ \ {p}, !.lazy = @ \cup {p}]
  <2>1. topics[t] \in TopicStates /\ HandedOnce(topics[t])
    BY <1>4, Zenon DEF AddEagerPeer, PruneToLazy, GraftToEager, Subscribed, TreeInv, TreeTypeOK
  <2>2. eagerly \in TopicStates /\ HandedOnce(eagerly)
    BY <2>1, Zenon DEF TopicStates, HandedOnce
  <2>3. lazily \in TopicStates /\ HandedOnce(lazily)
    BY <2>1, Zenon DEF TopicStates, HandedOnce
  <2>4. /\ UNCHANGED <<tick, dedupVars>>
        /\ topics' = [topics EXCEPT ![t] = eagerly] \/ topics' = [topics EXCEPT ![t] = lazily]
    BY <1>4, Zenon DEF AddEagerPeer, PruneToLazy, GraftToEager, TreeInv, TreeTypeOK
  <2> HIDE DEF eagerly, lazily
  <2> QED
    BY <2>2, <2>3, <2>4, TopicStepKeeps, Zenon
<1>5. ASSUME Tick PROVE TreeInv'
  <2>1. EpochInv'
    BY <1>5, PlumTreeAssumption DEF Tick, EpochInv, TreeInv, TreeTypeOK, dedupVars
  <2> QED
    BY <1>5, <2>1 DEF Tick, TreeInv, TreeTypeOK, dedupVars, HandedOnce
<1>6. CASE UNCHANGED treeVars
  BY <1>6 DEF treeVars, dedupVars, TreeInv, TreeTypeOK, EpochInv, HandedOnce
<1> QED
  BY <1>1, <1>2, <1>3, <1>4, <1>5, <1>6, ReceiveKeeps, Zenon DEF TreeNext

\* A fresh tree engine satisfies its invariant.
LEMMA TreeInitInv == TreeInit => TreeInv
  BY DEF TreeInit, TreeInv, TreeTypeOK, EpochInv

\* Nothing enters the channel of a subscription twice: receive_message asks the
\* filter of the topic as well, which forgets nothing.
THEOREM EachDeliveredOnce == TreeSpec => []DeliveredOnce
<1>1. TreeInv => DeliveredOnce
  BY Zenon DEF TreeInv, DeliveredOnce, Subscribed, HandedOnce
<1> QED
  BY <1>1, TreeInitInv, TreeStepInv, PTL DEF TreeSpec

\* A message is refused for an epoch after it was handled, whenever the rotation
\* of MessageDedup comes.
THEOREM RememberedForAnEpoch == TreeSpec => []RememberedAnEpoch
<1>1. TreeInv => RememberedAnEpoch
  <2> SUFFICES ASSUME TreeInv, NEW m \in markedAt, tick < m[2] + EpochDuration
               PROVE  IsDuplicate(MaybeRotate, m[1])
    BY Zenon DEF RememberedAnEpoch
  <2>1. m[1] \in current \cup previous /\ (m[1] \in current \/ m[2] <= epochStart)
    BY PlumTreeAssumption DEF TreeInv, EpochInv, TreeTypeOK
  <2>2. m[1] \in current \/ ~EpochOver
    BY <2>1, PlumTreeAssumption, SMTT(30) DEF EpochOver, TreeInv, TreeTypeOK, EpochInv
  <2> QED
    BY <2>1, <2>2, Zenon DEF IsDuplicate, MaybeRotate
<1> QED
  BY <1>1, TreeInitInv, TreeStepInv, PTL DEF TreeSpec

\* A peer is eager or lazy, not both, so that no peer is sent a message and its
\* announcement, and none is sent what it has sent.
THEOREM AlwaysSentOneWay == TreeSpec => []SentOneWay
<1>1. TreeInv => SentOneWay
  BY Zenon DEF TreeInv, SentOneWay, Subscribed, HandedOnce, Forwards
<1> QED
  BY <1>1, TreeInitInv, TreeStepInv, PTL DEF TreeSpec
=============================================================================
