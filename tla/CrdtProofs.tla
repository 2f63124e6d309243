----------------------------- MODULE CrdtProofs -----------------------------
(***************************************************************************)
(* Copies that must agree: the replicated data types, for any number of    *)
(* replicas, operations and deliveries, and the identity in memory with    *)
(* the one in the keystore, for any calls, failed writes and restarts.     *)
(*                                                                         *)
(* Counter. The invariant says of every replica, on the way or not, that   *)
(* its slots are what their owners had counted after the increments it     *)
(* reflects, and of every owner that these values never go down: the       *)
(* larger of two slots is then the later one.                              *)
(*                                                                         *)
(* Set. An actor's own counter bounds every sequence number of that actor  *)
(* anywhere, snapshots included, so the next one is new, and a tag stands  *)
(* for one element.                                                        *)
(*                                                                         *)
(* Register, in either build. A register, in a node or on the way, carries *)
(* the largest timestamp of the writes it reflects, and the hybrid clock   *)
(* of a node is never behind its register unless a tick of that very node  *)
(* has wrapped around: others are not affected by merging from it.         *)
(***************************************************************************)
EXTENDS GCounter, OrSet, LwwRegister, NodeIdentity, TLAPS

-----------------------------------------------------------------------------
(* The counter. *)

\* A replica (its slots and what it reflects) shows what the owners counted.
Shows(c, s) ==
    \A b \in Replicas : s[b] \in 1..Len(past[b]) /\ c[b] = past[b][s[b]]

PastGrows ==
    \A b \in Replicas : \A i, j \in 1..Len(past[b]) : i <= j => past[b][i] <= past[b][j]

\* The owner reflects all its own increments.
OwnerCurrent == \A b \in Replicas : reflected[b][b] = Len(past[b])

CounterInv ==
    /\ CounterTypeOK
    /\ PastGrows
    /\ OwnerCurrent
    /\ \A a \in Replicas : Shows(counts[a], reflected[a])
    /\ \A m \in counterWire : Shows(m.counts, m.reflected)

\* A saturating sum fits and is no smaller than its first argument.
LEMMA SatAddFacts ==
    ASSUME NEW x \in 0..MaxCount, NEW y \in Nat
    PROVE  SatAdd(x, y) \in 0..MaxCount /\ x <= SatAdd(x, y)
BY CounterConstants DEF SatAdd

\* The elements of a sequence have its element type.
LEMMA ElementType ==
    ASSUME NEW S, NEW s \in Seq(S), NEW i \in 1..Len(s)
    PROVE  s[i] \in S
OBVIOUS

\* Nothing is counted at first.
LEMMA CounterInitInv == CounterInit => CounterInv
BY CounterConstants
   DEF CounterInit, CounterInv, CounterTypeOK, PastGrows, OwnerCurrent, Shows, Slots, Versions

\* An increment adds one value, at least as large as the one before it.
LEMMA IncrementInv ==
    ASSUME CounterInv, NEW a \in Replicas, NEW n \in Amounts, Increment(a, n)
    PROVE  CounterInv'
<1> DEFINE c == counts[a][a]
           v == SatAdd(c, n)
           k == Len(past[a])
<1>1. c \in 0..MaxCount /\ v \in 0..MaxCount /\ c <= v
  BY SatAddFacts, CounterConstants, Zenon DEF CounterInv, CounterTypeOK, Slots
<1>2. k \in Nat /\ k >= 1 /\ c = past[a][k] /\ past[a] \in Seq(0..MaxCount)
  BY DEF CounterInv, CounterTypeOK, OwnerCurrent, Shows
<1>3. /\ counts' = [counts EXCEPT ![a][a] = v]
      /\ past' = [past EXCEPT ![a] = Append(@, v)]
      /\ reflected' = [reflected EXCEPT ![a][a] = @ + 1]
      /\ counterWire' = counterWire
  BY Zenon DEF Increment
<1> HIDE DEF v, c
<1>4. CounterTypeOK'
  BY <1>1, <1>3 DEF CounterInv, CounterTypeOK, Slots, Versions
<1>5. /\ Len(past'[a]) = k + 1
      /\ past'[a][k + 1] = v
      /\ \A i \in 1..k : past'[a][i] = past[a][i]
      /\ \A b \in Replicas \ {a} : past'[b] = past[b]
  BY <1>1, <1>2, <1>3 DEF CounterInv, CounterTypeOK
<1>6. PastGrows'
  <2> SUFFICES ASSUME NEW b \in Replicas, NEW i \in 1..Len(past'[b]),
                      NEW j \in 1..Len(past'[b]), i <= j
               PROVE  past'[b][i] <= past'[b][j]
    BY Zenon DEF PastGrows
  <2>1. CASE b # a
    BY <1>5, <2>1, Zenon DEF CounterInv, PastGrows
  <2>2. CASE b = a /\ j <= k
    BY <1>2, <1>5, <2>2 DEF CounterInv, PastGrows
  <2>3. CASE b = a /\ j = k + 1 /\ i <= k
    <3>1. i \in 1..k /\ k \in 1..k
      BY <1>2, <1>5, <2>3
    <3>2. past[a][i] \in 0..MaxCount
      BY <1>2, <3>1, ElementType, Zenon
    <3>3. past[a][i] <= past[a][k]
      BY <3>1, <2>3, Zenon DEF CounterInv, PastGrows
    <3> QED
      BY <1>1, <1>2, <1>5, <2>3, <3>1, <3>2, <3>3
  <2>4. CASE b = a /\ j = k + 1 /\ i = k + 1
    BY <1>1, <1>5, <2>4
  <2> QED
    BY <1>2, <1>5, <2>1, <2>2, <2>3, <2>4
<1>7. OwnerCurrent'
  BY <1>2, <1>3, <1>5, Zenon DEF CounterInv, CounterTypeOK, OwnerCurrent, Versions
<1>8. ASSUME NEW d \in Slots, NEW s \in Versions, Shows(d, s)
      PROVE  Shows(d, s)'
  BY <1>2, <1>5, <1>8 DEF Shows
<1>9. \A m \in counterWire' : Shows(m.counts, m.reflected)'
  BY <1>3, <1>8, Zenon DEF CounterInv, CounterTypeOK
<1>10. ASSUME NEW e \in Replicas
       PROVE  Shows(counts[e], reflected[e])'
  <2>1. CASE e # a
    BY <1>3, <1>8, <2>1, Zenon DEF CounterInv, CounterTypeOK
  <2>2. CASE e = a
    <3>1. ASSUME NEW b \in Replicas, b # a
          PROVE  reflected'[a][b] \in 1..Len(past'[b]) /\ counts'[a][b] = past'[b][reflected'[a][b]]
      BY <1>3, <1>5, <3>1, Zenon DEF CounterInv, CounterTypeOK, Shows, Slots, Versions
    <3>2. reflected'[a][a] = k + 1 /\ counts'[a][a] = v
      BY <1>3, Zenon DEF CounterInv, CounterTypeOK, OwnerCurrent, Slots, Versions
    <3> QED
      BY <1>2, <1>5, <2>2, <3>1, <3>2 DEF Shows
  <2> QED
    BY <2>1, <2>2, Zenon
<1> QED
  BY <1>4, <1>6, <1>7, <1>9, <1>10, Zenon DEF CounterInv

\* A snapshot shows what its replica shows.
LEMMA CounterSendInv ==
    ASSUME CounterInv, NEW a \in Replicas, CounterSend(a)
    PROVE  CounterInv'
BY DEF CounterInv, CounterTypeOK, CounterSend, PastGrows, OwnerCurrent, Shows

\* The larger slot belongs to the later version, because values never go down.
LEMMA CounterMergeInv ==
    ASSUME CounterInv, NEW a \in Replicas, NEW m \in counterWire, CounterMerge(a, m)
    PROVE  CounterInv'
<1> DEFINE c == Merged(counts[a], m.counts)
           s == [b \in Replicas |-> Larger(reflected[a][b], m.reflected[b])]
<1>1. /\ counts' = [counts EXCEPT ![a] = c]
      /\ reflected' = [reflected EXCEPT ![a] = s]
      /\ past' = past /\ counterWire' = counterWire
  BY Zenon DEF CounterMerge, CounterInv, CounterTypeOK
<1>2. c \in Slots /\ s \in Versions
  BY CounterConstants DEF CounterInv, CounterTypeOK, Slots, Versions, Merged, Larger
<1>3. ASSUME NEW b \in Replicas
      PROVE  s[b] \in 1..Len(past[b]) /\ c[b] = past[b][s[b]]
  <2> DEFINE i == reflected[a][b]
             j == m.reflected[b]
  <2>1. /\ i \in 1..Len(past[b]) /\ counts[a][b] = past[b][i]
        /\ j \in 1..Len(past[b]) /\ m.counts[b] = past[b][j]
    BY Zenon DEF CounterInv, Shows
  <2>2. past[b] \in Seq(0..MaxCount)
    BY Zenon DEF CounterInv, CounterTypeOK
  <2>3. (i <= j => past[b][i] <= past[b][j]) /\ (j <= i => past[b][j] <= past[b][i])
    BY <2>1, Zenon DEF CounterInv, PastGrows
  <2>4. past[b][i] \in Nat /\ past[b][j] \in Nat
    <3> HIDE DEF i, j
    <3>1. past[b][i] \in 0..MaxCount
      BY <2>1, <2>2, ElementType, Zenon
    <3>2. past[b][j] \in 0..MaxCount
      BY <2>1, <2>2, ElementType, Zenon
    <3> QED
      BY <3>1, <3>2
  <2>5. /\ s[b] = IF i < j THEN j ELSE i
        /\ c[b] = IF past[b][i] < past[b][j] THEN past[b][j] ELSE past[b][i]
    BY <2>1, Zenon DEF Merged, Larger
  <2>6. i \in Nat /\ j \in Nat
    BY <2>1, <2>2
  <2> HIDE DEF i, j, s, c
  <2> QED
    BY <2>1, <2>3, <2>4, <2>5, <2>6
<1>4. OwnerCurrent'
  <2>1. ASSUME NEW b \in Replicas
        PROVE  reflected'[b][b] = Len(past[b])
    <3>1. m.reflected[b] \in 1..Len(past[b]) /\ reflected[b][b] = Len(past[b]) /\ Len(past[b]) \in Nat
      BY DEF CounterInv, CounterTypeOK, OwnerCurrent, Shows
    <3> QED
      BY <1>1, <3>1 DEF CounterInv, CounterTypeOK, Versions, Larger
  <2> QED
    BY <1>1, <2>1, Zenon DEF OwnerCurrent
<1> HIDE DEF c, s
<1>5. CounterTypeOK' /\ PastGrows'
  BY <1>1, <1>2, Zenon DEF CounterInv, CounterTypeOK, PastGrows
<1>6. \A e \in Replicas : Shows(counts[e], reflected[e])'
  BY <1>1, <1>3 DEF CounterInv, CounterTypeOK, Shows
<1>7. \A e \in counterWire' : Shows(e.counts, e.reflected)'
  BY <1>1, Zenon DEF CounterInv, Shows
<1> QED
  BY <1>4, <1>5, <1>6, <1>7, Zenon DEF CounterInv

\* Every step preserves the invariant.
LEMMA CounterNextInv == CounterInv /\ [CounterNext]_counterVars => CounterInv'
<1> SUFFICES ASSUME CounterInv, [CounterNext]_counterVars PROVE CounterInv'
  BY Zenon
<1>1. CASE UNCHANGED counterVars
  BY <1>1, Zenon DEF counterVars, CounterInv, CounterTypeOK, PastGrows, OwnerCurrent, Shows
<1> QED
  BY <1>1, IncrementInv, CounterSendInv, CounterMergeInv, Zenon DEF CounterNext

\* The invariant of all replicas.
THEOREM CounterInvariance == CounterSpec => []CounterInv
BY CounterInitInv, CounterNextInv, PTL DEF CounterSpec

\* The variables keep their types; a slot never exceeds u64.
THEOREM CountersTyped == CounterSpec => []CounterTypeOK
BY CounterInvariance, PTL DEF CounterInv

\* No increment is counted twice or lost by merging.
THEOREM CountsAreExact == CounterSpec => []NoDoubleCount
<1>1. CounterInv => NoDoubleCount
  BY DEF CounterInv, CounterTypeOK, Shows, NoDoubleCount
<1> QED
  BY <1>1, CounterInvariance, PTL

\* Replicas that reflect the same increments are equal.
THEOREM Convergence == CounterSpec => []SameIncrementsSameCounts
<1>1. CounterInv => SameIncrementsSameCounts
  <2> SUFFICES ASSUME CounterInv, NEW a \in Replicas, NEW b \in Replicas, reflected[a] = reflected[b]
               PROVE  counts[a] = counts[b]
    BY Zenon DEF SameIncrementsSameCounts
  <2>1. counts[a] \in Slots /\ counts[b] \in Slots
    BY Zenon DEF CounterInv, CounterTypeOK
  <2>2. \A e \in Replicas : counts[a][e] = counts[b][e]
    BY DEF CounterInv, Shows
  <2> QED
    BY <2>1, <2>2 DEF Slots
<1> QED
  BY <1>1, CounterInvariance, PTL

\* What a replica shows of an actor never goes down.
THEOREM CountersGrow == CounterSpec => GrowOnly
<1>1. CounterInv /\ [CounterNext]_counterVars => [\A a, b \in Replicas : counts[a][b] <= counts'[a][b]]_counterVars
  <2> SUFFICES ASSUME CounterInv, CounterNext, NEW a \in Replicas, NEW b \in Replicas
               PROVE  counts[a][b] <= counts'[a][b]
    BY Zenon
  <2>0. counts[a][b] \in 0..MaxCount
    BY Zenon DEF CounterInv, CounterTypeOK, Slots
  <2>1. ASSUME NEW e \in Replicas, NEW n \in Amounts, Increment(e, n)
        PROVE  counts[a][b] <= counts'[a][b]
    <3>1. counts[e][e] \in 0..MaxCount /\ n \in Nat
      BY CounterConstants, Zenon DEF CounterInv, CounterTypeOK, Slots
    <3>2. counts[e][e] <= SatAdd(counts[e][e], n)
      BY <3>1, SatAddFacts, Zenon
    <3>3. counts' = [counts EXCEPT ![e][e] = SatAdd(counts[e][e], n)]
      BY <2>1, Zenon DEF Increment
    <3> QED
      BY <2>0, <3>2, <3>3, CounterConstants DEF CounterInv, CounterTypeOK, Slots
  <2>2. ASSUME NEW e \in Replicas, NEW m \in counterWire, CounterMerge(e, m)
        PROVE  counts[a][b] <= counts'[a][b]
    <3>1. counts \in [Replicas -> Slots] /\ m.counts \in Slots
      BY Zenon DEF CounterInv, CounterTypeOK
    <3>2. counts' = [counts EXCEPT ![e] = Merged(counts[e], m.counts)]
      BY <2>2, Zenon DEF CounterMerge
    <3>3. counts[e][b] <= Merged(counts[e], m.counts)[b]
      BY <3>1, CounterConstants DEF Slots, Merged, Larger
    <3> QED
      BY <2>0, <3>1, <3>2, <3>3, CounterConstants
  <2>3. ASSUME NEW e \in Replicas, CounterSend(e)
        PROVE  counts[a][b] <= counts'[a][b]
    BY <2>0, <2>3, CounterConstants DEF CounterSend
  <2> QED
    BY <2>1, <2>2, <2>3, Zenon DEF CounterNext
<1> QED
  BY <1>1, CounterInvariance, PTL DEF CounterSpec, GrowOnly

-----------------------------------------------------------------------------
(* The set. *)

\* No tag or counter of a replica is ahead of the actor it comes from.
Behind(e, c, d) ==
    /\ \A b \in Replicas : c[b] <= counters[b][b]
    /\ \A t \in d : t[2] <= counters[t[1]][t[1]]
    /\ \A v \in Elements : e[v] \subseteq d

\* Two replicas agree on what a tag stands for.
Agree(e, f) == \A v, w \in Elements : v # w => e[v] \cap f[w] = {}

\* An add that is not known to be removed is there.
Kept(e, d, r) == \A t \in d \ r : \E v \in Elements : t \in e[v]

SetInv ==
    /\ SetTypeOK
    /\ \A a \in Replicas : Behind(entries[a], counters[a], added[a])
    /\ \A m \in setWire : Behind(m.entries, m.counters, m.added)
    /\ \A a, b \in Replicas : Agree(entries[a], entries[b])
    /\ \A a \in Replicas, m \in setWire : Agree(entries[a], m.entries)
    /\ \A m, n \in setWire : Agree(m.entries, n.entries)
    /\ \A a \in Replicas : Kept(entries[a], added[a], removed[a])
    /\ \A m \in setWire : Kept(m.entries, m.added, m.removed)

\* All replicas start empty.
LEMMA SetInitInv == SetInit => SetInv
BY DEF SetInit, SetInv, SetTypeOK, Behind, Agree, Kept

\* The new tag is ahead of everything known, so it meets no other value.
LEMMA AddInv ==
    ASSUME SetInv, NEW a \in Replicas, NEW v \in Elements, Add(a, v)
    PROVE  SetInv'
<1> DEFINE k == counters[a][a] + 1
           tag == <<a, k>>
<1>1. k \in Nat /\ tag \in Tag /\ k = counters[a][a] + 1 /\ counters[a][a] \in Nat
  BY DEF SetInv, SetTypeOK, Tag
<1>2. /\ counters' = [counters EXCEPT ![a][a] = k]
      /\ entries' = [entries EXCEPT ![a][v] = @ \cup {tag}]
      /\ added' = [added EXCEPT ![a] = @ \cup {tag}]
      /\ removed' = removed /\ setWire' = setWire
  BY Zenon DEF Add
<1>3. tag[1] = a /\ tag[2] = k
  BY Zenon
<1> HIDE DEF k, tag
<1>4. SetTypeOK'
  BY <1>1, <1>2, Zenon DEF SetInv, SetTypeOK
<1>5. \A b \in Replicas : counters[b][b] \in Nat /\ counters'[b][b] \in Nat
                        /\ counters[b][b] <= counters'[b][b]
  BY <1>1, <1>2 DEF SetInv, SetTypeOK
<1>6. ASSUME NEW e, NEW c \in [Replicas -> Nat], NEW d \in SUBSET Tag, Behind(e, c, d)
      PROVE  Behind(e, c, d)' /\ tag \notin d /\ \A w \in Elements : tag \notin e[w]
  <2>1. \A t \in d : t[1] \in Replicas /\ t[2] \in Nat
    BY Zenon DEF Tag
  <2>2. Behind(e, c, d)'
    BY <1>5, <1>6, <2>1 DEF Behind
  <2>3. tag \notin d
    BY <1>1, <1>3, <1>6 DEF Behind
  <2> QED
    BY <1>6, <2>2, <2>3, Zenon DEF Behind
<1>7. \A m \in setWire' : Behind(m.entries, m.counters, m.added)'
  BY <1>2, <1>6, Zenon DEF SetInv, SetTypeOK, SetSnapshot
<1>8. \A b \in Replicas : Behind(entries[b], counters[b], added[b])'
  <2> SUFFICES ASSUME NEW b \in Replicas PROVE Behind(entries[b], counters[b], added[b])'
    BY Zenon
  <2>1. /\ \A x \in Replicas : counters[b][x] \in Nat /\ counters[b][x] <= counters[x][x]
        /\ \A t \in added[b] : /\ t[1] \in Replicas /\ t[2] \in Nat
                               /\ t[2] <= counters[t[1]][t[1]]
        /\ \A w \in Elements : entries[b][w] \subseteq added[b]
    BY DEF SetInv, SetTypeOK, Behind, Tag
  <2>4. /\ \A x \in Replicas : counters[b][x] <= counters'[x][x]
        /\ \A t \in added[b] : t[2] <= counters'[t[1]][t[1]]
    BY <1>5, <2>1
  <2>2. CASE b # a
    <3>1. entries'[b] = entries[b] /\ counters'[b] = counters[b] /\ added'[b] = added[b]
      BY <1>2, <2>2, Zenon DEF SetInv, SetTypeOK
    <3> QED
      BY <2>1, <2>4, <3>1, Zenon DEF Behind
  <2>3. CASE b = a
    <3>2. \A x \in Replicas : counters'[a][x] <= counters'[x][x]
      BY <1>1, <1>2, <1>5, <2>3, <2>4 DEF SetInv, SetTypeOK
    <3>3. \A t \in added'[a] : t[2] <= counters'[t[1]][t[1]]
      BY <1>1, <1>2, <1>3, <2>3, <2>4 DEF SetInv, SetTypeOK
    <3>4. \A w \in Elements : entries'[a][w] \subseteq added'[a]
      BY <1>2, <2>1, <2>3, Zenon DEF SetInv, SetTypeOK
    <3> QED
      BY <2>3, <3>2, <3>3, <3>4, Zenon DEF Behind
  <2> QED
    BY <2>2, <2>3, Zenon
<1>9. ASSUME NEW b \in Replicas, NEW w \in Elements
      PROVE  /\ tag \notin entries[b][w]
             /\ entries'[b][w] \subseteq entries[b][w] \cup {tag}
             /\ tag \in entries'[b][w] => w = v
  BY <1>2, <1>6, Zenon DEF SetInv, SetTypeOK
<1>10. \A b, c \in Replicas : Agree(entries[b], entries[c])'
  BY <1>9 DEF SetInv, Agree
<1>11. \A b \in Replicas, m \in setWire' : Agree(entries[b], m.entries)'
  <2> SUFFICES ASSUME NEW b \in Replicas, NEW m \in setWire PROVE Agree(entries[b], m.entries)'
    BY <1>2, Zenon
  <2>1. \A w \in Elements : tag \notin m.entries[w]
    BY <1>6, Zenon DEF SetInv, SetTypeOK, SetSnapshot
  <2> QED
    BY <1>9, <2>1 DEF SetInv, Agree
<1>12. \A b \in Replicas : Kept(entries[b], added[b], removed[b])'
  BY <1>2 DEF SetInv, SetTypeOK, Kept
<1> QED
  BY <1>2, <1>4, <1>7, <1>8, <1>10, <1>11, <1>12, Zenon DEF SetInv, Agree, Kept

\* What goes from the element goes to the known removals.
LEMMA RemoveInv ==
    ASSUME SetInv, NEW a \in Replicas, NEW v \in Elements, Remove(a, v)
    PROVE  SetInv'
<1>1. \A b \in Replicas, w \in Elements : entries'[b][w] \subseteq entries[b][w]
  BY Zenon DEF Remove, SetInv, SetTypeOK
<1>2. SetTypeOK'
  BY DEF Remove, SetInv, SetTypeOK
<1>3. \A b \in Replicas : Kept(entries[b], added[b], removed[b])'
  BY DEF Remove, SetInv, SetTypeOK, Kept
<1>4. \A b \in Replicas : Behind(entries[b], counters[b], added[b])'
  BY <1>1, Zenon DEF Remove, SetInv, Behind
<1>5. \A m \in setWire' : Behind(m.entries, m.counters, m.added)'
  BY Zenon DEF Remove, SetInv, Behind
<1>6. /\ \A b, c \in Replicas : Agree(entries[b], entries[c])'
      /\ \A b \in Replicas, m \in setWire' : Agree(entries[b], m.entries)'
  BY <1>1 DEF Remove, SetInv, Agree
<1> QED
  BY <1>2, <1>3, <1>4, <1>5, <1>6, Zenon DEF SetInv, Remove, Agree, Kept

\* A snapshot has what its replica has.
LEMMA SetSendInv ==
    ASSUME SetInv, NEW a \in Replicas, SetSend(a)
    PROVE  SetInv'
<1> DEFINE s == [entries |-> entries[a], counters |-> counters[a],
                 added |-> added[a], removed |-> removed[a]]
<1>1. setWire' = setWire \cup {s} /\ UNCHANGED <<entries, counters, added, removed>>
  BY Zenon DEF SetSend
<1>2. s \in SetSnapshot
  BY Zenon DEF SetInv, SetTypeOK, SetSnapshot
<1>3. SetTypeOK'
  BY <1>1, <1>2, Zenon DEF SetInv, SetTypeOK
<1>4. \A m \in setWire' : Behind(m.entries, m.counters, m.added)'
  BY <1>1 DEF SetInv, Behind
<1>5. \A m \in setWire' : Kept(m.entries, m.added, m.removed)'
  BY <1>1 DEF SetInv, Kept
<1>6. /\ \A b \in Replicas, m \in setWire' : Agree(entries[b], m.entries)'
      /\ \A m, n \in setWire' : Agree(m.entries, n.entries)'
  BY <1>1 DEF SetInv, Agree
<1> QED
  BY <1>1, <1>3, <1>4, <1>5, <1>6 DEF SetInv, Behind, Agree, Kept

\* A union brings no tag that was not bound already.
LEMMA SetMergeInv ==
    ASSUME SetInv, NEW a \in Replicas, NEW m \in setWire, SetMerge(a, m)
    PROVE  SetInv'
<1> DEFINE e == MergedEntries(entries[a], m.entries)
           c == MergedCounters(counters[a], m.counters)
<1>1. /\ entries' = [entries EXCEPT ![a] = e]
      /\ counters' = [counters EXCEPT ![a] = c]
      /\ added' = [added EXCEPT ![a] = @ \cup m.added]
      /\ removed' = [removed EXCEPT ![a] = @ \cup m.removed]
      /\ setWire' = setWire
  BY Zenon DEF SetMerge, SetInv, SetTypeOK
<1>2. m \in SetSnapshot
  BY Zenon DEF SetInv, SetTypeOK
<1>3. e \in [Elements -> SUBSET Tag] /\ \A v \in Elements : e[v] = entries[a][v] \cup m.entries[v]
  BY <1>2 DEF SetInv, SetTypeOK, SetSnapshot, MergedEntries
<1>4. /\ c \in [Replicas -> Nat]
      /\ \A b \in Replicas : c[b] <= counters[b][b]
      /\ c[a] = counters[a][a]
  BY <1>2 DEF SetInv, SetTypeOK, SetSnapshot, MergedCounters, Behind
<1> HIDE DEF e, c
<1>5. SetTypeOK'
  BY <1>1, <1>2, <1>3, <1>4, Zenon DEF SetInv, SetTypeOK, SetSnapshot
<1>6. \A b \in Replicas : counters'[b][b] = counters[b][b]
  BY <1>1, <1>4, Zenon DEF SetInv, SetTypeOK
<1>7. \A n \in setWire' : Behind(n.entries, n.counters, n.added)'
  <2> SUFFICES ASSUME NEW n \in setWire PROVE Behind(n.entries, n.counters, n.added)'
    BY <1>1, Zenon
  <2>1. Behind(n.entries, n.counters, n.added) /\ n.added \subseteq Tag
    BY Zenon DEF SetInv, SetTypeOK, SetSnapshot
  <2> QED
    BY <1>6, <2>1, Zenon DEF Behind, Tag
<1>8. \A b \in Replicas : Behind(entries[b], counters[b], added[b])'
  <2> SUFFICES ASSUME NEW b \in Replicas PROVE Behind(entries[b], counters[b], added[b])'
    BY Zenon
  <2>1. Behind(entries[b], counters[b], added[b]) /\ added[b] \subseteq Tag
    BY Zenon DEF SetInv, SetTypeOK
  <2>2. Behind(m.entries, m.counters, m.added) /\ m.added \subseteq Tag
    BY <1>2, Zenon DEF SetInv, SetSnapshot
  <2>3. CASE b # a
    <3>1. entries'[b] = entries[b] /\ counters'[b] = counters[b] /\ added'[b] = added[b]
      BY <1>1, <2>3, Zenon DEF SetInv, SetTypeOK
    <3> QED
      BY <1>6, <2>1, <3>1 DEF Behind, Tag
  <2>4. CASE b = a
    <3>1. entries'[a] = e /\ counters'[a] = c /\ added'[a] = added[a] \cup m.added
      BY <1>1, Zenon DEF SetInv, SetTypeOK
    <3> QED
      BY <1>3, <1>4, <1>6, <2>1, <2>2, <2>4, <3>1 DEF Behind, Tag
  <2> QED
    BY <2>3, <2>4, Zenon
<1>9. ASSUME NEW b \in Replicas, NEW v \in Elements
      PROVE  entries'[b][v] \subseteq entries[b][v] \cup m.entries[v]
  BY <1>1, <1>3, Zenon DEF SetInv, SetTypeOK
<1>10. /\ \A b, d \in Replicas : Agree(entries[b], entries[d])
       /\ \A b \in Replicas : Agree(entries[b], m.entries)
       /\ \A b \in Replicas, n \in setWire : Agree(entries[b], n.entries)
       /\ \A n \in setWire : Agree(m.entries, n.entries)
  BY Zenon DEF SetInv
<1>11. \A b, d \in Replicas : Agree(entries[b], entries[d])'
  <2> SUFFICES ASSUME NEW b \in Replicas, NEW d \in Replicas, NEW v \in Elements, NEW w \in Elements,
                      v # w, NEW t \in entries'[b][v], t \in entries'[d][w]
               PROVE  FALSE
    BY Zenon DEF Agree
  <2>1. (t \in entries[b][v] \/ t \in m.entries[v]) /\ (t \in entries[d][w] \/ t \in m.entries[w])
    BY <1>9, Zenon
  <2>2. Agree(m.entries, m.entries)
    BY <1>10, Zenon
  <2> QED
    BY <1>10, <2>1, <2>2, Zenon DEF Agree
<1>12. \A b \in Replicas, n \in setWire' : Agree(entries[b], n.entries)'
  BY <1>1, <1>9, <1>10 DEF Agree
<1>13. \A b \in Replicas : Kept(entries[b], added[b], removed[b])'
  <2> SUFFICES ASSUME NEW b \in Replicas, NEW t \in added'[b] \ removed'[b]
               PROVE  \E v \in Elements : t \in entries'[b][v]
    BY Zenon DEF Kept
  <2>1. CASE b # a
    BY <1>1, <2>1, Zenon DEF SetInv, SetTypeOK, Kept
  <2>2. CASE b = a
    <3>1. /\ entries'[a] = e
          /\ t \in added[a] \ removed[a] \/ t \in m.added \ m.removed
      BY <1>1, <2>2, Zenon DEF SetInv, SetTypeOK
    <3>2. Kept(entries[a], added[a], removed[a]) /\ Kept(m.entries, m.added, m.removed)
      BY Zenon DEF SetInv
    <3> QED
      BY <1>3, <2>2, <3>1, <3>2, Zenon DEF Kept
  <2> QED
    BY <2>1, <2>2, Zenon
<1> QED
  BY <1>1, <1>5, <1>7, <1>8, <1>11, <1>12, <1>13, Zenon DEF SetInv, Agree, Kept

\* Every step preserves the invariant.
LEMMA SetNextInv == SetInv /\ [SetNext]_setVars => SetInv'
<1> SUFFICES ASSUME SetInv, [SetNext]_setVars PROVE SetInv'
  BY Zenon
<1>1. CASE UNCHANGED setVars
  BY <1>1 DEF setVars, SetInv, SetTypeOK, Behind, Agree, Kept
<1> QED
  BY <1>1, AddInv, RemoveInv, SetSendInv, SetMergeInv, Zenon DEF SetNext

\* The invariant of all replicas and snapshots.
THEOREM SetInvariance == SetSpec => []SetInv
BY SetInitInv, SetNextInv, PTL DEF SetSpec

\* No tag ever stands for two elements.
THEOREM TagsAreUnique == SetSpec => []TagsUnique
<1>1. SetInv => TagsUnique
  BY Zenon DEF SetInv, Agree, TagsUnique
<1> QED
  BY <1>1, SetInvariance, PTL

\* An element whose add is known and not known to be removed is present.
THEOREM AddsWin == SetSpec => []AddWins
<1>1. SetInv => AddWins
  BY Zenon DEF SetInv, Kept, AddWins
<1> QED
  BY <1>1, SetInvariance, PTL

-----------------------------------------------------------------------------
(* The register and its clock. *)

\* ts is the largest timestamp of the writes in S.
Top(ts, S) ==
    /\ \A w \in S : AtMost(w.timestamp, ts)
    /\ ts = Zero \/ \E w \in S : w.timestamp = ts

RegInv ==
    /\ RegTypeOK
    /\ \A n \in Replicas : Top(reg[n].timestamp, seenWrites[n])
    /\ \A m \in regWire : Top(m.register.timestamp, m.seenWrites)
    /\ \A n \in Replicas \ wrapped : AtMost(reg[n].timestamp, latest[n])
    /\ LaterWriteWins

\* Timestamps are linearly ordered.
LEMMA Order ==
    ASSUME NEW r \in Timestamp, NEW s \in Timestamp, NEW t \in Timestamp
    PROVE  /\ ~Less(r, r)
           /\ Less(r, s) \/ r = s \/ Less(s, r)
           /\ AtMost(r, s) /\ AtMost(s, t) => AtMost(r, t)
           /\ AtMost(r, s) /\ Less(s, t) => Less(r, t)
           /\ AtMost(r, s) /\ AtMost(s, r) => r = s
           /\ AtMost(Zero, r)
<1>1. /\ r = <<r[1], r[2]>> /\ r[1] \in Nat /\ r[2] \in Nat
      /\ s = <<s[1], s[2]>> /\ s[1] \in Nat /\ s[2] \in Nat
      /\ t = <<t[1], t[2]>> /\ t[1] \in Nat /\ t[2] \in Nat
  BY RegConstants DEF Timestamp
<1> QED
  BY <1>1 DEF Less, AtMost, Zero

\* A tick is strictly later than the clock, unless it wraps around.
LEMMA TickLater ==
    ASSUME NEW n \in Replicas, latest[n] \in Timestamp, wall[n] \in Nat
    PROVE  /\ Ticked(n) \in Timestamp
           /\ TickOverflows(n) \/ Less(latest[n], Ticked(n))
<1>1. latest[n][1] \in Nat /\ latest[n][2] \in 0..MaxCounter
  BY Zenon DEF Timestamp
<1>2. CASE wall[n] > latest[n][1]
  BY <1>1, <1>2, RegConstants DEF Ticked, Less, Timestamp
<1>3. CASE ~(wall[n] > latest[n][1]) /\ latest[n][2] = MaxCounter
  <2>1. Ticked(n) = <<latest[n][1], 0>>
    BY <1>3, Zenon DEF Ticked, Wrapping
  <2> QED
    BY <1>1, <1>3, <2>1, RegConstants DEF TickOverflows, Timestamp
<1>4. CASE ~(wall[n] > latest[n][1]) /\ latest[n][2] # MaxCounter
  <2>1. Ticked(n) = <<latest[n][1], latest[n][2] + 1>>
    BY <1>4, Zenon DEF Ticked, Wrapping
  <2> QED
    BY <1>1, <1>4, <2>1, RegConstants DEF Less, Timestamp
<1> QED
  BY <1>2, <1>3, <1>4, Zenon

\* update is strictly later than both its arguments, overflow included.
LEMMA UpdateLater ==
    ASSUME NEW n \in Replicas, latest[n] \in Timestamp, wall[n] \in Nat, NEW t \in Timestamp
    PROVE  /\ Update(n, t) \in Timestamp
           /\ Less(latest[n], Update(n, t)) /\ Less(t, Update(n, t))
<1> DEFINE s == latest[n]
           w == Larger(Larger(wall[n], s[1]), t[1])
           c == NextCounter(s, t, w)
<1>1. s[1] \in Nat /\ s[2] \in 0..MaxCounter /\ t[1] \in Nat /\ t[2] \in 0..MaxCounter
  BY Zenon DEF Timestamp
<1>2. w \in Nat /\ w >= s[1] /\ w >= t[1]
  BY <1>1 DEF Larger
<1>3. c \in Nat /\ (w = s[1] => c > s[2]) /\ (w = t[1] => c > t[2])
  <2> HIDE DEF w
  <2> QED
    BY <1>1, <1>2, RegConstants DEF NextCounter, Larger
<1>4. Update(n, t) = IF c > MaxCounter THEN <<w + 1, 0>> ELSE <<w, c>>
  BY Zenon DEF Update
<1> HIDE DEF s, w, c
<1>5. CASE c > MaxCounter
  BY <1>1, <1>2, <1>4, <1>5, RegConstants DEF Less, Timestamp, s
<1>6. CASE ~(c > MaxCounter)
  <2>1. Update(n, t) = <<w, c>> /\ c \in 0..MaxCounter
    BY <1>3, <1>4, <1>6, RegConstants
  <2> QED
    BY <1>1, <1>2, <1>3, <2>1 DEF Less, Timestamp, s
<1> QED
  BY <1>5, <1>6, Zenon

\* Nothing is written at first.
LEMMA RegInitInv == RegInit => RegInv
BY RegConstants
   DEF RegInit, RegInv, RegTypeOK, Top, Timestamp, LwwValue, Zero, AtMost, LaterWriteWins

\* A local write is later than everything its node knows, or its tick wrapped
\* around; the register keeps the larger timestamp in both cases.
LEMMA LocalWriteInv ==
    ASSUME RegInv, NEW n \in Replicas, NEW v \in Values, LocalWrite(n, v)
    PROVE  RegInv'
<1> DEFINE ts == Ticked(n)
           w == [node |-> n, timestamp |-> ts]
           r == IF Less(reg[n].timestamp, ts) THEN [value |-> v, timestamp |-> ts] ELSE reg[n]
<1>0. RegTypeOK /\ latest[n] \in Timestamp /\ reg[n] \in LwwValue /\ reg[n].timestamp \in Timestamp
  BY Zenon DEF RegInv, RegTypeOK, LwwValue
<1>1. ts \in Timestamp /\ (TickOverflows(n) \/ Less(latest[n], ts))
  BY <1>0, TickLater, Zenon DEF RegTypeOK
<1>2. /\ latest' = [latest EXCEPT ![n] = ts]
      /\ reg' = [reg EXCEPT ![n] = r]
      /\ seenWrites' = [seenWrites EXCEPT ![n] = @ \cup {w}]
      /\ deps' = deps \cup {<<d, w>> : d \in seenWrites[n]}
      /\ wall' = wall /\ regWire' = regWire
      /\ wrapped' \subseteq Replicas /\ wrapped \subseteq wrapped'
      /\ n \in wrapped' \/ ~TickOverflows(n)
  BY <1>0, Zenon DEF LocalWrite, RegTypeOK
<1>3. n \in wrapped' \/ (Less(latest[n], ts) /\ Less(reg[n].timestamp, ts))
  BY <1>0, <1>1, <1>2, Order, Zenon DEF RegInv
<1>4. w \in Write /\ w.timestamp = ts /\ w.node = n
  BY <1>1, Zenon DEF Write
<1>5. /\ r \in LwwValue /\ r.timestamp \in Timestamp
      /\ AtMost(reg[n].timestamp, r.timestamp) /\ AtMost(ts, r.timestamp)
      /\ r.timestamp = ts \/ (r = reg[n] /\ ~Less(reg[n].timestamp, ts))
  <2>1. CASE Less(reg[n].timestamp, ts)
    <3>1. r = [value |-> v, timestamp |-> ts]
      BY <2>1, Zenon
    <3> QED
      BY <1>1, <2>1, <3>1, Zenon DEF LwwValue, AtMost
  <2>2. CASE ~Less(reg[n].timestamp, ts)
    BY <1>0, <1>1, <2>2, Order, Zenon DEF AtMost
  <2> QED
    BY <2>1, <2>2, Zenon
<1> HIDE DEF ts, w, r
<1>6. RegTypeOK'
  BY <1>0, <1>1, <1>2, <1>4, <1>5 DEF RegTypeOK
<1>7. \A d \in seenWrites[n] : d.timestamp \in Timestamp /\ AtMost(d.timestamp, reg[n].timestamp)
  BY <1>0 DEF RegInv, RegTypeOK, Write, Top
<1>8. LaterWriteWins'
  <2> SUFFICES ASSUME NEW e \in deps', e[2].node \notin wrapped'
               PROVE  Less(e[1].timestamp, e[2].timestamp)
    BY Zenon DEF LaterWriteWins
  <2>1. CASE e \in deps
    BY <1>2, <2>1, Zenon DEF RegInv, LaterWriteWins
  <2>2. CASE e \notin deps
    <3>1. PICK d \in seenWrites[n] : e = <<d, w>>
      BY <1>2, <2>2, Zenon
    <3>2. Less(reg[n].timestamp, ts)
      BY <1>3, <1>4, <3>1
    <3>3. Less(d.timestamp, ts)
      BY <1>0, <1>1, <1>7, <3>2, Order, Zenon
    <3> QED
      BY <1>4, <3>1, <3>3
  <2> QED
    BY <2>1, <2>2, Zenon
<1>9. \A x \in Replicas : Top(reg[x].timestamp, seenWrites[x])'
  <2> SUFFICES ASSUME NEW x \in Replicas PROVE Top(reg'[x].timestamp, seenWrites'[x])
    BY Zenon DEF Top
  <2>1. CASE x # n
    BY <1>0, <1>2, <2>1, Zenon DEF RegInv, RegTypeOK
  <2>2. CASE x = n
    <3>1. reg'[x].timestamp = r.timestamp /\ seenWrites'[x] = seenWrites[n] \cup {w}
      BY <1>0, <1>2, <2>2, Zenon DEF RegTypeOK
    <3>2. ASSUME NEW d \in seenWrites[n] \cup {w}
          PROVE  AtMost(d.timestamp, r.timestamp)
      BY <1>0, <1>4, <1>5, <1>7, <3>2, Order, Zenon
    <3>3. r.timestamp = Zero \/ \E d \in seenWrites[n] \cup {w} : d.timestamp = r.timestamp
      BY <1>4, <1>5, Zenon DEF RegInv, Top
    <3> QED
      BY <3>1, <3>2, <3>3, Zenon DEF Top
  <2> QED
    BY <2>1, <2>2, Zenon
<1>10. \A x \in Replicas \ wrapped' : AtMost(reg'[x].timestamp, latest'[x])
  <2> SUFFICES ASSUME NEW x \in Replicas \ wrapped' PROVE AtMost(reg'[x].timestamp, latest'[x])
    BY Zenon
  <2>1. CASE x # n
    BY <1>0, <1>2, <2>1, Zenon DEF RegInv, RegTypeOK
  <2>2. CASE x = n
    <3>1. r.timestamp = ts
      BY <1>3, <1>5, <2>2, Zenon
    <3> QED
      BY <1>0, <1>2, <2>2, <3>1, Zenon DEF RegTypeOK, AtMost
  <2> QED
    BY <2>1, <2>2, Zenon
<1>11. \A m \in regWire' : Top(m.register.timestamp, m.seenWrites)
  BY <1>2, Zenon DEF RegInv
<1> QED
  BY <1>6, <1>8, <1>9, <1>10, <1>11, Zenon DEF RegInv, Top, AtMost

\* The snapshot is the register with what it reflects.
LEMMA RegSendInv ==
    ASSUME RegInv, NEW n \in Replicas, RegSend(n)
    PROVE  RegInv'
<1> DEFINE s == [register |-> reg[n], seenWrites |-> seenWrites[n]]
<1>1. regWire' = regWire \cup {s} /\ UNCHANGED <<wall, latest, reg, seenWrites, deps, wrapped>>
  BY Zenon DEF RegSend
<1>2. s \in [register : LwwValue, seenWrites : SUBSET Write]
  BY Zenon DEF RegInv, RegTypeOK
<1>3. Top(s.register.timestamp, s.seenWrites)
  BY Zenon DEF RegInv
<1> HIDE DEF s
<1>4. RegTypeOK'
  BY <1>1, <1>2, Zenon DEF RegInv, RegTypeOK
<1>5. \A m \in regWire' : Top(m.register.timestamp, m.seenWrites)
  BY <1>1, <1>3, Zenon DEF RegInv
<1> QED
  BY <1>1, <1>4, <1>5, Zenon DEF RegInv, Top, AtMost, LaterWriteWins

\* The larger of two tops is the top of the union.
LEMMA RegReceiveInv ==
    ASSUME RegInv, NEW n \in Replicas, NEW m \in regWire, RegReceive(n, m)
    PROVE  RegInv'
<1> DEFINE t == m.register.timestamp
           u == Update(n, t)
           r == IF Wins(reg[n], m.register) THEN m.register ELSE reg[n]
           S == seenWrites[n] \cup m.seenWrites
<1>0. /\ RegTypeOK /\ latest[n] \in Timestamp /\ wall[n] \in Nat
      /\ reg[n] \in LwwValue /\ reg[n].timestamp \in Timestamp
      /\ m.register \in LwwValue /\ t \in Timestamp /\ m.seenWrites \subseteq Write
  BY Zenon DEF RegInv, RegTypeOK, LwwValue
<1>1. u \in Timestamp /\ Less(latest[n], u) /\ Less(t, u)
  BY <1>0, UpdateLater, Zenon
<1>2. /\ latest' = [latest EXCEPT ![n] = u]
      /\ reg' = [reg EXCEPT ![n] = r]
      /\ seenWrites' = [seenWrites EXCEPT ![n] = S]
      /\ wall' = wall /\ regWire' = regWire /\ deps' = deps /\ wrapped' = wrapped
  BY <1>0, Zenon DEF RegReceive, RegTypeOK
<1>3. /\ r \in LwwValue /\ r.timestamp \in Timestamp
      /\ AtMost(reg[n].timestamp, r.timestamp) /\ AtMost(t, r.timestamp)
      /\ r.timestamp = t \/ r.timestamp = reg[n].timestamp
  BY <1>0, Order, Zenon DEF Wins, AtMost
<1>4. n \in wrapped \/ AtMost(r.timestamp, u)
  <2>1. n \in wrapped \/ AtMost(reg[n].timestamp, latest[n])
    BY Zenon DEF RegInv
  <2> QED
    BY <1>0, <1>1, <1>3, <2>1, Order, Zenon DEF AtMost
<1>5. Top(r.timestamp, S)
  <2>1. Top(reg[n].timestamp, seenWrites[n]) /\ Top(t, m.seenWrites)
    BY Zenon DEF RegInv
  <2>2. ASSUME NEW w \in S
        PROVE  AtMost(w.timestamp, r.timestamp)
    <3>1. w.timestamp \in Timestamp
      BY <1>0 DEF RegTypeOK, Write
    <3>2. AtMost(w.timestamp, reg[n].timestamp) \/ AtMost(w.timestamp, t)
      BY <2>1, Zenon DEF Top
    <3> QED
      BY <1>0, <1>3, <3>1, <3>2, Order
  <2> QED
    BY <1>3, <2>1, <2>2, Zenon DEF Top
<1> HIDE DEF t, u, r, S
<1>6. RegTypeOK'
  <2>1. S \subseteq Write
    BY <1>0, Zenon DEF S, RegTypeOK
  <2> QED
    BY <1>0, <1>1, <1>2, <1>3, <2>1, Zenon DEF RegTypeOK
<1>7. \A x \in Replicas : Top(reg'[x].timestamp, seenWrites'[x])
  BY <1>0, <1>2, <1>5, Zenon DEF RegInv, RegTypeOK
<1>8. \A x \in Replicas \ wrapped' : AtMost(reg'[x].timestamp, latest'[x])
  BY <1>0, <1>2, <1>4, Zenon DEF RegInv, RegTypeOK
<1>9. \A x \in regWire' : Top(x.register.timestamp, x.seenWrites)
  BY <1>2, Zenon DEF RegInv
<1> QED
  BY <1>2, <1>6, <1>7, <1>8, <1>9, Zenon DEF RegInv, Top, AtMost, LaterWriteWins

\* Every step preserves the invariant.
LEMMA RegNextInv == RegInv /\ [RegNext]_regVars => RegInv'
<1> SUFFICES ASSUME RegInv, [RegNext]_regVars PROVE RegInv'
  BY Zenon
<1>1. CASE UNCHANGED regVars
  BY <1>1, Zenon DEF regVars, RegInv, RegTypeOK, Top, AtMost, LaterWriteWins
<1>2. ASSUME NEW n \in Replicas, PhysicalTick(n)
      PROVE  RegInv'
  BY <1>2 DEF PhysicalTick, RegInv, RegTypeOK, Top, AtMost, LaterWriteWins
<1> QED
  BY <1>1, <1>2, LocalWriteInv, RegSendInv, RegReceiveInv, Zenon DEF RegNext

\* The invariant of registers and clocks.
THEOREM RegInvariance == RegSpec => []RegInv
BY RegNextInv, RegInitInv, PTL DEF RegSpec

\* The order of timestamps respects causality between writes: whoever's tick has
\* not wrapped around writes later than all it has merged, from nodes included
\* where one has.
THEOREM CausalOrder == RegSpec => []LaterWriteWins
<1>1. RegInv => LaterWriteWins
  BY Zenon DEF RegInv
<1> QED
  BY <1>1, RegInvariance, PTL

\* Registers that reflect the same writes carry the same timestamp, whether or not
\* a tick has wrapped around.
THEOREM TimestampsConverge == RegSpec => []SameWritesSameTimestamp
<1>1. RegInv => SameWritesSameTimestamp
  <2> SUFFICES ASSUME RegInv, NEW a \in Replicas, NEW b \in Replicas, seenWrites[a] = seenWrites[b]
               PROVE  reg[a].timestamp = reg[b].timestamp
    BY Zenon DEF SameWritesSameTimestamp
  <2> DEFINE s == reg[a].timestamp
             t == reg[b].timestamp
  <2>1. s \in Timestamp /\ t \in Timestamp
    BY Zenon DEF RegInv, RegTypeOK, LwwValue
  <2>2. Top(s, seenWrites[a]) /\ Top(t, seenWrites[a])
    BY Zenon DEF RegInv
  <2> HIDE DEF s, t
  <2>3. AtMost(s, t) /\ AtMost(t, s)
    BY <2>1, <2>2, Order DEF Top
  <2> QED
    BY <2>1, <2>3, Order, Zenon DEF s, t
<1> QED
  BY <1>1, RegInvariance, PTL

\* No hybrid clock goes back but by a tick of its own that wraps around.
THEOREM ClocksAdvance == RegSpec => ClockAdvances
<1>1. RegInv /\ [RegNext]_regVars =>
        [\A n \in Replicas : n \notin wrapped' => AtMost(latest[n], latest'[n])]_regVars
  <2> SUFFICES ASSUME RegInv, RegNext, NEW n \in Replicas, n \notin wrapped'
               PROVE  AtMost(latest[n], latest'[n])
    BY Zenon
  <2>0. /\ latest[n] \in Timestamp /\ wall[n] \in Nat /\ latest \in [Replicas -> Timestamp]
        /\ \A m \in regWire : m.register.timestamp \in Timestamp
        /\ wall \in [Replicas -> Nat]
    BY Zenon DEF RegInv, RegTypeOK, LwwValue
  <2>1. ASSUME NEW x \in Replicas, NEW v \in Values, LocalWrite(x, v)
        PROVE  AtMost(latest[n], latest'[n])
    <3>1. x = n => Less(latest[x], Ticked(x))
      BY <2>0, <2>1, TickLater, Zenon DEF LocalWrite
    <3>2. latest' = [latest EXCEPT ![x] = Ticked(x)]
      BY <2>1, Zenon DEF LocalWrite
    <3> QED
      BY <2>0, <3>1, <3>2, Zenon DEF AtMost
  <2>2. ASSUME NEW x \in Replicas, NEW m \in regWire, RegReceive(x, m)
        PROVE  AtMost(latest[n], latest'[n])
    <3>1. Less(latest[x], Update(x, m.register.timestamp))
      BY <2>0, UpdateLater, Zenon
    <3>2. latest' = [latest EXCEPT ![x] = Update(x, m.register.timestamp)]
      BY <2>2, Zenon DEF RegReceive
    <3> QED
      BY <2>0, <3>1, <3>2, Zenon DEF AtMost
  <2>3. ASSUME UNCHANGED latest
        PROVE  AtMost(latest[n], latest'[n])
    BY <2>3, Zenon DEF AtMost
  <2> QED
    BY <2>1, <2>2, <2>3, Zenon DEF RegNext, PhysicalTick, RegSend
<1> QED
  BY <1>1, RegInvariance, PTL DEF RegSpec, ClockAdvances

-----------------------------------------------------------------------------
\* NodeIdentity.  What a call still has to do decides whether memory and keystore
\* may be parted when it ends: it is about to write a keystore and then load it, or
\* it leaves the keystore alone and loads what that holds.

IsSeq(q) == \E T : q \in Seq(T)

\* A readable keystore holds the master secret m.
Holds(m) == IsFile(disk.keystore) => disk.keystore.master = m

InStep == mem.master # None => Holds(mem.master)

\* A step that leaves the keystore alone and loads no master secret but m.
Harmless(x, m) ==
    /\ x.do = "set" /\ x.field = "master" => x.value \in {None, m}
    /\ x.do \in {"truncate", "write", "remove"} => x.file = "session"

AllHarmless(q, m) == \A i \in 1 .. Len(q) : Harmless(q[i], m)

\* From its step k on the call loads m and touches no file.
LoadsFrom(q, k, m) ==
    /\ \A i \in k .. Len(q) : q[i].do = "set" /\ Harmless(q[i], m)
    /\ \E i \in k .. Len(q) : q[i].field = "master" /\ q[i].value = m

\* The keystore is not written any more.
Calm(q) == \E m : Holds(m) /\ AllHarmless(q, m) /\ (InStep \/ LoadsFrom(q, 1, m))

\* The call is about to write a keystore, or to truncate it first.
Writing(q, k) ==
    /\ k <= Len(q)
    /\ \E v : q[k] = WriteTo("keystore", v) /\ LoadsFrom(q, k + 1, v.master)

Saving(q) == q[1] = Truncate("keystore") /\ Writing(q, 2)

IdCallOK(q) == IsSeq(q) /\ (Calm(q) \/ (InStep /\ (Writing(q, 1) \/ Saving(q))))

IdInv ==
    /\ "master" \in DOMAIN mem /\ "keystore" \in DOMAIN disk
    /\ DOMAIN steps = Clients
    /\ \A c \in Clients : IdCallOK(steps[c])

\* What is left of a call after its next step.
LEMMA RestOfCall ==
    ASSUME NEW q, IsSeq(q), q # <<>>
    PROVE  /\ IsSeq(Tail(q)) /\ Head(q) = q[1] /\ Len(q) \in Nat /\ 1 \in 1 .. Len(q)
           /\ Len(Tail(q)) = Len(q) - 1 /\ \A i \in 1 .. Len(q) - 1 : Tail(q)[i] = q[i + 1]
<1>1. PICK T : q \in Seq(T)
  BY Zenon DEF IsSeq
<1>2. Tail(q) \in Seq(T)
  BY <1>1
<1>3. Len(q) \in Nat /\ Len(q) # 0
  BY <1>1
<1> QED
  BY <1>1, <1>2, <1>3 DEF IsSeq

\* The rest of a harmless call is harmless, and the rest of one that loads m from a
\* later step on does so too.
LEMMA RestHarmless ==
    ASSUME NEW q, IsSeq(q), q # <<>>, NEW m
    PROVE  /\ AllHarmless(q, m) => AllHarmless(Tail(q), m)
           /\ \A k \in Nat \ {0} : LoadsFrom(q, k + 1, m) => LoadsFrom(Tail(q), k, m)
           /\ LoadsFrom(q, 1, m) => LoadsFrom(q, 2, m) \/ (q[1].field = "master" /\ q[1].value = m)
<1>1. /\ Len(q) \in Nat /\ Len(Tail(q)) = Len(q) - 1
      /\ \A i \in 1 .. Len(q) - 1 : Tail(q)[i] = q[i + 1]
  BY RestOfCall, Zenon
<1>2. AllHarmless(q, m) => AllHarmless(Tail(q), m)
  <2>1. \A i \in 1 .. Len(q) - 1 : i + 1 \in 1 .. Len(q)
    BY <1>1
  <2> QED
    BY <1>1, <2>1, Zenon DEF AllHarmless
<1>3. ASSUME NEW k \in Nat \ {0}, LoadsFrom(q, k + 1, m) PROVE LoadsFrom(Tail(q), k, m)
  <2>1. \A i \in k .. Len(q) - 1 : i \in 1 .. Len(q) - 1 /\ i + 1 \in (k + 1) .. Len(q)
    BY <1>1
  <2>2. \A i \in (k + 1) .. Len(q) : i - 1 \in k .. Len(q) - 1 /\ (i - 1) + 1 = i
    BY <1>1
  <2>3. \A i \in k .. Len(Tail(q)) : Tail(q)[i].do = "set" /\ Harmless(Tail(q)[i], m)
    BY <1>1, <1>3, <2>1, Zenon DEF LoadsFrom
  <2>4. PICK i \in (k + 1) .. Len(q) : q[i].field = "master" /\ q[i].value = m
    BY <1>3, Zenon DEF LoadsFrom
  <2>5. i - 1 \in k .. Len(Tail(q)) /\ Tail(q)[i - 1] = q[i]
    BY <1>1, <2>1, <2>2, <2>4
  <2> QED
    BY <2>3, <2>4, <2>5, Zenon DEF LoadsFrom
<1>4. ASSUME LoadsFrom(q, 1, m) PROVE LoadsFrom(q, 2, m) \/ (q[1].field = "master" /\ q[1].value = m)
  <2>1. \A i \in 1 .. Len(q) : i = 1 \/ i \in 2 .. Len(q)
    BY <1>1
  <2>2. \A i \in 2 .. Len(q) : i \in 1 .. Len(q)
    BY <1>1
  <2> QED
    BY <1>4, <2>1, <2>2, Zenon DEF LoadsFrom
<1> QED
  BY <1>2, <1>3, <1>4, Zenon

\* A call that has ended leaves the two in step.
LEMMA EndedInStep ==
    ASSUME IdCallOK(<<>>)
    PROVE  InStep
<1>1. \A i \in 1 .. Len(<<>>) : FALSE
  OBVIOUS
<1>2. ~(1 <= Len(<<>>)) /\ ~(2 <= Len(<<>>))
  OBVIOUS
<1> QED
  BY <1>1, <1>2, Zenon DEF IdCallOK, Calm, Writing, Saving, LoadsFrom

\* In step, a call of harmless steps is right, whatever is in the keystore.
LEMMA HarmlessCall ==
    ASSUME NEW q, IsSeq(q), InStep, NEW m, Holds(m), AllHarmless(q, m)
    PROVE  IdCallOK(q)
BY Zenon DEF IdCallOK, Calm

\* The steps that load a master secret.
LEMMA LoadStepsHarmless ==
    ASSUME NEW m
    PROVE  IsSeq(LoadSteps(m)) /\ AllHarmless(LoadSteps(m), m)
<1> DEFINE q == LoadSteps(m)
<1>1. /\ Len(q) = 4 /\ q[1] = Set("kp", <<m, 0>>) /\ q[2] = Set("index", 0)
      /\ q[3] = Set("master", m) /\ q[4] = Set("count", 1)
  BY DEF LoadSteps
<1>2. q \in Seq({Set("kp", <<m, 0>>), Set("index", 0), Set("master", m), Set("count", 1)})
  BY DEF LoadSteps
<1> HIDE DEF q
<1>3. \A v : /\ Harmless(Set("kp", v), m) /\ Harmless(Set("index", v), m) /\ Harmless(Set("count", v), m)
             /\ Harmless(Set("master", m), m)
  BY Zenon DEF Set, Harmless
<1>4. \A i \in 1 .. 4 : i = 1 \/ i = 2 \/ i = 3 \/ i = 4
  OBVIOUS
<1>5. AllHarmless(q, m)
  BY <1>1, <1>3, <1>4, Zenon DEF AllHarmless
<1>6. IsSeq(q)
  BY <1>2, Zenon DEF IsSeq
<1> QED
  BY <1>5, <1>6, Zenon DEF q

\* One list of steps after another.
LEMMA TwoCalls ==
    ASSUME NEW T, NEW s \in Seq(T), NEW r \in Seq(T)
    PROVE  /\ s \o r \in Seq(T) /\ Len(s \o r) = Len(s) + Len(r)
           /\ \A i \in 1 .. Len(s \o r) : (s \o r)[i] = IF i <= Len(s) THEN s[i] ELSE r[i - Len(s)]
OBVIOUS

\* A call that saves a keystore and then loads its master secret.
LEMMA SaveThenLoad ==
    ASSUME NEW q, NEW v, NEW r, IsSeq(r), LoadsFrom(r, 1, v.master), q = Save("keystore", v) \o r
    PROVE  IsSeq(q) /\ Saving(q)
<1> DEFINE a == Truncate("keystore")
           b == WriteTo("keystore", v)
<1>1. PICK T : r \in Seq(T)
  BY Zenon DEF IsSeq
<1>2. q = <<a, b>> \o r
  BY Zenon DEF Save
<1> HIDE DEF a, b
<1>3. r \in Seq(T \cup {a, b}) /\ <<a, b>> \in Seq(T \cup {a, b}) /\ Len(r) \in Nat
  BY <1>1
<1>4. /\ q \in Seq(T \cup {a, b}) /\ Len(q) = Len(r) + 2 /\ q[1] = a /\ q[2] = b
      /\ \A i \in 1 .. Len(r) : q[i + 2] = r[i]
  <2> DEFINE s == <<a, b>>
  <2>1. s \in Seq(T \cup {a, b}) /\ Len(s) = 2 /\ s[1] = a /\ s[2] = b /\ q = s \o r
    BY <1>2
  <2> HIDE DEF s
  <2>2. /\ q \in Seq(T \cup {a, b}) /\ Len(q) = 2 + Len(r)
        /\ \A i \in 1 .. Len(q) : q[i] = IF i <= 2 THEN s[i] ELSE r[i - 2]
    <3> DEFINE U == T \cup {a, b}
    <3>1. s \in Seq(U) /\ r \in Seq(U)
      BY <1>3, <2>1, Zenon
    <3> HIDE DEF U
    <3>2. /\ s \o r \in Seq(U) /\ Len(s \o r) = Len(s) + Len(r)
          /\ \A i \in 1 .. Len(s \o r) : (s \o r)[i] = IF i <= Len(s) THEN s[i] ELSE r[i - Len(s)]
      BY <3>1, TwoCalls, Zenon
    <3>3. q \in Seq(U) /\ Len(q) = 2 + Len(r)
      BY <2>1, <3>2, Zenon
    <3>4. \A i \in 1 .. Len(q) : q[i] = IF i <= 2 THEN s[i] ELSE r[i - 2]
      BY <2>1, <3>2, Zenon
    <3> QED
      BY <3>3, <3>4, Zenon DEF U
  <2>3. 1 \in 1 .. Len(q) /\ 2 \in 1 .. Len(q) /\ \A i \in 1 .. Len(r) : i + 2 \in 1 .. Len(q) /\ (i + 2) - 2 = i
    BY <1>3, <2>2
  <2> QED
    BY <1>3, <2>1, <2>2, <2>3
<1>5. \A i \in 3 .. Len(q) : i - 2 \in 1 .. Len(r) /\ (i - 2) + 2 = i
  BY <1>3, <1>4
<1>6. \A i \in 1 .. Len(r) : i + 2 \in 3 .. Len(q)
  BY <1>3, <1>4
<1>7. LoadsFrom(q, 3, v.master)
  <2>1. \A i \in 3 .. Len(q) : q[i].do = "set" /\ Harmless(q[i], v.master)
    <3> SUFFICES ASSUME NEW i \in 3 .. Len(q) PROVE q[i].do = "set" /\ Harmless(q[i], v.master)
      BY Zenon
    <3>1. PICK j \in 1 .. Len(r) : q[i] = r[j]
      BY <1>4, <1>5, Zenon
    <3> QED
      BY <3>1, Zenon DEF LoadsFrom
  <2>2. \E i \in 3 .. Len(q) : q[i].field = "master" /\ q[i].value = v.master
    BY <1>4, <1>6, Zenon DEF LoadsFrom
  <2> QED
    BY <2>1, <2>2, Zenon DEF LoadsFrom
<1>8. 2 <= Len(q) /\ 2 + 1 = 3
  BY <1>3, <1>4
<1>9. Writing(q, 2)
  BY <1>4, <1>7, <1>8, Zenon DEF Writing, b
<1> QED
  BY <1>4, <1>9, Zenon DEF IsSeq, Saving, a

\* create and import_master_secret save, then load.
LEMMA CreateSaves ==
    ASSUME NEW q, NEW m, NEW v, v.master = m,
           \/ q = Save("keystore", v) \o <<Set("kp", <<m, 0>>), Set("master", m), Set("count", 1)>>
           \/ q = Save("keystore", v)
                    \o <<Set("kp", <<m, 0>>), Set("master", m), Set("index", 0), Set("count", 1)>>
    PROVE  IsSeq(q) /\ Saving(q)
<1> DEFINE a == Set("kp", <<m, 0>>)
           b == Set("master", m)
           d == Set("count", 1)
           e == Set("index", 0)
<1>1. a.do = "set" /\ b.do = "set" /\ d.do = "set" /\ e.do = "set" /\ b.field = "master" /\ b.value = m
  BY Zenon DEF Set
<1>2. Harmless(a, m) /\ Harmless(b, m) /\ Harmless(d, m) /\ Harmless(e, m)
  BY Zenon DEF Set, Harmless
<1> HIDE DEF a, b, d, e
<1>3. IsSeq(<<a, b, d>>) /\ LoadsFrom(<<a, b, d>>, 1, m)
  <2> DEFINE r == <<a, b, d>>
  <2>1. r \in Seq({a, b, d}) /\ Len(r) = 3 /\ r[1] = a /\ r[2] = b /\ r[3] = d
    OBVIOUS
  <2> HIDE DEF r
  <2>2. 2 \in 1 .. 3 /\ \A i \in 1 .. 3 : i = 1 \/ i = 2 \/ i = 3
    OBVIOUS
  <2>3. LoadsFrom(r, 1, m)
    BY <1>1, <1>2, <2>1, <2>2, Zenon DEF LoadsFrom
  <2> QED
    BY <2>1, <2>3, Zenon DEF IsSeq, r
<1>4. IsSeq(<<a, b, e, d>>) /\ LoadsFrom(<<a, b, e, d>>, 1, m)
  <2> DEFINE r == <<a, b, e, d>>
  <2>1. r \in Seq({a, b, d, e}) /\ Len(r) = 4 /\ r[1] = a /\ r[2] = b /\ r[3] = e /\ r[4] = d
    OBVIOUS
  <2> HIDE DEF r
  <2>2. 2 \in 1 .. 4 /\ \A i \in 1 .. 4 : i = 1 \/ i = 2 \/ i = 3 \/ i = 4
    OBVIOUS
  <2>3. LoadsFrom(r, 1, m)
    BY <1>1, <1>2, <2>1, <2>2, Zenon DEF LoadsFrom
  <2> QED
    BY <2>1, <2>3, Zenon DEF IsSeq, r
<1>5. q = Save("keystore", v) \o <<a, b, d>> \/ q = Save("keystore", v) \o <<a, b, e, d>>
  BY Zenon DEF a, b, d, e
<1> QED
  BY <1>3, <1>4, <1>5, SaveThenLoad, Zenon

\* Lists of harmless steps.
LEMMA FewHarmless ==
    ASSUME NEW m
    PROVE  /\ IsSeq(<<>>) /\ AllHarmless(<<>>, m)
           /\ \A x : Harmless(x, m) => IsSeq(<<x>>) /\ AllHarmless(<<x>>, m)
           /\ \A x, y : Harmless(x, m) /\ Harmless(y, m) => IsSeq(<<x, y>>) /\ AllHarmless(<<x, y>>, m)
<1>1. <<>> \in Seq({m}) /\ \A i \in 1 .. Len(<<>>) : FALSE
  OBVIOUS
<1>2. ASSUME NEW x PROVE <<x>> \in Seq({x}) /\ \A i \in 1 .. Len(<<x>>) : <<x>>[i] = x
  OBVIOUS
<1>3. ASSUME NEW x, NEW y
      PROVE  <<x, y>> \in Seq({x, y}) /\ \A i \in 1 .. Len(<<x, y>>) : <<x, y>>[i] = x \/ <<x, y>>[i] = y
  OBVIOUS
<1>4. IsSeq(<<>>) /\ AllHarmless(<<>>, m)
  BY <1>1, Zenon DEF IsSeq, AllHarmless
<1>5. ASSUME NEW x, Harmless(x, m) PROVE IsSeq(<<x>>) /\ AllHarmless(<<x>>, m)
  BY <1>2, <1>5, Zenon DEF IsSeq, AllHarmless
<1>6. ASSUME NEW x, NEW y, Harmless(x, m), Harmless(y, m) PROVE IsSeq(<<x, y>>) /\ AllHarmless(<<x, y>>, m)
  <2>1. \A i \in 1 .. Len(<<x, y>>) : Harmless(<<x, y>>[i], m)
    BY <1>3, <1>6
  <2> QED
    BY <1>3, <2>1, Zenon DEF IsSeq, AllHarmless
<1> QED
  BY <1>4, <1>5, <1>6, Zenon

\* One harmless list after another is harmless.
LEMMA BothHarmless ==
    ASSUME NEW s, NEW r, NEW m, IsSeq(s), IsSeq(r), AllHarmless(s, m), AllHarmless(r, m)
    PROVE  IsSeq(s \o r) /\ AllHarmless(s \o r, m)
<1>1. PICK S, T : s \in Seq(S) /\ r \in Seq(T)
  BY Zenon DEF IsSeq
<1>2. s \in Seq(S \cup T) /\ r \in Seq(S \cup T) /\ Len(s) \in Nat /\ Len(r) \in Nat
  BY <1>1
<1>3. /\ s \o r \in Seq(S \cup T) /\ Len(s \o r) = Len(s) + Len(r)
      /\ \A i \in 1 .. Len(s \o r) : (s \o r)[i] = IF i <= Len(s) THEN s[i] ELSE r[i - Len(s)]
  BY <1>2, TwoCalls, Zenon
<1>4. \A i \in 1 .. Len(s \o r) : IF i <= Len(s) THEN i \in 1 .. Len(s) ELSE i - Len(s) \in 1 .. Len(r)
  BY <1>2, <1>3
<1>5. AllHarmless(s \o r, m)
  BY <1>3, <1>4, Zenon DEF AllHarmless
<1> QED
  BY <1>3, <1>5, Zenon DEF IsSeq

\* The node with one client, whose call goes on with z.
LEMMA GoesOn ==
    ASSUME NEW c, Clients = {c}, IdInv, NEW z, steps' = [steps EXCEPT ![c] = z],
           "master" \in DOMAIN mem', "keystore" \in DOMAIN disk', IdCallOK(z)'
    PROVE  IdInv'
<1>1. steps'[c] = z /\ DOMAIN steps' = Clients
  BY Zenon DEF IdInv
<1>2. IdCallOK(steps[c])'
  <2>1. ASSUME NEW y, y = steps'[c] PROVE IdCallOK(y)'
    BY <1>1, <2>1, Zenon
  <2> QED
    BY <1>1, <2>1, Zenon DEF IdCallOK
<1> QED
  BY <1>1, <1>2, Zenon DEF IdInv

\* A call says the same while memory and files stay.
LEMMA SameCall ==
    ASSUME NEW z, UNCHANGED <<disk, mem>>, IdCallOK(z)
    PROVE  IdCallOK(z)'
<1>1. InStep' = InStep /\ \A m : Holds(m)' = Holds(m)
  BY Zenon DEF InStep, Holds
<1> QED
  BY <1>1, Zenon DEF IdCallOK, Calm

\* What a readable keystore holds, it holds.
LEMMA HoldsSomething == \E m : Holds(m)
BY Zenon DEF Holds

\* The calls of the API, when they begin.
LEMMA BeginsInv ==
    ASSUME NEW c, Clients = {c}, IdInv, IdentityApi(c) \/ ImportApi(c)
    PROVE  IdInv'
<1>1. steps[c] = <<>> /\ UNCHANGED <<disk, mem>>
  BY Zenon DEF IdentityApi, ImportApi, Create, Import, Unlock, AutoUnlock, Lock, Switch, Begins, Returned
<1>2. InStep
  BY <1>1, EndedInStep, Zenon DEF IdInv
<1>3. ASSUME NEW z, steps' = [steps EXCEPT ![c] = z], IdCallOK(z) PROVE IdInv'
  BY <1>1, <1>3, SameCall, GoesOn, Zenon DEF IdInv
<1>4. PICK h : Holds(h)
  BY HoldsSomething, Zenon
<1>5. ASSUME NEW z, IsSeq(z), Saving(z) PROVE IdCallOK(z)
  BY <1>2, <1>5, Zenon DEF IdCallOK
<1>6. \A m, p : Keystore(m, p).master = m
  BY Zenon DEF Keystore
<1>7. ASSUME NEW p, Create(c, p) PROVE IdInv'
  <2>1. PICK z : z = CreateSteps(saves, p)
    BY Zenon
  <2>2. PICK v : v = Keystore(saves, p)
    BY Zenon
  <2>3. PICK m : m = saves
    BY Zenon
  <2>4. z = Save("keystore", v) \o <<Set("kp", <<m, 0>>), Set("master", m), Set("count", 1)>>
    BY <2>1, <2>2, <2>3, Zenon DEF CreateSteps
  <2>5. IsSeq(z) /\ Saving(z)
    BY <1>6, <2>2, <2>3, <2>4, CreateSaves, Zenon
  <2> QED
    BY <1>3, <1>5, <1>7, <2>1, <2>5, Zenon DEF Create, Begins
<1>8. ASSUME NEW p, NEW m, Import(c, m, p) PROVE IdInv'
  <2>1. PICK z : z = ImportSteps(m, p)
    BY Zenon
  <2>2. PICK v : v = Keystore(m, p)
    BY Zenon
  <2>3. z = Save("keystore", v)
              \o <<Set("kp", <<m, 0>>), Set("master", m), Set("index", 0), Set("count", 1)>>
    BY <2>1, <2>2, Zenon DEF ImportSteps
  <2>4. IsSeq(z) /\ Saving(z)
    BY <1>6, <2>2, <2>3, CreateSaves, Zenon
  <2> QED
    BY <1>3, <1>5, <1>8, <2>1, <2>4, Zenon DEF Import, Begins
<1>9. ASSUME NEW p, NEW r \in BOOLEAN, Unlock(c, p, r) PROVE IdInv'
  <2>1. PICK m : m = disk.keystore.master
    BY Zenon
  <2>2. Holds(m) /\ IsSeq(LoadSteps(m)) /\ AllHarmless(LoadSteps(m), m)
    BY <2>1, LoadStepsHarmless, Zenon DEF Holds
  <2>3. PICK z : z = (IF r THEN <<Derive(p)>> ELSE <<>>) \o LoadSteps(m)
    BY Zenon
  <2>4. IsSeq(z) /\ AllHarmless(z, m)
    <3>1. Harmless(Derive(p), m)
      BY Zenon DEF Harmless, Derive
    <3>2. PICK s : s = IF r THEN <<Derive(p)>> ELSE <<>>
      BY Zenon
    <3>3. IsSeq(s) /\ AllHarmless(s, m)
      BY <3>1, <3>2, FewHarmless, Zenon
    <3> QED
      BY <2>2, <2>3, <3>2, <3>3, BothHarmless, Zenon
  <2>5. IdCallOK(z)
    BY <1>2, <2>2, <2>4, HarmlessCall, Zenon
  <2> QED
    BY <1>3, <1>9, <2>1, <2>3, <2>5, Zenon DEF Unlock, Begins
<1>10. ASSUME NEW x, Harmless(x, h) PROVE IdCallOK(<<x>>)
  BY <1>2, <1>4, <1>10, FewHarmless, HarmlessCall, Zenon
<1>11. ASSUME AutoUnlock(c) PROVE IdInv'
  <2>1. PICK s : s = disk.session
    BY Zenon
  <2>2. Harmless(OpenWith(s), h) /\ Harmless(RemoveFile("session"), h)
    BY Zenon DEF Harmless, OpenWith, RemoveFile
  <2>3. IdCallOK(<<OpenWith(s)>>) /\ IdCallOK(<<RemoveFile("session")>>)
    BY <1>10, <2>2, Zenon
  <2>4. steps' = [steps EXCEPT ![c] = <<OpenWith(s)>>] \/ steps' = [steps EXCEPT ![c] = <<RemoveFile("session")>>]
    BY <1>11, <2>1, Zenon DEF AutoUnlock, Begins
  <2> QED
    BY <1>3, <2>3, <2>4, Zenon
<1>12. ASSUME NEW f \in BOOLEAN, Lock(c, f) PROVE IdInv'
  <2>1. /\ Harmless(Set("kp", None), h) /\ Harmless(Set("master", None), h)
        /\ Harmless(RemoveFile("session"), h)
    BY Zenon DEF Harmless, Set, RemoveFile
  <2>2. PICK s, r : s = <<Set("kp", None), Set("master", None)>> /\ r = IF f THEN <<RemoveFile("session")>> ELSE <<>>
    BY Zenon
  <2>3. IsSeq(s) /\ AllHarmless(s, h) /\ IsSeq(r) /\ AllHarmless(r, h)
    BY <2>1, <2>2, FewHarmless, Zenon
  <2>4. IdCallOK(s \o r)
    BY <1>2, <1>4, <2>3, BothHarmless, HarmlessCall, Zenon
  <2> QED
    BY <1>3, <1>12, <2>2, <2>4, Zenon DEF Lock, LockSteps
<1>13. ASSUME NEW i, Switch(c, i) PROVE IdInv'
  <2>1. PICK a, b : a = Set("kp", <<mem.master, i>>) /\ b = Set("index", i)
    BY Zenon
  <2>2. Harmless(a, h) /\ Harmless(b, h)
    BY <2>1, Zenon DEF Harmless, Set
  <2>3. IdCallOK(<<a, b>>)
    BY <1>2, <1>4, <2>2, FewHarmless, HarmlessCall, Zenon
  <2> QED
    BY <1>3, <1>13, <2>1, <2>3, Zenon DEF Switch
<1> QED
  BY <1>7, <1>8, <1>9, <1>11, <1>12, <1>13, Zenon DEF IdentityApi, ImportApi

\* The steps of a call.
LEMMA CallStepInv ==
    ASSUME NEW c, Clients = {c}, IdInv, Step(c)
    PROVE  IdInv'
<1>1. PICK q, s, z : q = steps[c] /\ s = Head(q) /\ z = Tail(q)
  BY Zenon
<1>2. q # <<>> /\ IdCallOK(q) /\ IsSeq(q)
  BY <1>1, Zenon DEF Step, Returned, IdInv, IdCallOK
<1>3. IsSeq(z) /\ s = q[1] /\ 1 \in 1 .. Len(q) /\ Len(q) \in Nat
  BY <1>1, <1>2, RestOfCall, Zenon
<1>4. /\ \A m : AllHarmless(q, m) => AllHarmless(z, m)
      /\ \A m : \A k \in Nat \ {0} : LoadsFrom(q, k + 1, m) => LoadsFrom(z, k, m)
      /\ \A m : LoadsFrom(q, 1, m) => LoadsFrom(q, 2, m) \/ (s.field = "master" /\ s.value = m)
  BY <1>1, <1>2, <1>3, RestHarmless, Zenon
<1>5. \A m : LoadsFrom(q, 2, m) => LoadsFrom(z, 1, m)
  <2>1. 1 \in Nat \ {0} /\ 1 + 1 = 2
    OBVIOUS
  <2> QED
    BY <1>4, <2>1
<1>6. \A m : LoadsFrom(q, 1, m) => s.do = "set"
  BY <1>3, Zenon DEF LoadsFrom
<1>7. \A m : AllHarmless(q, m) => Harmless(s, m)
  BY <1>3, Zenon DEF AllHarmless
<1>8. /\ \A v : s = WriteTo("keystore", v) => s.do = "write" /\ s.file = "keystore" /\ s.value = v
      /\ s = Truncate("keystore") => s.do = "truncate" /\ s.file = "keystore"
  <2>1. /\ \A v : /\ WriteTo("keystore", v).do = "write" /\ WriteTo("keystore", v).file = "keystore"
                  /\ WriteTo("keystore", v).value = v
        /\ Truncate("keystore").do = "truncate" /\ Truncate("keystore").file = "keystore"
    BY Zenon DEF WriteTo, Truncate
  <2> QED
    BY <2>1, Zenon
<1>9. (s.do # "write" /\ s.do # "truncate") => Calm(q)
  BY <1>2, <1>3, <1>8, Zenon DEF IdCallOK, Writing, Saving
<1>10. (s.do # "set" /\ Calm(q)) => InStep
  BY <1>6, Zenon DEF Calm
<1>11. CASE DoSet(c, s)
  <2>1. /\ s.do = "set" /\ mem' = [mem EXCEPT ![s.field] = s.value] /\ disk' = disk
        /\ steps' = [steps EXCEPT ![c] = z]
    BY <1>1, <1>11, Zenon DEF DoSet
  <2>2. PICK m : Holds(m) /\ AllHarmless(q, m) /\ (InStep \/ LoadsFrom(q, 1, m))
    BY <1>9, <2>1, Zenon DEF Calm
  <2>3. Holds(m)' /\ AllHarmless(z, m) /\ Harmless(s, m)
    BY <1>4, <1>7, <2>1, <2>2, Zenon DEF Holds
  <2>4. ASSUME s.field = "master" PROVE IdCallOK(z)'
    <3>1. mem'.master = s.value /\ s.value \in {None, m}
      BY <2>1, <2>3, <2>4, Zenon DEF IdInv, Harmless
    <3>2. InStep'
      BY <2>3, <3>1, Zenon DEF InStep, Holds
    <3> QED
      BY <1>3, <2>3, <3>2, Zenon DEF IdCallOK, Calm
  <2>5. ASSUME s.field # "master" PROVE IdCallOK(z)'
    <3>1. mem'.master = mem.master
      BY <2>1, <2>5, Zenon DEF IdInv
    <3>2. InStep => InStep'
      BY <2>1, <3>1, Zenon DEF InStep, Holds
    <3>3. LoadsFrom(q, 1, m) => LoadsFrom(z, 1, m)
      BY <1>4, <1>5, <2>5, Zenon
    <3> QED
      BY <1>3, <2>2, <2>3, <3>2, <3>3, Zenon DEF IdCallOK, Calm
  <2>6. IdCallOK(z)'
    BY <2>4, <2>5, Zenon
  <2>7. DOMAIN mem' = DOMAIN mem
    BY <2>1, Zenon
  <2> QED
    BY <2>1, <2>6, <2>7, GoesOn, Zenon DEF IdInv
<1>12. CASE DoFile(c, s)
  <2>1. /\ s.do \in {"truncate", "write", "remove"} /\ mem' = mem /\ steps' = [steps EXCEPT ![c] = z]
        /\ \E v : /\ disk' = [disk EXCEPT ![s.file] = v]
                  /\ s.do = "truncate" => v = Torn
                  /\ s.do = "write" => v = s.value
    BY <1>1, <1>12, Zenon DEF DoFile
  <2>2. PICK v : /\ disk' = [disk EXCEPT ![s.file] = v]
                 /\ s.do = "truncate" => v = Torn
                 /\ s.do = "write" => v = s.value
    BY <2>1, Zenon
  <2>3. s.do # "set"
    BY <2>1
  <2>4. s.file = "keystore" => disk'.keystore = v
    BY <2>2, Zenon DEF IdInv
  <2>5. ASSUME Calm(q) PROVE IdCallOK(z)'
    <3>1. PICK m : Holds(m) /\ AllHarmless(q, m)
      BY <2>5, Zenon DEF Calm
    <3>2. s.file = "session" /\ AllHarmless(z, m)
      BY <1>4, <1>7, <2>1, <3>1, Zenon DEF Harmless
    <3>3. disk'.keystore = disk.keystore
      BY <2>2, <3>2, Zenon DEF IdInv
    <3>4. InStep' /\ Holds(m)'
      BY <1>10, <2>1, <2>3, <2>5, <3>1, <3>3, Zenon DEF InStep, Holds
    <3> QED
      BY <1>3, <3>2, <3>4, Zenon DEF IdCallOK, Calm
  <2>6. ASSUME Writing(q, 1) PROVE IdCallOK(z)'
    <3>1. PICK w : q[1] = WriteTo("keystore", w) /\ LoadsFrom(q, 1 + 1, w.master)
      BY <2>6, Zenon DEF Writing
    <3>2. s.do = "write" /\ s.file = "keystore" /\ s.value = w
      BY <1>3, <1>8, <3>1, Zenon
    <3>3. disk'.keystore = w
      BY <2>2, <2>4, <3>2, Zenon
    <3>4. LoadsFrom(z, 1, w.master)
      <4>1. 1 \in Nat \ {0}
        OBVIOUS
      <4> QED
        BY <1>4, <3>1, <4>1, Zenon
    <3>5. AllHarmless(z, w.master)
      BY <3>4, Zenon DEF LoadsFrom, AllHarmless
    <3>6. Holds(w.master)'
      BY <3>3, Zenon DEF Holds
    <3> QED
      BY <1>3, <3>4, <3>5, <3>6, Zenon DEF IdCallOK, Calm
  <2>7. ASSUME Saving(q) PROVE IdCallOK(z)'
    <3>1. PICK w : /\ q[1] = Truncate("keystore") /\ 2 <= Len(q) /\ q[2] = WriteTo("keystore", w)
                   /\ LoadsFrom(q, 2 + 1, w.master)
      BY <2>7, Zenon DEF Saving, Writing
    <3>2. s.do = "truncate" /\ s.file = "keystore"
      BY <1>3, <1>8, <3>1, Zenon
    <3>3. disk'.keystore = Torn
      BY <2>2, <2>4, <3>2, Zenon
    <3>4. InStep'
      BY <3>3, Zenon DEF InStep, Holds, IsFile
    <3>5. 1 <= Len(z) /\ z[1] = q[2]
      <4>1. /\ Len(z) = Len(q) - 1 /\ \A i \in 1 .. Len(q) - 1 : z[i] = q[i + 1]
        BY <1>1, <1>2, RestOfCall, Zenon
      <4>2. 1 \in 1 .. Len(q) - 1 /\ 1 + 1 = 2
        BY <1>3, <3>1
      <4>3. 1 <= Len(z)
        BY <1>3, <3>1, <4>1
      <4> QED
        BY <4>1, <4>2, <4>3
    <3>6. LoadsFrom(z, 1 + 1, w.master)
      <4>1. 2 \in Nat \ {0} /\ 1 + 1 = 2
        OBVIOUS
      <4>2. LoadsFrom(z, 2, w.master)
        BY <1>4, <3>1, <4>1, Zenon
      <4> QED
        BY <4>1, <4>2
    <3>7. Writing(z, 1)
      BY <3>1, <3>5, <3>6, Zenon DEF Writing
    <3> QED
      BY <1>3, <3>4, <3>7, Zenon DEF IdCallOK
  <2>8. IdCallOK(z)' /\ DOMAIN disk' = DOMAIN disk
    BY <1>2, <2>2, <2>5, <2>6, <2>7, Zenon DEF IdCallOK
  <2> QED
    BY <2>1, <2>8, GoesOn, Zenon DEF IdInv
<1>13. CASE DoDerive(c, s)
  <2>1. s.do = "derive" /\ UNCHANGED <<disk, mem>>
    BY <1>13, Zenon DEF DoDerive
  <2>2. s.do # "set" /\ s.do # "write" /\ s.do # "truncate"
    BY <2>1
  <2>3. InStep
    BY <1>9, <1>10, <2>2, Zenon
  <2>4. PICK m : Holds(m) /\ AllHarmless(z, m)
    BY <1>4, <1>9, <2>2, Zenon DEF Calm
  <2>5. PICK k : k = IF IsFile(disk.keystore) THEN Save("session", [pass |-> s.pass, salt |-> disk.keystore.salt])
                     ELSE <<>>
    BY Zenon
  <2>6. IsSeq(k) /\ AllHarmless(k, m)
    <3>1. \A v : Harmless(Truncate("session"), m) /\ Harmless(WriteTo("session", v), m)
      BY Zenon DEF Harmless, Truncate, WriteTo
    <3> QED
      BY <2>5, <3>1, FewHarmless, Zenon DEF Save
  <2>7. IdCallOK(k \o z)
    BY <1>3, <2>3, <2>4, <2>6, BothHarmless, HarmlessCall, Zenon
  <2>8. steps' = [steps EXCEPT ![c] = k \o z]
    BY <1>1, <1>13, <2>5, Zenon DEF DoDerive
  <2> QED
    BY <2>1, <2>7, <2>8, SameCall, GoesOn, Zenon DEF IdInv
<1>14. CASE DoOpen(c, s)
  <2>1. s.do = "open" /\ UNCHANGED <<disk, mem>>
    BY <1>14, Zenon DEF DoOpen
  <2>2. s.do # "set" /\ s.do # "write" /\ s.do # "truncate"
    BY <2>1
  <2>3. InStep
    BY <1>9, <1>10, <2>2, Zenon
  <2>4. PICK m : m = disk.keystore.master
    BY Zenon
  <2>5. Holds(m) /\ Harmless(RemoveFile("session"), m)
    BY <2>4, Zenon DEF Holds, Harmless, RemoveFile
  <2>6. IdCallOK(LoadSteps(m)) /\ IdCallOK(<<RemoveFile("session")>>)
    BY <2>3, <2>5, FewHarmless, LoadStepsHarmless, HarmlessCall, Zenon
  <2>7. steps' = [steps EXCEPT ![c] = LoadSteps(m)] \/ steps' = [steps EXCEPT ![c] = <<RemoveFile("session")>>]
    BY <1>14, <2>4, Zenon DEF DoOpen
  <2> QED
    BY <2>1, <2>6, <2>7, SameCall, GoesOn, Zenon DEF IdInv
<1> QED
  BY <1>1, <1>11, <1>12, <1>13, <1>14, Zenon DEF Step

\* What is left of a call after some of its steps.
LEMMA LaterSteps ==
    ASSUME NEW q, IsSeq(q), NEW k \in Nat \ {0}, NEW m, AllHarmless(q, m)
    PROVE  IsSeq(SubSeq(q, k, Len(q))) /\ AllHarmless(SubSeq(q, k, Len(q)), m)
<1>1. PICK T : q \in Seq(T)
  BY Zenon DEF IsSeq
<1> DEFINE r == SubSeq(q, k, Len(q))
<1>2. r \in Seq(T) /\ \A i \in 1 .. Len(r) : i + k - 1 \in 1 .. Len(q) /\ r[i] = q[i + k - 1]
  BY <1>1
<1> HIDE DEF r
<1>3. IsSeq(r) /\ AllHarmless(r, m)
  BY <1>2, Zenon DEF IsSeq, AllHarmless
<1> QED
  BY <1>3, Zenon DEF r

\* A call whose file operation fails ends, or goes on after that file.
LEMMA FaultInv ==
    ASSUME NEW c, Clients = {c}, IdInv, Fault(c)
    PROVE  IdInv'
<1>1. PICK q, s, k : q = steps[c] /\ s = Head(q) /\ k = IF s.do = "truncate" THEN 3 ELSE 2
  BY Zenon
<1>2. q # <<>> /\ IdCallOK(q) /\ IsSeq(q) /\ UNCHANGED <<disk, mem>> /\ s.do \in {"truncate", "write", "remove"}
  BY <1>1, Zenon DEF Fault, Returned, IdInv, IdCallOK
<1>3. s = q[1] /\ 1 \in 1 .. Len(q)
  BY <1>1, <1>2, RestOfCall, Zenon
<1>4. s.do # "set"
  BY <1>2
<1>5. InStep
  BY <1>2, <1>3, <1>4, Zenon DEF IdCallOK, Calm, LoadsFrom
<1>6. PICK h : Holds(h)
  BY HoldsSomething, Zenon
<1>7. IdCallOK(<<>>)
  BY <1>5, <1>6, FewHarmless, HarmlessCall, Zenon
<1>8. CASE s.file = "keystore"
  <2>1. steps' = [steps EXCEPT ![c] = <<>>]
    BY <1>1, <1>8, Zenon DEF Fault
  <2> QED
    BY <1>2, <1>7, <2>1, SameCall, GoesOn, Zenon DEF IdInv
<1>9. CASE s.file # "keystore"
  <2>1. Calm(q)
    <3>1. (\A v : WriteTo("keystore", v).file = "keystore") /\ Truncate("keystore").file = "keystore"
      BY Zenon DEF WriteTo, Truncate
    <3> QED
      BY <1>2, <1>3, <1>9, <3>1, Zenon DEF IdCallOK, Writing, Saving
  <2>2. PICK m : Holds(m) /\ AllHarmless(q, m)
    BY <2>1, Zenon DEF Calm
  <2>3. k \in Nat \ {0}
    BY <1>1
  <2>4. PICK z : z = SubSeq(q, k, Len(q))
    BY Zenon
  <2>5. IdCallOK(z)
    BY <1>2, <1>5, <2>2, <2>3, <2>4, LaterSteps, HarmlessCall, Zenon
  <2>6. steps' = [steps EXCEPT ![c] = z]
    BY <1>1, <1>9, <2>4, Zenon DEF Fault
  <2> QED
    BY <1>2, <2>5, <2>6, SameCall, GoesOn, Zenon DEF IdInv
<1> QED
  BY <1>8, <1>9, Zenon

\* A start of the process: memory is empty and no call is under way.
LEMMA FreshInv ==
    ASSUME mem.master = None, "master" \in DOMAIN mem, "keystore" \in DOMAIN disk,
           steps = [c \in Clients |-> <<>>]
    PROVE  IdInv
<1>1. InStep
  BY Zenon DEF InStep
<1>2. IdCallOK(<<>>)
  BY <1>1, HoldsSomething, FewHarmless, HarmlessCall, Zenon
<1> QED
  BY <1>2, Zenon DEF IdInv

\* Every step of a node with one client keeps the call right.
LEMMA IdStep ==
    ASSUME NEW c, Clients = {c}, IdInv, [IdNext]_idVars
    PROVE  IdInv'
<1>1. CASE UNCHANGED <<disk, mem, steps>>
  <2>1. PICK z : z = steps[c]
    BY Zenon
  <2>2. IdCallOK(z)'
    BY <1>1, <2>1, SameCall, Zenon DEF IdInv
  <2>3. \A d \in Clients : IdCallOK(steps[d])'
    BY <1>1, <2>1, <2>2, Zenon DEF IdCallOK
  <2> QED
    BY <1>1, <2>3, Zenon DEF IdInv
<1>2. CASE Restart
  <2>1. mem' = LockedMem /\ disk' = disk /\ steps' = [d \in Clients |-> <<>>]
    BY <1>2, Zenon DEF Restart
  <2>2. mem'.master = None /\ "master" \in DOMAIN mem'
    BY <2>1 DEF LockedMem
  <2>3. "keystore" \in DOMAIN disk'
    BY <2>1, Zenon DEF IdInv
  <2>4. InStep'
    BY <2>2, Zenon DEF InStep
  <2>5. PICK h : Holds(h)'
    BY Zenon DEF Holds
  <2>6. IdCallOK(<<>>)'
    BY <2>4, <2>5, FewHarmless, Zenon DEF IdCallOK, Calm
  <2> QED
    BY <2>1, <2>2, <2>3, <2>6, Zenon DEF IdInv
<1>3. CASE NextDay \/ EpochTick \/ EpochRotate \/ SealPost \/ UNCHANGED idVars
  BY <1>1, <1>3, Zenon DEF NextDay, EpochTick, EpochRotate, SealPost, idVars
<1> QED
  BY <1>2, <1>3, BeginsInv, CallStepInv, FaultInv, Zenon DEF IdNext

\* MemoryMatchesDisk, for a client that makes one call after another, and any
\* passphrases, keystores, failed writes and restarts: when no call is under way a
\* readable keystore holds the master secret in memory. Calls of two clients that
\* overlap can part the two: no mutex covers a whole call.
THEOREM MemoryAlwaysMatches ==
    ASSUME NEW c, Clients = {c}
    PROVE  IdSpec => []MemoryMatchesDisk
<1>1. IdInit => IdInv
  <2>1. IdInit => mem.master = None /\ "master" \in DOMAIN mem /\ "keystore" \in DOMAIN disk
    BY DEF IdInit, LockedMem
  <2> QED
    BY <2>1, FreshInv, Zenon DEF IdInit
<1>2. IdInv /\ [IdNext]_idVars => IdInv'
  BY IdStep, Zenon
<1>3. IdInv => MemoryMatchesDisk
  <2> SUFFICES ASSUME IdInv, AllReturned PROVE InStep
    BY Zenon DEF MemoryMatchesDisk, InStep, Holds
  <2>1. IdCallOK(<<>>)
    BY Zenon DEF IdInv, AllReturned, Returned
  <2> QED
    BY <2>1, EndedInStep, Zenon
<1> QED
  BY <1>1, <1>2, <1>3, PTL DEF IdSpec
=============================================================================
