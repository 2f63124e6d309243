----------------------------- MODULE PeerProofs -----------------------------
(***************************************************************************)
(* Proofs about what a node has of its peers:                              *)
(*   - Dht, for any nodes, owners, fields and faults: no profile mixes keys*)
(*     or fields, who waits for an answer can be woken, and a field that a *)
(*     profile has is not lost to an answer without it                     *)
(*   - PeerTransport, for any endpoints: every entry of the table has a    *)
(*     writer that runs, a connection that replaced another is kept, and   *)
(*     the connection that setup_connection keeps is live                  *)
(***************************************************************************)
EXTENDS Dht, PeerTransport, TLAPS

Values == [Fields -> Nat]
Records == [value : Values, till : Int]
OwnRows == [read : {TRUE}, value : Values]
Waits ==
    [state : {"waiting", "answered", "late", "dropped"},
     by : Hosts, key : Owners, fresh : BOOLEAN, value : Values]
QueryMessages == [kind : {"query"}, id : Queries, key : Owners, by : Hosts]
ResponseMessages == [kind : {"response"}, id : Queries, key : Owners, by : Hosts, value : Values]
Edits == [by : Owners, value : Values]

\* A message to everyone is sent to hosts.
LEMMA EveryoneIsHosts ==
    ASSUME NEW m \in QueryMessages \cup ResponseMessages
    PROVE  \A d \in ToEveryone(m) : d \in [msg : QueryMessages \cup ResponseMessages, to : Hosts] /\ d.msg = m
BY DEF ToEveryone

\* A response with what a host has of a profile is a response.
LEMMA ResponseTyped ==
    ASSUME NEW i \in Queries, NEW k \in Owners, NEW b \in Hosts, NEW v \in Values
    PROVE  [kind |-> "response", id |-> i, key |-> k, by |-> b, value |-> v] \in ResponseMessages
BY Zenon DEF ResponseMessages

DhtTypeOK ==
    /\ dhtTime \in Nat /\ updates \in Nat
    /\ profiles \in [Hosts -> [Owners -> Values]]
    /\ table \in [Hosts -> [Owners -> Records]]
    /\ held \in [Hosts -> OwnRows \cup {NotRead}]
    /\ calls \in [Queries -> Waits \cup {Idle, Done}]
    /\ letters \subseteq [msg : QueryMessages \cup ResponseMessages, to : Hosts]
    /\ edits \subseteq Edits /\ asked \subseteq Queries
    /\ written \in [Owners -> [Fields -> SUBSET Nat]]
    /\ planted \in [Owners -> SUBSET Nat]

\* A message belongs to a call that was made, and names the key of that call: an
\* identifier of a query is never used for another one.
LettersMatch ==
    \A e \in letters : /\ calls[e.msg.id] # Idle
                       /\ calls[e.msg.id] \in Waits => calls[e.msg.id].key = e.msg.key

\* What is on its way to a table or a row is genuine too.
CarriedGenuine ==
    /\ \A k \in Owners : held[k].read => Genuine(k, held[k].value)
    /\ \A d \in edits : Genuine(d.by, d.value)
    /\ \A e \in letters : e.msg.kind = "response" => Genuine(e.msg.key, e.msg.value)

StoredGenuine ==
    \A n \in Hosts, k \in Owners : Genuine(k, profiles[n][k]) /\ Genuine(k, table[n][k].value)

CallsGenuine == \A q \in Queries : calls[q] \in Waits => Genuine(calls[q].key, calls[q].value)

DhtInv ==
    /\ DhtTypeOK /\ LettersMatch /\ PendingIsWaiting
    /\ StoredGenuine /\ CallsGenuine /\ CarriedGenuine

\* The null profile is genuine, and so is what COALESCE makes of two genuine ones.
LEMMA CoalesceGenuine ==
  ASSUME NEW k \in Owners, NEW new \in Values, NEW old \in Values,
         Genuine(k, new), Genuine(k, old)
  PROVE  Coalesce(new, old) \in Values /\ Genuine(k, Coalesce(new, old))
  BY Zenon DEF Values, Coalesce, Genuine

\* put changes one record at most, to the value it is given.
LEMMA PutOne ==
  ASSUME DhtTypeOK, NEW n \in Hosts, NEW k \in Owners, NEW v \in Values
  PROVE  /\ Put(n, k, v) \in [Hosts -> [Owners -> Records]]
         /\ \A x \in Hosts, y \in Owners :
               \/ Put(n, k, v)[x][y] = table[x][y]
               \/ x = n /\ y = k /\ Put(n, k, v)[x][y].value = v
<1> DEFINE r == [value |-> v, till |-> dhtTime + RecordTtl]
<1>1. r \in Records /\ r.value = v
  BY DhtAssumption DEF Records, DhtTypeOK
<1>2. Put(n, k, v) \in {table, [table EXCEPT ![n][k] = r]}
  BY Zenon DEF Put
<1> HIDE DEF r
<1>3. table \in [Hosts -> [Owners -> Records]]
  BY Zenon DEF DhtTypeOK
<1>4. CASE Put(n, k, v) = table
  BY <1>3, <1>4, Zenon
<1>5. CASE Put(n, k, v) = [table EXCEPT ![n][k] = r]
  <2>1. Put(n, k, v) \in [Hosts -> [Owners -> Records]]
    BY <1>1, <1>3, <1>5
  <2>2. \A x \in Hosts, y \in Owners :
           Put(n, k, v)[x][y] = IF x = n /\ y = k THEN r ELSE table[x][y]
    BY <1>3, <1>5
  <2> QED
    BY <1>1, <2>1, <2>2, Zenon
<1> QED
  BY <1>2, <1>4, <1>5, Zenon

\* So a genuine value leaves every record of the table genuine.
LEMMA PutGenuine ==
  ASSUME DhtInv, NEW n \in Hosts, NEW k \in Owners, NEW v \in Values, Genuine(k, v)
  PROVE  /\ Put(n, k, v) \in [Hosts -> [Owners -> Records]]
         /\ \A x \in Hosts, y \in Owners : Genuine(y, Put(n, k, v)[x][y].value)
<1>1. DhtTypeOK /\ StoredGenuine
  BY Zenon DEF DhtInv
<1>2. ASSUME NEW x \in Hosts, NEW y \in Owners
      PROVE  Genuine(y, Put(n, k, v)[x][y].value)
  <2>1. CASE Put(n, k, v)[x][y] = table[x][y]
    BY <1>1, <2>1, Zenon DEF StoredGenuine
  <2>2. CASE y = k /\ Put(n, k, v)[x][y].value = v
    BY <2>2, Zenon
  <2> QED
    BY <1>1, <2>1, <2>2, PutOne
<1> QED
  BY <1>1, <1>2, PutOne, Zenon

\* Storing a genuine profile leaves every row genuine.
LEMMA StoreGenuine ==
  ASSUME DhtInv, NEW n \in Hosts, NEW k \in Owners, NEW v \in Values, Genuine(k, v),
         StoreProfile(n, k, v)
  PROVE  /\ profiles' \in [Hosts -> [Owners -> Values]]
         /\ \A x \in Hosts, y \in Owners : Genuine(y, profiles'[x][y])
<1> DEFINE c == Coalesce(v, profiles[n][k])
<1>1. c \in Values /\ Genuine(k, c)
  BY CoalesceGenuine, Zenon DEF DhtInv, DhtTypeOK, StoredGenuine
<1>2. profiles' = profiles \/ profiles' = [profiles EXCEPT ![n][k] = c]
  BY Zenon DEF StoreProfile
<1> HIDE DEF c
<1>3. profiles \in [Hosts -> [Owners -> Values]]
  BY Zenon DEF DhtInv, DhtTypeOK
<1>4. profiles' \in [Hosts -> [Owners -> Values]]
  BY <1>1, <1>2, <1>3
<1>5. \A x \in Hosts, y \in Owners : profiles'[x][y] = profiles[x][y] \/ (y = k /\ profiles'[x][y] = c)
  BY <1>2, <1>3
<1>6. ASSUME NEW x \in Hosts, NEW y \in Owners PROVE Genuine(y, profiles'[x][y])
  <2>1. CASE profiles'[x][y] = profiles[x][y]
    BY <2>1, Zenon DEF DhtInv, StoredGenuine
  <2>2. CASE y = k /\ profiles'[x][y] = c
    BY <1>1, <2>2, Zenon
  <2> QED
    BY <1>5, <2>1, <2>2, Zenon
<1> QED
  BY <1>4, <1>6, Zenon

\* Unlocked nodes that have published what the owner wrote before.
LEMMA DhtInitInv == DhtInit => DhtInv
<1> SUFFICES ASSUME DhtInit PROVE DhtInv
  BY Zenon
<1> DEFINE first == [Blank EXCEPT ![Written] = 1]
<1>1. Blank \in Values /\ first \in Values
  BY Zenon DEF Blank, Values
<1>2. NoRecord \in Records /\ [value |-> first, till |-> RecordTtl] \in Records
  BY <1>1, DhtAssumption DEF NoRecord, Records
<1>3. \A k \in Owners : Genuine(k, Blank)
  BY Zenon DEF Genuine, Blank
<1>4. Genuine(Elder, first)
  BY DhtAssumption, Zenon DEF Genuine, Blank, DhtInit
<1>5. /\ profiles = [n \in Hosts |-> [k \in Owners |-> IF k = Elder THEN first ELSE Blank]]
      /\ table = [n \in Hosts |-> [k \in Owners |->
                    IF n = Elder /\ k = Elder THEN [value |-> first, till |-> RecordTtl]
                                              ELSE NoRecord]]
  BY Zenon DEF DhtInit
<1> HIDE DEF first
<1>6. DhtTypeOK
  <2>1. profiles \in [Hosts -> [Owners -> Values]] /\ table \in [Hosts -> [Owners -> Records]]
    BY <1>1, <1>2, <1>5, Zenon
  <2>2. written \in [Owners -> [Fields -> SUBSET Nat]]
    BY DEF DhtInit
  <2>3. /\ dhtTime \in Nat /\ updates \in Nat /\ letters = {} /\ edits = {} /\ asked = {}
        /\ planted \in [Owners -> SUBSET Nat]
    BY Zenon DEF DhtInit
  <2>4. held \in [Hosts -> OwnRows \cup {NotRead}] /\ calls \in [Queries -> Waits \cup {Idle, Done}]
    BY Zenon DEF DhtInit
  <2> QED
    BY <2>1, <2>2, <2>3, <2>4, Zenon DEF DhtTypeOK
<1>7. StoredGenuine
  BY <1>3, <1>4, <1>5, Zenon DEF StoredGenuine, NoRecord
<1>8. LettersMatch /\ PendingIsWaiting /\ CallsGenuine
  BY Zenon DEF DhtInit, LettersMatch, PendingIsWaiting, CallsGenuine, Idle, Waits
<1>9. CarriedGenuine
  BY DhtAssumption, Zenon DEF DhtInit, CarriedGenuine, NotRead
<1> QED
  BY <1>6, <1>7, <1>8, <1>9, Zenon DEF DhtInv

\* Every step keeps the invariant.
LEMMA DhtStepInv == DhtInv /\ [DhtNext]_dhtVars => DhtInv'
<1> SUFFICES ASSUME DhtInv, [DhtNext]_dhtVars PROVE DhtInv'
  BY Zenon
<1>0. DhtTypeOK /\ LettersMatch /\ PendingIsWaiting /\ StoredGenuine /\ CallsGenuine /\ CarriedGenuine
  BY Zenon DEF DhtInv
<1>1. UNCHANGED <<profiles, table, written, planted>> => StoredGenuine'
  BY <1>0, Zenon DEF StoredGenuine, Genuine
<1>2. UNCHANGED <<calls, written, planted>> => CallsGenuine'
  BY <1>0, Zenon DEF CallsGenuine, Genuine
<1>3. letters' \subseteq letters /\ UNCHANGED <<held, edits, written, planted>> => CarriedGenuine'
  BY <1>0, Zenon DEF CarriedGenuine, Genuine
<1>4. letters' \subseteq letters /\ UNCHANGED calls => LettersMatch'
  BY <1>0, Zenon DEF LettersMatch
<1>5. UNCHANGED <<asked, calls>> => PendingIsWaiting'
  BY <1>0, Zenon DEF PendingIsWaiting
<1>6. \A k, v : UNCHANGED <<written, planted>> => (Genuine(k, v)' <=> Genuine(k, v))
  BY Zenon DEF Genuine
<1>10. CASE UNCHANGED dhtVars
  BY <1>0, <1>1, <1>2, <1>3, <1>4, <1>5, <1>10, Zenon DEF dhtVars, claims, DhtInv, DhtTypeOK
<1>11. CASE DhtTick
  BY <1>0, <1>1, <1>2, <1>3, <1>4, <1>5, <1>11 DEF DhtTick, claims, DhtInv, DhtTypeOK
<1>12. ASSUME NEW k \in Owners, ReadOwnRow(k) PROVE DhtInv'
  <2>1. k \in Hosts
    BY DhtAssumption, Zenon
  <2> DEFINE row == [read |-> TRUE, value |-> profiles[k][k]]
  <2>2. row \in OwnRows /\ Genuine(k, row.value)
    BY <1>0, <2>1 DEF OwnRows, DhtTypeOK, StoredGenuine
  <2>3. held' = [held EXCEPT ![k] = row]
        /\ UNCHANGED <<dhtTime, profiles, table, asked, calls, letters, edits, written, planted, updates>>
    BY <1>12, Zenon DEF ReadOwnRow, claims
  <2> HIDE DEF row
  <2>4. DhtTypeOK'
    BY <1>0, <2>2, <2>3, Zenon DEF DhtTypeOK
  <2>5. \A j \in Owners : held'[j] = held[j] \/ (j = k /\ held'[j] = row)
    BY <1>0, <2>3, DhtAssumption, Zenon DEF DhtTypeOK
  <2>6. \A j \in Owners : held'[j].read => Genuine(j, held'[j].value)
    BY <1>0, <2>2, <2>5, Zenon DEF CarriedGenuine
  <2>7. CarriedGenuine'
    BY <1>0, <2>3, <2>6, Zenon DEF CarriedGenuine, Genuine
  <2> QED
    BY <1>1, <1>2, <1>4, <1>5, <2>3, <2>4, <2>7, Zenon DEF DhtInv
<1>13. ASSUME NEW k \in Owners, Republish(k) PROVE DhtInv'
  <2>1. k \in Hosts /\ held[k] \in OwnRows /\ Genuine(k, held[k].value)
    BY <1>0, <1>13, DhtAssumption DEF Republish, DhtTypeOK, CarriedGenuine, NotRead
  <2>2. held[k].value \in Values
    BY <2>1, Zenon DEF OwnRows
  <2>3. /\ table' = table \/ table' = Put(k, k, held[k].value)
        /\ held' = [held EXCEPT ![k] = NotRead]
        /\ UNCHANGED <<dhtTime, profiles, asked, calls, letters, edits, written, planted, updates>>
    BY <1>13, Zenon DEF Republish, claims
  <2>4. /\ table' \in [Hosts -> [Owners -> Records]]
        /\ \A x \in Hosts, y \in Owners : Genuine(y, table'[x][y].value)
    <3>1. CASE table' = table
      BY <1>0, <3>1, Zenon DEF DhtTypeOK, StoredGenuine
    <3>2. CASE table' = Put(k, k, held[k].value)
      BY <2>1, <2>2, <3>2, PutGenuine, Zenon
    <3> QED
      BY <2>3, <3>1, <3>2, Zenon
  <2>5. StoredGenuine'
    BY <1>0, <1>6, <2>3, <2>4, Zenon DEF StoredGenuine
  <2>6. \A j \in Owners : held'[j] = held[j] \/ held'[j] = NotRead
    BY <1>0, <2>3, DhtAssumption, Zenon DEF DhtTypeOK
  <2>7. \A j \in Owners : held'[j].read => Genuine(j, held'[j].value)
    BY <1>0, <2>6 DEF CarriedGenuine, NotRead
  <2>8. CarriedGenuine'
    BY <1>0, <2>3, <2>7, Zenon DEF CarriedGenuine, Genuine
  <2>9. DhtTypeOK'
    BY <1>0, <2>3, <2>4, Zenon DEF DhtTypeOK
  <2> QED
    BY <1>2, <1>4, <1>5, <2>3, <2>5, <2>8, <2>9, Zenon DEF DhtInv
<1>14. ASSUME NEW k \in Owners, NEW F \in SUBSET Fields, UpdateProfile(k, F) PROVE DhtInv'
  <2> DEFINE new == [f \in Fields |-> IF f \in F THEN updates + 1 ELSE 0]
             c == Coalesce(new, profiles[k][k])
             w == [f \in Fields |-> IF f \in F THEN written[k][f] \cup {updates'} ELSE written[k][f]]
  <2>1. k \in Hosts /\ updates + 1 \in Nat /\ updates' = updates + 1
    BY <1>0, <1>14, DhtAssumption DEF UpdateProfile, DhtTypeOK
  <2>2. /\ profiles' = [profiles EXCEPT ![k][k] = c]
        /\ written' = [written EXCEPT ![k] = w]
        /\ edits' = edits \cup {[by |-> k, value |-> new]}
        /\ UNCHANGED <<dhtTime, table, asked, calls, letters, held, planted>>
    BY <1>14, Zenon DEF UpdateProfile
  <2>3. new \in Values /\ c \in Values /\ w \in [Fields -> SUBSET Nat]
    BY <1>0, <2>1 DEF Values, Coalesce, DhtTypeOK
  <2>9. [by |-> k, value |-> new] \in Edits
    BY <2>3, Zenon DEF Edits
  <2>4. written'[k] = w /\ \A j \in Owners : j # k => written'[j] = written[j]
    BY <1>0, <2>2, Zenon DEF DhtTypeOK
  <2> DEFINE Now(j, v) == \A f \in Fields : v[f] = 0 \/ v[f] \in written'[j][f] \cup planted'[j]
  <2>5. \A j \in Owners : \A f \in Fields : written[j][f] \subseteq written'[j][f]
    BY <2>4, Zenon
  <2>6. \A j \in Owners : \A v : Genuine(j, v) => Now(j, v)
    BY <2>2, <2>5, Zenon DEF Genuine
  <2>7. Now(k, new)
    BY <2>1, <2>4, Zenon
  <2>8. Now(k, c)
    <3>1. Now(k, profiles[k][k])
      BY <1>0, <2>1, <2>6, Zenon DEF StoredGenuine
    <3>2. \A f \in Fields : c[f] = new[f] \/ c[f] = profiles[k][k][f]
      BY Zenon DEF Coalesce
    <3> HIDE DEF c, new
    <3> QED
      BY <2>7, <3>1, <3>2, Zenon
  <2> HIDE DEF c, new, w
  <2>10. /\ profiles' \in [Hosts -> [Owners -> Values]]
         /\ \A x \in Hosts, y \in Owners : profiles'[x][y] = profiles[x][y] \/ (y = k /\ profiles'[x][y] = c)
    BY <1>0, <2>1, <2>2, <2>3, Zenon DEF DhtTypeOK
  <2>11. DhtTypeOK'
    BY <1>0, <2>1, <2>2, <2>3, <2>9, <2>10, Zenon DEF DhtTypeOK
  <2>12. \A x \in Hosts, y \in Owners : Now(y, profiles'[x][y]) /\ Now(y, table'[x][y].value)
    <3> TAKE x \in Hosts, y \in Owners
    <3>1. Now(y, profiles[x][y]) /\ Now(y, table[x][y].value)
      BY <1>0, <2>6, Zenon DEF StoredGenuine
    <3> HIDE DEF Now
    <3>2. Now(y, profiles'[x][y])
      BY <2>8, <2>10, <3>1, Zenon
    <3>3. Now(y, table'[x][y].value)
      BY <2>2, <3>1, Zenon
    <3> QED
      BY <3>2, <3>3, Zenon
  <2>13. StoredGenuine'
    BY <2>12, Zenon DEF StoredGenuine, Genuine
  <2>14. CallsGenuine'
    <3>1. \A q \in Queries : calls[q] \in Waits => Now(calls[q].key, calls[q].value)
      <4> TAKE q \in Queries
      <4> HAVE calls[q] \in Waits
      <4>1. calls[q].key \in Owners
        BY Zenon DEF Waits
      <4> QED
        BY <1>0, <2>6, <4>1, Zenon DEF CallsGenuine
    <3> QED
      BY <2>2, <3>1, Zenon DEF CallsGenuine, Genuine
  <2>15. CarriedGenuine'
    <3>1. \A j \in Owners : held[j].read => Now(j, held[j].value)
      BY <1>0, <2>6, Zenon DEF CarriedGenuine
    <3>2. \A e \in letters : e.msg.kind = "response" => Now(e.msg.key, e.msg.value)
      <4> TAKE e \in letters
      <4> HAVE e.msg.kind = "response"
      <4>1. e.msg.key \in Owners
        BY <1>0, Zenon DEF DhtTypeOK, QueryMessages, ResponseMessages
      <4> QED
        BY <1>0, <2>6, <4>1, Zenon DEF CarriedGenuine
    <3>3. \A d \in edits' : Now(d.by, d.value)
      <4> TAKE d \in edits'
      <4>1. CASE d \in edits
        BY <1>0, <2>6, <4>1, Zenon DEF DhtTypeOK, Edits, CarriedGenuine
      <4>2. CASE d = [by |-> k, value |-> new]
        BY <2>7, <4>2, Zenon
      <4> QED
        BY <2>2, <4>1, <4>2, Zenon
    <3> QED
      BY <2>2, <3>1, <3>2, <3>3, Zenon DEF CarriedGenuine, Genuine
  <2> QED
    BY <1>4, <1>5, <2>2, <2>11, <2>13, <2>14, <2>15, Zenon DEF DhtInv
<1>141. ASSUME NEW d \in edits, PublishEdit(d) PROVE DhtInv'
  <2>1. d.by \in Owners /\ d.by \in Hosts /\ d.value \in Values /\ Genuine(d.by, d.value)
    BY <1>0, <1>141, DhtAssumption, Zenon DEF DhtTypeOK, Edits, CarriedGenuine
  <2>2. /\ table' = table \/ table' = Put(d.by, d.by, d.value)
        /\ edits' \subseteq edits
        /\ UNCHANGED <<dhtTime, profiles, asked, calls, letters, held, written, planted, updates>>
    BY <1>141, Zenon DEF PublishEdit, claims
  <2>3. /\ table' \in [Hosts -> [Owners -> Records]]
        /\ \A x \in Hosts, y \in Owners : Genuine(y, table'[x][y].value)
    <3>1. CASE table' = table
      BY <1>0, <3>1, Zenon DEF DhtTypeOK, StoredGenuine
    <3>2. CASE table' = Put(d.by, d.by, d.value)
      BY <2>1, <3>2, PutGenuine, Zenon
    <3> QED
      BY <2>2, <3>1, <3>2, Zenon
  <2>4. StoredGenuine'
    BY <1>0, <1>6, <2>2, <2>3, Zenon DEF StoredGenuine
  <2>5. CarriedGenuine'
    BY <1>0, <1>6, <2>2, Zenon DEF CarriedGenuine
  <2>6. DhtTypeOK'
    BY <1>0, <2>2, <2>3, Zenon DEF DhtTypeOK
  <2> QED
    BY <1>2, <1>4, <1>5, <2>2, <2>4, <2>5, <2>6, Zenon DEF DhtInv
<1>142. ASSUME NEW n \in Hosts, NEW k \in Owners, DhtPut(n, k) PROVE DhtInv'
  <2> DEFINE new == [f \in Fields |-> updates + 1]
  <2>1. updates + 1 \in Nat /\ updates' = updates + 1
    BY <1>0, <1>142 DEF DhtPut, DhtTypeOK
  <2>2. /\ planted' = [planted EXCEPT ![k] = @ \cup {updates'}]
        /\ table' = Put(n, k, new)
        /\ UNCHANGED <<dhtTime, profiles, asked, calls, letters, held, edits, written>>
    BY <1>142, Zenon DEF DhtPut
  <2>3. new \in Values
    BY <2>1, Zenon DEF Values
  <2>4. planted'[k] = planted[k] \cup {updates'} /\ \A j \in Owners : j # k => planted'[j] = planted[j]
    BY <1>0, <2>2, Zenon DEF DhtTypeOK
  <2> DEFINE Now(j, v) == \A f \in Fields : v[f] = 0 \/ v[f] \in written'[j][f] \cup planted'[j]
  <2>5. \A j \in Owners : planted[j] \subseteq planted'[j]
    BY <2>4, Zenon
  <2>6. \A j \in Owners : \A v : Genuine(j, v) => Now(j, v)
    BY <2>2, <2>5, Zenon DEF Genuine
  <2>7. Now(k, new)
    BY <2>1, <2>4, Zenon
  <2> HIDE DEF new
  <2>8. /\ table' \in [Hosts -> [Owners -> Records]]
        /\ \A x \in Hosts, y \in Owners : table'[x][y] = table[x][y] \/ (y = k /\ table'[x][y].value = new)
    BY <1>0, <2>2, <2>3, PutOne
  <2>9. planted' \in [Owners -> SUBSET Nat]
    BY <1>0, <2>1, <2>2, Zenon DEF DhtTypeOK
  <2>10. DhtTypeOK'
    BY <1>0, <2>1, <2>2, <2>8, <2>9, Zenon DEF DhtTypeOK
  <2>11. \A x \in Hosts, y \in Owners : Now(y, profiles'[x][y]) /\ Now(y, table'[x][y].value)
    <3> TAKE x \in Hosts, y \in Owners
    <3>1. Now(y, profiles[x][y]) /\ Now(y, table[x][y].value)
      BY <1>0, <2>6, Zenon DEF StoredGenuine
    <3> HIDE DEF Now
    <3>2. Now(y, table'[x][y].value)
      BY <2>7, <2>8, <3>1, Zenon
    <3> QED
      BY <2>2, <3>1, <3>2, Zenon
  <2>12. StoredGenuine'
    BY <2>11, Zenon DEF StoredGenuine, Genuine
  <2>13. CallsGenuine'
    <3>1. \A q \in Queries : calls[q] \in Waits => Now(calls[q].key, calls[q].value)
      <4> TAKE q \in Queries
      <4> HAVE calls[q] \in Waits
      <4>1. calls[q].key \in Owners
        BY Zenon DEF Waits
      <4> QED
        BY <1>0, <2>6, <4>1, Zenon DEF CallsGenuine
    <3> QED
      BY <2>2, <3>1, Zenon DEF CallsGenuine, Genuine
  <2>14. CarriedGenuine'
    <3>1. \A j \in Owners : held[j].read => Now(j, held[j].value)
      BY <1>0, <2>6, Zenon DEF CarriedGenuine
    <3>2. \A e \in letters : e.msg.kind = "response" => Now(e.msg.key, e.msg.value)
      <4> TAKE e \in letters
      <4> HAVE e.msg.kind = "response"
      <4>1. e.msg.key \in Owners
        BY <1>0, Zenon DEF DhtTypeOK, QueryMessages, ResponseMessages
      <4> QED
        BY <1>0, <2>6, <4>1, Zenon DEF CarriedGenuine
    <3>3. \A d \in edits : Now(d.by, d.value)
      BY <1>0, <2>6, Zenon DEF DhtTypeOK, Edits, CarriedGenuine
    <3> QED
      BY <2>2, <3>1, <3>2, <3>3, Zenon DEF CarriedGenuine, Genuine
  <2> QED
    BY <1>4, <1>5, <2>2, <2>10, <2>12, <2>13, <2>14, Zenon DEF DhtInv
<1>15. ASSUME NEW n \in Hosts, LockNode(n) PROVE DhtInv'
  BY <1>0, <1>1, <1>2, <1>3, <1>4, <1>5, <1>15, Zenon DEF LockNode, claims, DhtInv, DhtTypeOK
<1>16. ASSUME NEW n \in Hosts, NEW b \in BOOLEAN, UnlockNode(n, b) PROVE DhtInv'
  <2>1. UNCHANGED <<dhtTime, profiles, asked, calls, letters, held, edits, written, planted, updates>>
    BY <1>16, Zenon DEF UnlockNode, claims
  <2>2. /\ table' \in [Hosts -> [Owners -> Records]]
        /\ \A x \in Hosts, y \in Owners : Genuine(y, table'[x][y].value)
    <3>1. CASE table' = table
      BY <1>0, <3>1, Zenon DEF DhtTypeOK, StoredGenuine
    <3>2. CASE n \in Owners /\ table' = Put(n, n, profiles[n][n])
      <4>1. profiles[n][n] \in Values /\ Genuine(n, profiles[n][n])
        BY <1>0, <3>2, Zenon DEF DhtTypeOK, StoredGenuine
      <4> QED
        BY <3>2, <4>1, PutGenuine, Zenon
    <3> QED
      BY <1>16, <3>1, <3>2, Zenon DEF UnlockNode, claims
  <2>3. StoredGenuine'
    BY <1>0, <1>6, <2>1, <2>2, Zenon DEF StoredGenuine
  <2>4. DhtTypeOK'
    BY <1>0, <2>1, <2>2, Zenon DEF DhtTypeOK
  <2> QED
    BY <1>2, <1>3, <1>4, <1>5, <2>1, <2>3, <2>4, Zenon DEF DhtInv
<1>17. ASSUME NEW n \in Hosts, NEW k \in Owners, NEW b \in BOOLEAN, AskNetwork(n, k, b) PROVE DhtInv'
  <2>1. PICK q \in Queries :
          /\ calls[q] = Idle
          /\ asked' = asked \cup {q}
          /\ calls' = [calls EXCEPT ![q] =
                [state |-> "waiting", by |-> n, key |-> k, fresh |-> b, value |-> Blank]]
          /\ letters' = letters \cup
                ToEveryone([kind |-> "query", id |-> q, key |-> k, by |-> n])
    BY <1>17, Zenon DEF AskNetwork, claims
  <2> DEFINE wait == [state |-> "waiting", by |-> n, key |-> k, fresh |-> b, value |-> Blank]
             msg == [kind |-> "query", id |-> q, key |-> k, by |-> n]
  <2>2. UNCHANGED <<dhtTime, profiles, table, held, edits, written, planted, updates>>
    BY <1>17, Zenon DEF AskNetwork, claims
  <2>3. wait \in Waits /\ wait.state = "waiting" /\ wait.key = k /\ wait.value = Blank /\ wait # Idle
    BY Zenon DEF Waits, Blank, Values, Idle
  <2>4. /\ msg \in QueryMessages /\ msg.id = q /\ msg.key = k /\ msg.kind = "query"
        /\ \A e \in ToEveryone(msg) : e \in [msg : QueryMessages \cup ResponseMessages, to : Hosts] /\ e.msg = msg
    BY DEF QueryMessages, ToEveryone
  <2>5. calls' = [calls EXCEPT ![q] = wait] /\ letters' = letters \cup ToEveryone(msg)
    BY <2>1, Zenon
  <2> HIDE DEF wait, msg
  <2>6. calls'[q] = wait /\ \A j \in Queries : j # q => calls'[j] = calls[j]
    BY <1>0, <2>5, Zenon DEF DhtTypeOK
  <2>7. DhtTypeOK'
    <3>1. calls' \in [Queries -> Waits \cup {Idle, Done}] /\ asked' \subseteq Queries
      BY <1>0, <2>1, <2>3, <2>5, Zenon DEF DhtTypeOK
    <3>2. letters' \subseteq [msg : QueryMessages \cup ResponseMessages, to : Hosts]
      BY <1>0, <2>4, <2>5, Zenon DEF DhtTypeOK
    <3> QED
      BY <1>0, <2>2, <3>1, <3>2, Zenon DEF DhtTypeOK
  <2>8. LettersMatch'
    <3> SUFFICES ASSUME NEW e \in letters'
                 PROVE  /\ calls'[e.msg.id] # Idle
                        /\ calls'[e.msg.id] \in Waits => calls'[e.msg.id].key = e.msg.key
      BY Zenon DEF LettersMatch
    <3>1. CASE e \in letters
      <4>1. e.msg.id \in Queries
        BY <1>0, <3>1, Zenon DEF DhtTypeOK, QueryMessages, ResponseMessages
      <4>2. e.msg.id # q
        BY <1>0, <2>1, <3>1, Zenon DEF LettersMatch
      <4> QED
        BY <1>0, <2>6, <3>1, <4>1, <4>2, Zenon DEF LettersMatch
    <3>2. CASE e \in ToEveryone(msg)
      BY <2>3, <2>4, <2>6, <3>2, Zenon
    <3> QED
      BY <2>5, <3>1, <3>2, Zenon
  <2>9. PendingIsWaiting'
    BY <1>0, <2>1, <2>3, <2>6, Zenon DEF PendingIsWaiting, DhtTypeOK
  <2>10. CallsGenuine'
    <3>1. \A j : Genuine(j, Blank)
      BY Zenon DEF Genuine, Blank
    <3> QED
      BY <1>0, <1>6, <2>2, <2>3, <2>6, <3>1, Zenon DEF CallsGenuine
  <2>11. CarriedGenuine'
    <3>1. \A e \in letters' : e.msg.kind = "response" => e \in letters
      BY <2>4, <2>5, Zenon
    <3> QED
      BY <1>0, <1>6, <2>2, <3>1, Zenon DEF CarriedGenuine
  <2> QED
    BY <1>1, <2>2, <2>7, <2>8, <2>9, <2>10, <2>11, Zenon DEF DhtInv
<1>180. ASSUME NEW q \in Queries, NEW s \in {"late", "dropped"}, calls[q].state \in {"waiting", "answered"},
               calls' = [calls EXCEPT ![q].state = s],
               UNCHANGED <<dhtTime, profiles, table, asked, letters, held, edits, claims>>
        PROVE  DhtInv'
  <2> DEFINE c == [calls[q] EXCEPT !.state = s]
  <2>1. calls[q] \in Waits
    BY <1>0, <1>180 DEF DhtTypeOK, Idle, Done
  <2>2. c \in Waits /\ c.state = s /\ c.value = calls[q].value /\ c.key = calls[q].key
    BY <2>1, Zenon DEF Waits
  <2>3. calls' = [calls EXCEPT ![q] = c]
    BY <1>180, Zenon
  <2>4. c # Idle
    BY <2>2, Zenon DEF Idle
  <2> HIDE DEF c
  <2>5. calls'[q] = c /\ \A j \in Queries : j # q => calls'[j] = calls[j]
    BY <1>0, <2>3, Zenon DEF DhtTypeOK
  <2>6. UNCHANGED <<dhtTime, profiles, table, asked, letters, held, edits, written, planted, updates>>
    BY <1>180, Zenon DEF claims
  <2>7. DhtTypeOK'
    BY <1>0, <2>2, <2>3, <2>6, Zenon DEF DhtTypeOK
  <2>8. \A d \in letters : d.msg.id \in Queries
    BY <1>0, Zenon DEF DhtTypeOK, QueryMessages, ResponseMessages
  <2>9. LettersMatch'
    BY <1>0, <2>1, <2>2, <2>4, <2>5, <2>6, <2>8, Zenon DEF LettersMatch
  <2>10. PendingIsWaiting'
    BY <1>0, <2>2, <2>5, <2>6, Zenon DEF PendingIsWaiting, DhtTypeOK
  <2>11. CallsGenuine'
    BY <1>0, <1>6, <2>1, <2>2, <2>5, <2>6, Zenon DEF CallsGenuine
  <2> QED
    BY <1>1, <1>3, <2>6, <2>7, <2>9, <2>10, <2>11, Zenon DEF DhtInv
<1>18. ASSUME NEW q \in Queries, TimeOut(q) \/ DropCall(q) PROVE DhtInv'
  <2>1. CASE TimeOut(q)
    BY <1>180, <2>1, Zenon DEF TimeOut
  <2>2. CASE DropCall(q)
    BY <1>180, <2>2, Zenon DEF DropCall
  <2> QED
    BY <1>18, <2>1, <2>2, Zenon
<1>181. ASSUME NEW q \in Queries, ForgetQuery(q) PROVE DhtInv'
  <2>1. /\ calls[q].state = "late" /\ calls' = [calls EXCEPT ![q] = Done] /\ asked' = asked \ {q}
        /\ UNCHANGED <<dhtTime, profiles, table, letters, held, edits, written, planted, updates>>
    BY <1>181, Zenon DEF ForgetQuery, claims
  <2>2. calls'[q] = Done /\ \A j \in Queries : j # q => calls'[j] = calls[j]
    BY <1>0, <2>1, Zenon DEF DhtTypeOK
  <2>3. Done \notin Waits /\ Done # Idle /\ Done.state # "waiting"
    BY Zenon DEF Done, Idle, Waits
  <2>4. DhtTypeOK'
    BY <1>0, <2>1, Zenon DEF DhtTypeOK
  <2>5. \A e \in letters : e.msg.id \in Queries
    BY <1>0, Zenon DEF DhtTypeOK, QueryMessages, ResponseMessages
  <2>6. LettersMatch'
    BY <1>0, <2>1, <2>2, <2>3, <2>5, Zenon DEF LettersMatch
  <2>7. PendingIsWaiting'
    BY <1>0, <2>1, <2>2, <2>3, Zenon DEF PendingIsWaiting, DhtTypeOK
  <2>8. CallsGenuine'
    BY <1>0, <1>6, <2>1, <2>2, <2>3, Zenon DEF CallsGenuine
  <2> QED
    BY <1>1, <1>3, <2>1, <2>4, <2>6, <2>7, <2>8, Zenon DEF DhtInv
<1>19. ASSUME NEW q \in Queries, Return(q) PROVE DhtInv'
  <2>1. /\ calls[q].state = "answered" /\ calls' = [calls EXCEPT ![q] = Done]
        /\ UNCHANGED <<dhtTime, table, asked, letters, held, edits, written, planted, updates>>
    BY <1>19, Zenon DEF Return, claims
  <2>2. calls'[q] = Done /\ \A j \in Queries : j # q => calls'[j] = calls[j]
    BY <1>0, <2>1, Zenon DEF DhtTypeOK
  <2>3. Done \notin Waits /\ Done # Idle /\ Done.state # "waiting"
    BY Zenon DEF Done, Idle, Waits
  <2>4. calls[q] \in Waits
    BY <1>0, <2>1 DEF DhtTypeOK, Idle, Done
  <2>5. /\ profiles' \in [Hosts -> [Owners -> Values]]
        /\ \A x \in Hosts, y \in Owners : Genuine(y, profiles'[x][y])
    <3>1. CASE profiles' = profiles
      BY <1>0, <3>1, Zenon DEF DhtTypeOK, StoredGenuine
    <3>2. CASE StoreProfile(calls[q].by, calls[q].key, calls[q].value)
      <4>1. calls[q].by \in Hosts /\ calls[q].key \in Owners /\ calls[q].value \in Values
        BY <2>4, Zenon DEF Waits
      <4>2. Genuine(calls[q].key, calls[q].value)
        BY <1>0, <2>4, Zenon DEF CallsGenuine
      <4> QED
        BY <3>2, <4>1, <4>2, StoreGenuine, Zenon
    <3> QED
      BY <1>19, <3>1, <3>2, Zenon DEF Return, claims
  <2>6. DhtTypeOK'
    BY <1>0, <2>1, <2>5, Zenon DEF DhtTypeOK
  <2>7. StoredGenuine'
    BY <1>0, <1>6, <2>1, <2>5, Zenon DEF StoredGenuine
  <2>8. \A e \in letters : e.msg.id \in Queries
    BY <1>0, Zenon DEF DhtTypeOK, QueryMessages, ResponseMessages
  <2>9. LettersMatch'
    BY <1>0, <2>1, <2>2, <2>3, <2>8, Zenon DEF LettersMatch
  <2>10. PendingIsWaiting'
    BY <1>0, <2>1, <2>2, <2>3 DEF PendingIsWaiting, DhtTypeOK
  <2>11. CallsGenuine'
    BY <1>0, <1>6, <2>1, <2>2, <2>3, Zenon DEF CallsGenuine
  <2> QED
    BY <1>3, <2>1, <2>6, <2>7, <2>9, <2>10, <2>11, Zenon DEF DhtInv
<1>20. ASSUME NEW n \in Hosts, NEW k \in Owners, RefreshProfile(n, k) PROVE DhtInv'
  <2>1. UNCHANGED <<dhtTime, table, asked, calls, letters, held, edits, written, planted, updates>>
        /\ StoreProfile(n, k, table[n][k].value)
    BY <1>20, Zenon DEF RefreshProfile, claims
  <2>2. table[n][k].value \in Values /\ Genuine(k, table[n][k].value)
    BY <1>0, Zenon DEF DhtTypeOK, Records, StoredGenuine
  <2>3. /\ profiles' \in [Hosts -> [Owners -> Values]]
        /\ \A x \in Hosts, y \in Owners : Genuine(y, profiles'[x][y])
    BY <2>1, <2>2, StoreGenuine, Zenon
  <2>4. DhtTypeOK'
    BY <1>0, <2>1, <2>3, Zenon DEF DhtTypeOK
  <2>5. StoredGenuine'
    BY <1>0, <1>6, <2>1, <2>3, Zenon DEF StoredGenuine
  <2> QED
    BY <1>2, <1>3, <1>4, <1>5, <2>1, <2>4, <2>5, Zenon DEF DhtInv
<1>21. ASSUME NEW n \in Hosts, NEW t \in [Owners -> Records],
              \A y \in Owners : t[y] = table[n][y] \/ t[y] = NoRecord,
              table' = [table EXCEPT ![n] = t], UNCHANGED <<profiles, written, planted>>
       PROVE  table' \in [Hosts -> [Owners -> Records]] /\ StoredGenuine'
  <2>1. table' \in [Hosts -> [Owners -> Records]]
    BY <1>0, <1>21, Zenon DEF DhtTypeOK
  <2>2. \A x \in Hosts, y \in Owners : table'[x][y] = table[x][y] \/ table'[x][y] = NoRecord
    BY <1>0, <1>21, Zenon DEF DhtTypeOK
  <2>3. \A y \in Owners : Genuine(y, NoRecord.value)
    BY Zenon DEF NoRecord, Blank, Genuine
  <2>4. \A x \in Hosts, y \in Owners : Genuine(y, table'[x][y].value)
    BY <1>0, <2>2, <2>3, Zenon DEF StoredGenuine
  <2> QED
    BY <1>0, <1>6, <1>21, <2>1, <2>4, Zenon DEF StoredGenuine
<1>22. NoRecord \in Records
  BY DEF NoRecord, Records, Blank, Values
<1>23. ASSUME NEW n \in Hosts, SweepExpired(n) PROVE DhtInv'
  <2> DEFINE t == [k \in Owners |-> IF Live(n, k) THEN table[n][k] ELSE NoRecord]
  <2>1. table' = [table EXCEPT ![n] = t]
        /\ UNCHANGED <<dhtTime, profiles, asked, calls, letters, held, edits, written, planted, updates>>
    BY <1>23, Zenon DEF SweepExpired, claims
  <2>2. t \in [Owners -> Records] /\ \A y \in Owners : t[y] = table[n][y] \/ t[y] = NoRecord
    BY <1>0, <1>22, Zenon DEF DhtTypeOK
  <2> HIDE DEF t
  <2>3. table' \in [Hosts -> [Owners -> Records]] /\ StoredGenuine'
    BY <1>21, <2>1, <2>2, Zenon
  <2>4. DhtTypeOK'
    BY <1>0, <2>1, <2>3, Zenon DEF DhtTypeOK
  <2> QED
    BY <1>2, <1>3, <1>4, <1>5, <2>1, <2>3, <2>4, Zenon DEF DhtInv
<1>24. ASSUME NEW e \in letters, LoseLetter(e) PROVE DhtInv'
  <2>1. letters' \subseteq letters
        /\ UNCHANGED <<dhtTime, profiles, table, asked, calls, held, edits, written, planted, updates>>
    BY <1>24, Zenon DEF LoseLetter, claims
  <2>2. DhtTypeOK'
    BY <1>0, <2>1, Zenon DEF DhtTypeOK
  <2> QED
    BY <1>1, <1>2, <1>3, <1>4, <1>5, <2>1, <2>2, Zenon DEF DhtInv
<1>25. ASSUME NEW n \in Hosts, RestartHost(n) PROVE DhtInv'
  <2> DEFINE own == {q \in Queries : calls[q] \notin {Idle, Done} /\ calls[q].by = n}
             t == [k \in Owners |-> NoRecord]
  <2>1. /\ table' = [table EXCEPT ![n] = t]
        /\ asked' = asked \ own
        /\ calls' = [q \in Queries |-> IF q \in own THEN Done ELSE calls[q]]
        /\ letters' \subseteq letters
        /\ held' = [held EXCEPT ![n] = NotRead]
        /\ edits' \subseteq edits
        /\ UNCHANGED <<dhtTime, profiles, written, planted, updates>>
    BY <1>25, Zenon DEF RestartHost, claims
  <2>2. t \in [Owners -> Records] /\ \A y \in Owners : t[y] = NoRecord
    BY <1>22, Zenon
  <2> HIDE DEF t, own
  <2>3. table' \in [Hosts -> [Owners -> Records]] /\ StoredGenuine'
    BY <1>21, <2>1, <2>2, Zenon
  <2>4. DhtTypeOK'
    BY <1>0, <2>1, <2>3, Zenon DEF DhtTypeOK
  <2>5. Done \notin Waits /\ Done # Idle /\ Done.state # "waiting"
    BY Zenon DEF Done, Idle, Waits
  <2>6. \A q \in Queries : calls'[q] = IF q \in own THEN Done ELSE calls[q]
    BY <2>1, Zenon
  <2>7. \A e \in letters : e.msg.id \in Queries
    BY <1>0, Zenon DEF DhtTypeOK, QueryMessages, ResponseMessages
  <2>8. LettersMatch'
    BY <1>0, <2>1, <2>5, <2>6, <2>7, Zenon DEF LettersMatch
  <2>9. PendingIsWaiting'
    BY <1>0, <2>1, <2>5, <2>6, Zenon DEF PendingIsWaiting, DhtTypeOK
  <2>10. CallsGenuine'
    BY <1>0, <1>6, <2>1, <2>5, <2>6, Zenon DEF CallsGenuine
  <2>11. \A j \in Owners : held'[j] = held[j] \/ held'[j] = NotRead
    BY <1>0, <2>1, DhtAssumption, Zenon DEF DhtTypeOK
  <2>12. \A j \in Owners : held'[j].read => Genuine(j, held'[j].value)
    BY <1>0, <2>11 DEF CarriedGenuine, NotRead
  <2>13. CarriedGenuine'
    BY <1>0, <1>6, <2>1, <2>12, Zenon DEF CarriedGenuine
  <2> QED
    BY <2>3, <2>4, <2>8, <2>9, <2>10, <2>13, Zenon DEF DhtInv
<1>26. ASSUME NEW e \in letters, e.msg.kind = "query", Ingest(e) PROVE DhtInv'
  <2> DEFINE msg == [kind |-> "response", id |-> e.msg.id, key |-> e.msg.key,
                     by |-> e.to, value |-> table[e.to][e.msg.key].value]
  <2>1. e.msg.id \in Queries /\ e.msg.key \in Owners /\ e.to \in Hosts
    BY <1>0, Zenon DEF DhtTypeOK, QueryMessages, ResponseMessages
  <2>2. table[e.to][e.msg.key].value \in Values /\ Genuine(e.msg.key, table[e.to][e.msg.key].value)
    BY <1>0, <2>1, Zenon DEF DhtTypeOK, Records, StoredGenuine
  <2>3. /\ letters' \subseteq letters \cup ToEveryone(msg)
        /\ UNCHANGED <<dhtTime, profiles, table, asked, calls, held, edits, written, planted, updates>>
    BY <1>26, Zenon DEF Ingest, HandleQuery, claims
  <2>4. /\ msg \in ResponseMessages /\ msg.id = e.msg.id /\ msg.key = e.msg.key
        /\ Genuine(msg.key, msg.value)
    <3>1. msg.id = e.msg.id /\ msg.key = e.msg.key /\ msg.value = table[e.to][e.msg.key].value
      BY Zenon
    <3>2. msg \in ResponseMessages
      BY <2>1, <2>2, ResponseTyped, Zenon
    <3> HIDE DEF msg
    <3> QED
      BY <2>2, <3>1, <3>2, Zenon
  <2>5. \A d \in ToEveryone(msg) : d \in [msg : QueryMessages \cup ResponseMessages, to : Hosts] /\ d.msg = msg
    BY <2>4, EveryoneIsHosts, Zenon
  <2> HIDE DEF msg
  <2>6. DhtTypeOK'
    BY <1>0, <2>3, <2>5, Zenon DEF DhtTypeOK
  <2>7. LettersMatch'
    <3>1. \A d \in letters' : \E o \in letters : d.msg.id = o.msg.id /\ d.msg.key = o.msg.key
      BY <2>3, <2>4, <2>5, Zenon
    <3> QED
      BY <1>0, <2>3, <3>1, Zenon DEF LettersMatch
  <2>8. CarriedGenuine'
    <3>1. \A d \in letters' : d.msg.kind = "response" => Genuine(d.msg.key, d.msg.value)
      <4>1. \A d \in letters : d.msg.kind = "response" => Genuine(d.msg.key, d.msg.value)
        BY <1>0, Zenon DEF CarriedGenuine
      <4>2. \A d \in ToEveryone(msg) : Genuine(d.msg.key, d.msg.value)
        BY <2>4, <2>5, Zenon
      <4> QED
        BY <2>3, <4>1, <4>2, Zenon
    <3> QED
      BY <1>0, <1>6, <2>3, <3>1, Zenon DEF CarriedGenuine
  <2> QED
    BY <1>1, <1>2, <1>5, <2>3, <2>6, <2>7, <2>8, Zenon DEF DhtInv
<1>27. ASSUME NEW e \in letters, e.msg.kind = "response", Ingest(e) PROVE DhtInv'
  <2> DEFINE q == e.msg.id
             v == e.msg.value
  <2>1. e \in [msg : ResponseMessages, to : Hosts]
    BY <1>0, <1>27, Zenon DEF DhtTypeOK, QueryMessages
  <2>2. q \in Queries /\ e.msg.key \in Owners /\ e.to \in Hosts /\ v \in Values
    BY <2>1, Zenon DEF ResponseMessages
  <2>3. Genuine(e.msg.key, v)
    BY <1>0, <1>27, Zenon DEF CarriedGenuine
  <2>4. /\ letters' \subseteq letters
        /\ table' = table \/ table' = Put(e.to, e.msg.key, v)
        /\ \/ UNCHANGED <<asked, calls>>
           \/ asked' = asked \ {q} /\ calls[q].state # "waiting" /\ UNCHANGED calls
           \/ /\ calls[q].state = "waiting" /\ asked' = asked \ {q}
              /\ calls' = [calls EXCEPT ![q].state = "answered", ![q].value = v]
        /\ UNCHANGED <<dhtTime, profiles, held, edits, written, planted, updates>>
    BY <1>27, Zenon DEF Ingest, HandleResponse, claims
  <2> HIDE DEF q, v
  <2>5. /\ table' \in [Hosts -> [Owners -> Records]]
        /\ \A x \in Hosts, y \in Owners : Genuine(y, table'[x][y].value)
    <3>1. CASE table' = table
      BY <1>0, <3>1, Zenon DEF DhtTypeOK, StoredGenuine
    <3>2. CASE table' = Put(e.to, e.msg.key, v)
      BY <2>2, <2>3, <3>2, PutGenuine, Zenon
    <3> QED
      BY <2>4, <3>1, <3>2, Zenon
  <2>6. StoredGenuine'
    BY <1>0, <1>6, <2>4, <2>5, Zenon DEF StoredGenuine
  <2>7. CASE UNCHANGED <<asked, calls>>
    <3>1. DhtTypeOK'
      BY <1>0, <2>4, <2>5, <2>7, Zenon DEF DhtTypeOK
    <3> QED
      BY <1>2, <1>3, <1>4, <1>5, <2>4, <2>6, <2>7, <3>1, Zenon DEF DhtInv
  <2>70. CASE asked' = asked \ {q} /\ calls[q].state # "waiting" /\ UNCHANGED calls
    <3>1. DhtTypeOK'
      BY <1>0, <2>4, <2>5, <2>70, Zenon DEF DhtTypeOK
    <3>2. PendingIsWaiting'
      BY <1>0, <2>70, Zenon DEF PendingIsWaiting
    <3> QED
      BY <1>2, <1>3, <1>4, <2>4, <2>6, <2>70, <3>1, <3>2, Zenon DEF DhtInv
  <2>8. CASE /\ calls[q].state = "waiting" /\ asked' = asked \ {q}
             /\ calls' = [calls EXCEPT ![q].state = "answered", ![q].value = v]
    <3> DEFINE c == [calls[q] EXCEPT !.state = "answered", !.value = v]
    <3>1. calls[q] \in Waits
      BY <1>0, <2>2, <2>8 DEF DhtTypeOK, Idle, Done
    <3>2. c \in Waits /\ c.state = "answered" /\ c.value = v /\ c.key = calls[q].key
      BY <2>2, <3>1, Zenon DEF Waits
    <3>3. calls' = [calls EXCEPT ![q] = c]
      BY <2>8, Zenon
    <3>4. c # Idle
      BY <3>2, Zenon DEF Idle
    <3> HIDE DEF c
    <3>5. calls'[q] = c /\ \A j \in Queries : j # q => calls'[j] = calls[j]
      BY <1>0, <2>2, <3>3, Zenon DEF DhtTypeOK
    <3>6. DhtTypeOK'
      BY <1>0, <2>4, <2>5, <2>8, <3>2, <3>3, Zenon DEF DhtTypeOK
    <3>7. calls[q].key = e.msg.key
      BY <1>0, <3>1, Zenon DEF LettersMatch, q
    <3>8. \A d \in letters : d.msg.id \in Queries
      BY <1>0, Zenon DEF DhtTypeOK, QueryMessages, ResponseMessages
    <3>9. LettersMatch'
      BY <1>0, <2>4, <3>1, <3>2, <3>4, <3>5, <3>8, Zenon DEF LettersMatch
    <3>10. PendingIsWaiting'
      BY <1>0, <2>8, <3>2, <3>5 DEF PendingIsWaiting, DhtTypeOK
    <3>11. CallsGenuine'
      BY <1>0, <1>6, <2>3, <2>4, <3>2, <3>5, <3>7, Zenon DEF CallsGenuine
    <3> QED
      BY <1>3, <2>4, <2>6, <3>6, <3>9, <3>10, <3>11, Zenon DEF DhtInv
  <2> QED
    BY <2>4, <2>7, <2>70, <2>8, Zenon
<1>28. ASSUME NEW e \in letters, Ingest(e) PROVE DhtInv'
  BY <1>26, <1>27, <1>28, Zenon DEF Ingest
<1> QED
  BY <1>10, <1>11, <1>12, <1>13, <1>14, <1>141, <1>142, <1>15, <1>16, <1>17, <1>18, <1>181,
     <1>19, <1>20, <1>23, <1>24, <1>25, <1>28, Zenon DEF DhtNext

\* The invariant holds in every state of the DHT.
THEOREM DhtInvariance == DhtSpec => []DhtInv
  BY DhtInitInv, DhtStepInv, PTL DEF DhtSpec

\* Whoever waits has its entry in pending_dht_queries, and an entry is of a call that
\* waits, is timing out or was dropped at its await, whatever arrives late or twice
\* or restarts (handle_response, query_network_dht_inner).
THEOREM PendingExact == DhtSpec => []PendingIsWaiting
  BY DhtInvariance, PTL DEF DhtInv

\* Every field of a profile that a node stores, caches or is answered with was put
\* under that key and in that field, by its owner's update or with dht.put (which
\* nobody verifies), through any number of caches and COALESCE updates.
THEOREM ProfilesAlwaysGenuine == DhtSpec => []ProfilesGenuine
<1>1. DhtInv => ProfilesGenuine
  BY Zenon DEF DhtInv, DhtTypeOK, StoredGenuine, CallsGenuine, ProfilesGenuine
<1> QED
  BY <1>1, DhtInvariance, PTL

\* No step empties a field of a stored profile, although records carry nulls
\* (store_profile_from_dht, update).
THEOREM FieldsNeverLost == DhtSpec => FieldsKept
<1> DEFINE Kept == \A n \in Hosts, k \in Owners, f \in Fields :
                      profiles[n][k][f] # 0 => profiles'[n][k][f] # 0
<1>1. DhtInv /\ [DhtNext]_dhtVars => [Kept]_dhtVars
  <2> SUFFICES ASSUME DhtInv, DhtNext PROVE Kept
    BY Zenon
  <2>0. profiles \in [Hosts -> [Owners -> Values]]
    BY Zenon DEF DhtInv, DhtTypeOK
  <2>1. ASSUME NEW n, NEW k, NEW v, profiles' = [profiles EXCEPT ![n][k] = Coalesce(v, @)]
        PROVE  Kept
    <3>1. \A x \in Hosts, y \in Owners :
             profiles'[x][y] = IF x = n /\ y = k THEN Coalesce(v, profiles[x][y]) ELSE profiles[x][y]
      BY <2>0, <2>1, Zenon
    <3>2. \A old : \A f \in Fields : old[f] # 0 => Coalesce(v, old)[f] # 0
      BY Zenon DEF Coalesce
    <3> QED
      BY <3>1, <3>2
  <2>2. CASE profiles' = profiles
    BY <2>2, Zenon
  <2>3. ASSUME NEW n, NEW k, NEW v, StoreProfile(n, k, v) PROVE Kept
    BY <2>1, <2>2, <2>3, Zenon DEF StoreProfile
  <2>4. ASSUME NEW k \in Owners, NEW F \in SUBSET Fields, UpdateProfile(k, F) PROVE Kept
    BY <2>1, <2>4, ZenonT(30) DEF UpdateProfile
  <2>5. ASSUME NEW q \in Queries, Return(q) PROVE Kept
    BY <2>2, <2>3, <2>5, Zenon DEF Return, claims
  <2>6. ASSUME NEW n \in Hosts, NEW k \in Owners, RefreshProfile(n, k) PROVE Kept
    BY <2>3, <2>6, Zenon DEF RefreshProfile, claims
  <2> HIDE DEF Kept
  <2> QED
    BY <2>2, <2>4, <2>5, <2>6, Zenon DEF DhtNext, DhtTick, Republish, ReadOwnRow, LockNode, SweepExpired,
       RestartHost, UnlockNode, AskNetwork, Ingest, LoseLetter, TimeOut, PublishEdit, DhtPut,
       ForgetQuery, DropCall
<1> QED
  BY <1>1, DhtInvariance, PTL DEF DhtSpec, FieldsKept

-----------------------------------------------------------------------------
(* The table of peers. *)

Tasks == [setup : BOOLEAN, writer : {"none", "run", "ended"}, reader : {"none", "run"}]
Ends == UNION {[S -> Tasks] : S \in SUBSET Endpoints}
LinkRecords == [ends : SUBSET Endpoints, open : BOOLEAN]

\* The two ends of every connection, each with its tasks.
LinksOK ==
    /\ links \in Seq(LinkRecords) /\ tasks \in Seq(Ends) /\ Len(tasks) = Len(links)
    /\ \A c \in LinkIds : tasks[c] \in [links[c].ends -> Tasks]
    /\ \A c \in LinkIds : \E n, m \in Endpoints : n # m /\ links[c].ends = {n, m}

\* Every entry of the table is of a connection with that peer, which is set up and
\* whose writer has not cleaned up.
EntryOK(n, m, c) ==
    /\ c \in LinkIds /\ links[c].ends = {n, m} /\ n # m
    /\ ~tasks[c][n].setup /\ tasks[c][n].writer \in {"run", "ended"}

PeersInv ==
    /\ LinksOK
    /\ peers \in [Endpoints -> [Endpoints -> Nat \cup {NoLink}]]
    /\ \A n, m \in Endpoints : peers[n][m] # NoLink => EntryOK(n, m, peers[n][m])

\* What makes an entry right after a step.
LEMMA EntryAfter ==
    ASSUME NEW k, NEW j, NEW d, peers'[k][j] = d, d \in LinkIds', links'[d].ends = {k, j}, k # j,
           ~tasks'[d][k].setup, tasks'[d][k].writer \in {"run", "ended"}
    PROVE  EntryOK(k, j, peers[k][j])'
BY Zenon DEF EntryOK

\* The far end of a connection.
LEMMA FarEnd ==
    ASSUME LinksOK, NEW c \in LinkIds, NEW n \in links[c].ends
    PROVE  n \in Endpoints /\ Far(c, n) \in Endpoints /\ Far(c, n) # n /\ links[c].ends = {n, Far(c, n)}
<1>1. PICK x, y \in Endpoints : x # y /\ links[c].ends = {x, y}
  BY Zenon DEF LinksOK
<1>2. \E m \in links[c].ends : m # n
  BY <1>1, Zenon
<1>3. Far(c, n) \in links[c].ends /\ Far(c, n) # n
  BY <1>2, Zenon DEF Far
<1> QED
  BY <1>1, <1>3

\* A side that goes on with other tasks leaves the shape of the connections, and
\* the tasks of every other side.
LEMMA ContinueKeeps ==
    ASSUME LinksOK, NEW c \in LinkIds, NEW n \in links[c].ends, NEW t \in Tasks, Continue(c, n, t)
    PROVE  /\ LinksOK' /\ Len(links') = Len(links)
           /\ \A d \in LinkIds : links'[d].ends = links[d].ends /\ (d # c => links'[d] = links[d])
           /\ tasks'[c][n] = t
           /\ \A d \in LinkIds : \A k \in links[d].ends : d # c \/ k # n => tasks'[d][k] = tasks[d][k]
<1>1. tasks' = [tasks EXCEPT ![c] = [tasks[c] EXCEPT ![n] = t]]
  BY Zenon DEF Continue
<1>2. links' = links \/ links' = [links EXCEPT ![c] = [links[c] EXCEPT !.open = FALSE]]
  BY Zenon DEF Continue
<1>3. c \in 1 .. Len(links) /\ c \in 1 .. Len(tasks) /\ links[c] \in LinkRecords /\ Len(links) \in Nat
  BY DEF LinksOK, LinkIds
<1>4. [tasks[c] EXCEPT ![n] = t] \in [links[c].ends -> Tasks]
  BY Zenon DEF LinksOK
<1>5. [links[c] EXCEPT !.open = FALSE] \in LinkRecords /\ [links[c] EXCEPT !.open = FALSE].ends = links[c].ends
  BY <1>3, Zenon DEF LinkRecords
<1>6. [tasks[c] EXCEPT ![n] = t] \in Ends
  BY <1>3, <1>4, Zenon DEF Ends, LinkRecords
<1> HIDE DEF LinkRecords, Ends, Tasks
<1>7. links' \in Seq(LinkRecords) /\ Len(links') = Len(links)
      /\ \A d \in LinkIds : links'[d].ends = links[d].ends /\ (d # c => links'[d] = links[d])
  <2>1. CASE links' = links
    BY <2>1, Zenon DEF LinksOK
  <2>2. CASE links' = [links EXCEPT ![c] = [links[c] EXCEPT !.open = FALSE]]
    <3> DEFINE l == [links[c] EXCEPT !.open = FALSE]
    <3>1. l \in LinkRecords /\ l.ends = links[c].ends /\ links' = [links EXCEPT ![c] = l]
      BY <1>5, <2>2, Zenon
    <3> HIDE DEF l
    <3> QED
      BY <1>3, <3>1 DEF LinksOK, LinkIds
  <2> QED
    BY <1>2, <2>1, <2>2, Zenon
<1>8. tasks' \in Seq(Ends) /\ Len(tasks') = Len(tasks)
      /\ \A d \in LinkIds : tasks'[d] = IF d = c THEN [tasks[c] EXCEPT ![n] = t] ELSE tasks[d]
  BY <1>1, <1>3, <1>6 DEF LinksOK, LinkIds
<1>9. LinkIds' = LinkIds
  BY <1>7, Zenon DEF LinkIds
<1>10. \A d \in LinkIds : tasks'[d] \in [links'[d].ends -> Tasks]
  BY <1>4, <1>7, <1>8, Zenon DEF LinksOK
<1>11. \A d \in LinkIds : \E x, y \in Endpoints : x # y /\ links'[d].ends = {x, y}
  BY <1>7 DEF LinksOK
<1>12. LinksOK'
  BY <1>7, <1>8, <1>9, <1>10, <1>11, Zenon DEF LinksOK
<1>13. tasks'[c][n] = t
  BY <1>4, <1>8, Zenon DEF LinksOK
<1>14. \A d \in LinkIds : \A k \in links[d].ends : d # c \/ k # n => tasks'[d][k] = tasks[d][k]
  BY <1>8, SMTT(30) DEF LinksOK
<1> QED
  BY <1>7, <1>12, <1>13, <1>14, Zenon

\* The entries stay in order when a side goes on, unless the side is of an entry and
\* has cleaned up.
LEMMA EntriesKept ==
    ASSUME PeersInv, NEW c \in LinkIds, NEW n \in links[c].ends, NEW t \in Tasks, Continue(c, n, t),
           peers' = peers,
           c # NoLink /\ peers[n][Far(c, n)] = c => ~t.setup /\ t.writer \in {"run", "ended"}
    PROVE  PeersInv'
<1>1. /\ LinksOK' /\ Len(links') = Len(links) /\ tasks'[c][n] = t
      /\ \A d \in LinkIds : links'[d].ends = links[d].ends
      /\ \A d \in LinkIds : \A k \in links[d].ends : d # c \/ k # n => tasks'[d][k] = tasks[d][k]
  BY ContinueKeeps DEF PeersInv
<1>2. LinkIds' = LinkIds
  BY <1>1, Zenon DEF LinkIds
<1>3. Far(c, n) # n /\ links[c].ends = {n, Far(c, n)}
  BY FarEnd, Zenon DEF PeersInv
<1>4. ASSUME NEW k \in Endpoints, NEW m \in Endpoints, peers[k][m] # NoLink
      PROVE  EntryOK(k, m, peers[k][m])'
  <2> DEFINE d == peers[k][m]
  <2>1. d \in LinkIds /\ links[d].ends = {k, m} /\ k # m /\ ~tasks[d][k].setup
        /\ tasks[d][k].writer \in {"run", "ended"}
    BY <1>4, Zenon DEF PeersInv, EntryOK
  <2>2. CASE d = c /\ k = n
    <3>1. m = Far(c, n)
      BY <1>3, <2>1, <2>2, Zenon
    <3>2. ~t.setup /\ t.writer \in {"run", "ended"}
      BY <1>4, <2>2, <3>1, Zenon
    <3> QED
      BY <1>1, <1>2, <2>1, <2>2, <3>2, Zenon DEF EntryOK
  <2>3. CASE ~(d = c /\ k = n)
    <3>1. tasks'[d][k] = tasks[d][k] /\ links'[d].ends = links[d].ends
      BY <1>1, <2>1, <2>3, Zenon
    <3> QED
      BY <1>2, <2>1, <3>1, Zenon DEF EntryOK
  <2> QED
    BY <2>2, <2>3, Zenon
<1> QED
  BY <1>1, <1>4, Zenon DEF PeersInv

\* setup_connection registers a connection only when there is no entry, and then with
\* a writer.
LEMMA SetupKeeps ==
    ASSUME PeersInv, NEW c \in LinkIds, NEW n \in links[c].ends, SetupConnection(n, c)
    PROVE  PeersInv'
<1> DEFINE m == Far(c, n)
<1>1. n \in Endpoints /\ m \in Endpoints /\ m # n /\ links[c].ends = {n, m} /\ LinksOK
  BY FarEnd, Zenon DEF PeersInv
<1>2. tasks[c][n].setup
  BY Zenon DEF SetupConnection
<1>3. CASE peers[n][m] # NoLink
  <2>1. Continue(c, n, NoTasks) /\ peers' = peers
    BY <1>3, Zenon DEF SetupConnection
  <2>2. peers[n][m] # c
    BY <1>1, <1>2, <1>3, Zenon DEF PeersInv, EntryOK
  <2>3. NoTasks \in Tasks
    BY Zenon DEF NoTasks, Tasks
  <2> QED
    BY <2>1, <2>2, <2>3, EntriesKept, Zenon
<1>4. CASE peers[n][m] = NoLink
  <2> DEFINE t == [setup |-> FALSE, writer |-> "run", reader |-> "run"]
  <2>1. Continue(c, n, t) /\ peers' = [peers EXCEPT ![n][m] = c]
    BY <1>4, Zenon DEF SetupConnection
  <2>2. t \in Tasks /\ ~t.setup /\ t.writer = "run"
    BY Zenon DEF Tasks
  <2> HIDE DEF t
  <2>3. /\ LinksOK' /\ Len(links') = Len(links) /\ tasks'[c][n] = t
        /\ \A d \in LinkIds : links'[d].ends = links[d].ends
        /\ \A d \in LinkIds : \A k \in links[d].ends : d # c \/ k # n => tasks'[d][k] = tasks[d][k]
    BY <1>1, <2>1, <2>2, ContinueKeeps
  <2>4. LinkIds' = LinkIds /\ c \in Nat
    BY <2>3 DEF LinkIds, LinksOK
  <2>5. peers' \in [Endpoints -> [Endpoints -> Nat \cup {NoLink}]]
    BY <2>1, <2>4, Zenon DEF PeersInv
  <2>6. ASSUME NEW k \in Endpoints, NEW j \in Endpoints, peers'[k][j] # NoLink
        PROVE  EntryOK(k, j, peers[k][j])'
    <3>1. CASE k = n /\ j = m
      <4>1. peers'[k][j] = c
        BY <1>1, <2>1, <3>1, Zenon DEF PeersInv
      <4> QED
        BY <1>1, <2>2, <2>3, <2>4, <3>1, <4>1, Zenon DEF EntryOK
    <3>2. CASE ~(k = n /\ j = m)
      <4> DEFINE d == peers[k][j]
      <4>1. peers'[k][j] = d
        BY <1>1, <2>1, <3>2, Zenon DEF PeersInv
      <4>2. d \in LinkIds /\ links[d].ends = {k, j} /\ k # j /\ ~tasks[d][k].setup
            /\ tasks[d][k].writer \in {"run", "ended"}
        BY <2>6, <4>1, Zenon DEF PeersInv, EntryOK
      <4>3. ~(d = c /\ k = n)
        BY <1>2, <4>2, Zenon
      <4>4. tasks'[d][k] = tasks[d][k] /\ links'[d].ends = links[d].ends
        BY <2>3, <4>2, <4>3, Zenon
      <4> HIDE DEF d
      <4> QED
        BY <2>4, <4>1, <4>2, <4>4, EntryAfter, Zenon
    <3> QED
      BY <3>1, <3>2, Zenon
  <2> QED
    BY <2>3, <2>5, <2>6, Zenon DEF PeersInv
<1> QED
  BY <1>3, <1>4, Zenon

\* A writer that cleans up takes its own entry along.
LEMMA CleanupKeeps ==
    ASSUME PeersInv, NEW c \in LinkIds, NEW n \in links[c].ends, WriterCleanup(n, c)
    PROVE  PeersInv'
<1> DEFINE m == Far(c, n)
           t == [tasks[c][n] EXCEPT !.writer = "none"]
<1>1. n \in Endpoints /\ m \in Endpoints /\ m # n /\ links[c].ends = {n, m} /\ LinksOK
  BY FarEnd, Zenon DEF PeersInv
<1>2. tasks[c][n].writer = "ended" /\ Continue(c, n, t)
  BY Zenon DEF WriterCleanup
<1>3. t \in Tasks
  BY <1>1 DEF LinksOK, Tasks
<1> HIDE DEF t
<1>4. /\ LinksOK' /\ Len(links') = Len(links)
      /\ \A d \in LinkIds : links'[d].ends = links[d].ends
      /\ \A d \in LinkIds : \A k \in links[d].ends : d # c \/ k # n => tasks'[d][k] = tasks[d][k]
  BY <1>1, <1>2, <1>3, ContinueKeeps, Zenon
<1>5. LinkIds' = LinkIds
  BY <1>4, Zenon DEF LinkIds
<1>6. peers' = (IF peers[n][m] # NoLink /\ IsClosed(peers[n][m], n)
                THEN [peers EXCEPT ![n][m] = NoLink] ELSE peers)
  BY Zenon DEF WriterCleanup
<1>7. peers' \in [Endpoints -> [Endpoints -> Nat \cup {NoLink}]]
  BY <1>6, Zenon DEF PeersInv
<1>8. ASSUME NEW k \in Endpoints, NEW j \in Endpoints, peers'[k][j] # NoLink
      PROVE  EntryOK(k, j, peers[k][j])'
  <2> DEFINE d == peers[k][j]
  <2>1. peers'[k][j] = d
    BY <1>6, <1>8, Zenon DEF PeersInv
  <2>2. d \in LinkIds /\ links[d].ends = {k, j} /\ k # j /\ ~tasks[d][k].setup
        /\ tasks[d][k].writer \in {"run", "ended"}
    BY <1>8, <2>1, Zenon DEF PeersInv, EntryOK
  <2>3. ~(d = c /\ k = n)
    <3> SUFFICES ASSUME d = c, k = n PROVE FALSE
      BY Zenon
    <3>1. j = m
      BY <1>1, <2>2, Zenon
    <3>2. IsClosed(peers[n][m], n)
      BY <1>2, <3>1, Zenon DEF IsClosed
    <3> QED
      BY <1>1, <1>6, <1>8, <2>1, <3>1, <3>2, Zenon DEF PeersInv
  <2>4. tasks'[d][k] = tasks[d][k] /\ links'[d].ends = links[d].ends
    BY <1>4, <2>2, <2>3, Zenon
  <2> HIDE DEF d
  <2> QED
    BY <1>5, <2>1, <2>2, <2>4, EntryAfter, Zenon
<1> QED
  BY <1>4, <1>7, <1>8, Zenon DEF PeersInv

\* A dial makes a connection of its own, without entries.
LEMMA DialledKeeps ==
    ASSUME PeersInv, NEW n \in Endpoints, NEW m \in Endpoints \ {n}, NEW b \in BOOLEAN, Dialled(n, m, b)
    PROVE  PeersInv'
<1> DEFINE l == [ends |-> {n, m}, open |-> TRUE]
           t == [k \in {n, m} |-> [NoTasks EXCEPT !.setup = TRUE]]
<1>1. links' = Append(links, l) /\ tasks' = Append(tasks, t) /\ peers' = peers
  BY Zenon DEF Dialled
<1>2. l \in LinkRecords /\ l.ends = {n, m}
  BY Zenon DEF LinkRecords
<1>3. t \in [{n, m} -> Tasks]
  BY Zenon DEF NoTasks, Tasks
<1>4. t \in Ends
  BY <1>3, Zenon DEF Ends
<1> HIDE DEF l, t, LinkRecords, Ends, Tasks
<1>5. links \in Seq(LinkRecords) /\ tasks \in Seq(Ends) /\ Len(tasks) = Len(links) /\ Len(links) \in Nat
  BY DEF PeersInv, LinksOK
<1>6. /\ links' \in Seq(LinkRecords) /\ Len(links') = Len(links) + 1
      /\ links'[Len(links) + 1] = l /\ \A d \in LinkIds : links'[d] = links[d]
  BY <1>1, <1>2, <1>5 DEF LinkIds
<1>7. /\ tasks' \in Seq(Ends) /\ Len(tasks') = Len(links) + 1
      /\ tasks'[Len(links) + 1] = t /\ \A d \in LinkIds : tasks'[d] = tasks[d]
  BY <1>1, <1>4, <1>5 DEF LinkIds
<1>8. LinkIds' = LinkIds \cup {Len(links) + 1}
  BY <1>5, <1>6 DEF LinkIds
<1>9. LinksOK'
  <2>1. \A d \in LinkIds' : tasks'[d] \in [links'[d].ends -> Tasks]
    BY <1>2, <1>3, <1>6, <1>7, <1>8, Zenon DEF PeersInv, LinksOK
  <2>2. \A d \in LinkIds' : \E x, y \in Endpoints : x # y /\ links'[d].ends = {x, y}
    <3>1. \A d \in LinkIds : \E x, y \in Endpoints : x # y /\ links'[d].ends = {x, y}
      BY <1>6, SMTT(30) DEF PeersInv, LinksOK
    <3>2. \E x, y \in Endpoints : x # y /\ links'[Len(links) + 1].ends = {x, y}
      BY <1>2, <1>6, Zenon
    <3> QED
      BY <1>8, <3>1, <3>2, Zenon
  <2> QED
    BY <1>6, <1>7, <2>1, <2>2, Zenon DEF LinksOK
<1>10. \A k, j \in Endpoints : peers[k][j] # NoLink => EntryOK(k, j, peers[k][j])'
  <2> SUFFICES ASSUME NEW k \in Endpoints, NEW j \in Endpoints, peers[k][j] # NoLink
               PROVE  EntryOK(k, j, peers[k][j])'
    BY Zenon
  <2>1. EntryOK(k, j, peers[k][j]) /\ peers'[k][j] = peers[k][j]
    BY <1>1, Zenon DEF PeersInv
  <2> QED
    BY <1>6, <1>7, <1>8, <2>1, Zenon DEF EntryOK
<1> QED
  BY <1>1, <1>9, <1>10, Zenon DEF PeersInv

\* Every step keeps the table and the tasks together.
LEMMA PeersStep == PeersInv /\ [TransportNext]_transportVars => PeersInv'
<1> SUFFICES ASSUME PeersInv, [TransportNext]_transportVars PROVE PeersInv'
  BY Zenon
<1>1. ASSUME UNCHANGED <<peers, links, tasks>> PROVE PeersInv'
  <2>0. LinkIds' = LinkIds
    BY <1>1, Zenon DEF LinkIds
  <2>1. LinksOK' /\ LinkIds' = LinkIds
    BY <1>1, <2>0, ZenonT(30) DEF PeersInv, LinksOK
  <2> QED
    BY <1>1, <2>1, Zenon DEF PeersInv, EntryOK
<1>2. ASSUME NEW n \in Endpoints, Bind(n) \/ SendReturns(n) \/ \E S \in SUBSET Endpoints : Recv(n, S) PROVE PeersInv'
  BY <1>1, <1>2, Zenon DEF Bind, SendReturns, Recv
<1>3. ASSUME NEW n \in Endpoints, NEW m \in Endpoints \ {n}, NEW b \in BOOLEAN,
             Connect(n, m) \/ DialFails(n, m) \/ Dialled(n, m, b) \/ Send(n, m) \/ LoopSends(n, m)
      PROVE  PeersInv'
  <2>1. CASE Dialled(n, m, b)
    BY <2>1, DialledKeeps, Zenon
  <2>2. CASE Connect(n, m) \/ DialFails(n, m)
    <3>1. UNCHANGED <<peers, links, tasks>>
      BY <2>2, Zenon DEF Connect, DialFails
    <3> QED
      BY <1>1, <3>1, Zenon
  <2>3. CASE Send(n, m) \/ LoopSends(n, m)
    <3>1. UNCHANGED <<peers, links, tasks>>
      BY <2>3, Zenon DEF Send, LoopSends
    <3> QED
      BY <1>1, <3>1, Zenon
  <2> QED
    BY <1>3, <2>1, <2>2, <2>3, Zenon
<1>4. ASSUME NEW n \in Endpoints, NEW m \in Endpoints \ {n}, Disconnect(n, m) PROVE PeersInv'
  <2>1. peers' = [peers EXCEPT ![n][m] = NoLink] /\ UNCHANGED <<links, tasks>>
    BY <1>4, Zenon DEF Disconnect
  <2>2. peers' \in [Endpoints -> [Endpoints -> Nat \cup {NoLink}]]
    BY <2>1, Zenon DEF PeersInv
  <2>3. \A k, j \in Endpoints : peers'[k][j] # NoLink => peers'[k][j] = peers[k][j]
    BY <2>1, Zenon DEF PeersInv
  <2>4. LinksOK'
    BY <2>1 DEF PeersInv, LinksOK, LinkIds
  <2>5. LinkIds' = LinkIds
    BY <2>1, Zenon DEF LinkIds
  <2>6. ASSUME NEW k \in Endpoints, NEW j \in Endpoints, peers'[k][j] # NoLink
        PROVE  EntryOK(k, j, peers[k][j])'
    <3>1. EntryOK(k, j, peers[k][j]) /\ peers'[k][j] = peers[k][j]
      BY <2>3, <2>6, Zenon DEF PeersInv
    <3> QED
      BY <2>1, <2>5, <3>1 DEF EntryOK
  <2> QED
    BY <2>2, <2>4, <2>6, Zenon DEF PeersInv
<1>5. ASSUME NEW c \in LinkIds, LinkFails(c) PROVE PeersInv'
  <2> DEFINE l == [links[c] EXCEPT !.open = FALSE]
  <2>1. links' = [links EXCEPT ![c] = l] /\ UNCHANGED <<peers, tasks>>
    BY <1>5, Zenon DEF LinkFails
  <2>2. links \in Seq(LinkRecords) /\ c \in 1 .. Len(links) /\ links[c] \in LinkRecords
    BY DEF PeersInv, LinksOK, LinkIds
  <2>3. l \in LinkRecords /\ l.ends = links[c].ends
    BY <2>2, Zenon DEF LinkRecords
  <2> HIDE DEF l, LinkRecords
  <2>4. /\ links' \in Seq(LinkRecords) /\ Len(links') = Len(links)
        /\ \A d \in LinkIds : links'[d].ends = links[d].ends
    BY <2>1, <2>2, <2>3 DEF LinkIds
  <2>5. LinkIds' = LinkIds
    BY <2>4, Zenon DEF LinkIds
  <2>6. LinksOK'
    BY <2>1, <2>4, <2>5 DEF PeersInv, LinksOK
  <2> QED
    BY <2>1, <2>4, <2>5, <2>6, Zenon DEF PeersInv, EntryOK
<1>6. ASSUME NEW c \in LinkIds, NEW n \in links[c].ends, WriterFails(n, c) PROVE PeersInv'
  <2> DEFINE t == [tasks[c][n] EXCEPT !.writer = "ended"]
  <2>1. Continue(c, n, t) /\ peers' = peers
    BY <1>6, Zenon DEF WriterFails
  <2>2. tasks[c][n] \in Tasks
    BY Zenon DEF PeersInv, LinksOK
  <2>3. t \in Tasks /\ t.writer = "ended" /\ t.setup = tasks[c][n].setup
    BY <2>2, Zenon DEF Tasks
  <2>4. n \in Endpoints /\ Far(c, n) \in Endpoints
    BY FarEnd, Zenon DEF PeersInv
  <2>5. peers[n][Far(c, n)] = c /\ c # NoLink => ~tasks[c][n].setup
    BY <2>4, Zenon DEF PeersInv, EntryOK
  <2> QED
    BY <2>1, <2>3, <2>5, EntriesKept, Zenon
<1>7. ASSUME NEW c \in LinkIds, NEW n \in links[c].ends, WriterDrained(n, c) PROVE PeersInv'
  <2> DEFINE t == [tasks[c][n] EXCEPT !.writer = "ended"]
  <2>1. Continue(c, n, t) /\ peers' = peers /\ peers[n][Far(c, n)] # c
    BY <1>7, Zenon DEF WriterDrained
  <2>2. tasks[c][n] \in Tasks
    BY Zenon DEF PeersInv, LinksOK
  <2>3. t \in Tasks
    BY <2>2, Zenon DEF Tasks
  <2> QED
    BY <2>1, <2>3, EntriesKept, Zenon
<1>8. ASSUME NEW c \in LinkIds, NEW n \in links[c].ends, ReaderEnds(n, c) PROVE PeersInv'
  <2> DEFINE t == [tasks[c][n] EXCEPT !.reader = "none"]
  <2>1. Continue(c, n, t) /\ peers' = peers
    BY <1>8, Zenon DEF ReaderEnds
  <2>2. tasks[c][n] \in Tasks
    BY Zenon DEF PeersInv, LinksOK
  <2>3. t \in Tasks /\ t.writer = tasks[c][n].writer /\ t.setup = tasks[c][n].setup
    BY <2>2, Zenon DEF Tasks
  <2>4. n \in Endpoints /\ Far(c, n) \in Endpoints
    BY FarEnd, Zenon DEF PeersInv
  <2>5. peers[n][Far(c, n)] = c /\ c # NoLink => ~tasks[c][n].setup /\ tasks[c][n].writer \in {"run", "ended"}
    BY <2>4, Zenon DEF PeersInv, EntryOK
  <2> QED
    BY <2>1, <2>3, <2>5, EntriesKept, Zenon
<1>9. ASSUME NEW c \in LinkIds, NEW n \in links[c].ends,
             WriterSends(n, c) \/ ReaderReceives(n, c) \/ ReaderSkips(n, c)
      PROVE  PeersInv'
  BY <1>1, <1>9, Zenon DEF WriterSends, ReaderReceives, ReaderSkips
<1>10. ASSUME NEW c \in LinkIds, NEW n \in links[c].ends, SetupConnection(n, c) \/ WriterCleanup(n, c)
       PROVE  PeersInv'
  BY <1>10, SetupKeeps, CleanupKeeps, Zenon
<1>11. CASE UNCHANGED transportVars
  BY <1>1, <1>11, Zenon DEF transportVars
<1> QED
  BY <1>2, <1>3, <1>4, <1>5, <1>6, <1>7, <1>8, <1>9, <1>10, <1>11, Zenon DEF TransportNext

\* A transport without peers satisfies the invariant.
LEMMA PeersInit == TransportInit => PeersInv
<1> SUFFICES ASSUME TransportInit PROVE PeersInv
  BY Zenon
<1>0. links = <<>> /\ tasks = <<>>
  BY Zenon DEF TransportInit
<1>1. LinksOK
  BY <1>0, SMTT(30) DEF LinksOK, LinkIds
<1> QED
  BY <1>1, Zenon DEF TransportInit, PeersInv

\* For any nodes, connections and failures: connect never takes a peer for connected
\* whose writer is gone for good.
THEOREM EntriesHaveWriters == TransportSpec => []NoDeadEntry
<1>1. PeersInv => NoDeadEntry
  BY Zenon DEF PeersInv, EntryOK, NoDeadEntry
<1> QED
  BY <1>1, PeersInit, PeersStep, PTL DEF TransportSpec

\* For any nodes, connections and failures: no step but disconnect removes an entry
\* whose channel works.
THEOREM ReplacementsKept == TransportSpec => ReplacementKept
<1> DEFINE Kept == \A n, m \in Endpoints :
                      LET c == peers[n][m] IN
                      c # NoLink /\ peers'[n][m] # c => IsClosed(c, n) \/ Disconnect(n, m)
<1>1. PeersInv /\ [TransportNext]_transportVars => [Kept]_transportVars
  <2> SUFFICES ASSUME PeersInv, TransportNext PROVE Kept
    BY Zenon
  <2>1. ASSUME UNCHANGED peers PROVE Kept
    BY <2>1, Zenon
  <2>2. ASSUME NEW n \in Endpoints, NEW m \in Endpoints \ {n}, Disconnect(n, m) PROVE Kept
    <3>1. peers' = [peers EXCEPT ![n][m] = NoLink]
      BY <2>2, Zenon DEF Disconnect
    <3>2. \A k, j \in Endpoints : k # n \/ j # m => peers'[k][j] = peers[k][j]
      BY <3>1, Zenon DEF PeersInv
    <3> QED
      BY <2>2, <3>2, Zenon
  <2>3. ASSUME NEW c \in LinkIds, NEW n \in links[c].ends, SetupConnection(n, c) PROVE Kept
    <3>1. n \in Endpoints /\ Far(c, n) \in Endpoints
      BY FarEnd, Zenon DEF PeersInv
    <3> QED
      <4> DEFINE m == Far(c, n)
      <4>1. peers' = peers \/ (peers[n][m] = NoLink /\ peers' = [peers EXCEPT ![n][m] = c])
        BY <2>3, Zenon DEF SetupConnection
      <4> HIDE DEF m
      <4>2. \A k, j \in Endpoints : peers[k][j] # NoLink => peers'[k][j] = peers[k][j]
        BY <4>1 DEF PeersInv
      <4> QED
        BY <4>2, Zenon
  <2>4. ASSUME NEW c \in LinkIds, NEW n \in links[c].ends, WriterCleanup(n, c) PROVE Kept
    <3>1. n \in Endpoints /\ Far(c, n) \in Endpoints
      BY FarEnd, Zenon DEF PeersInv
    <3> QED
      BY <2>4, <3>1, Zenon DEF WriterCleanup, PeersInv
  <2> HIDE DEF Kept
  <2>5. ASSUME NEW n \in Endpoints, Bind(n) \/ SendReturns(n) \/ \E S \in SUBSET Endpoints : Recv(n, S) PROVE Kept
    BY <2>1, <2>5, Zenon DEF Bind, SendReturns, Recv
  <2>6. ASSUME NEW n \in Endpoints, NEW m \in Endpoints \ {n}, NEW b \in BOOLEAN,
               Connect(n, m) \/ DialFails(n, m) \/ Dialled(n, m, b) \/ Send(n, m) \/ LoopSends(n, m)
        PROVE  Kept
    BY <2>1, <2>6, Zenon DEF Connect, DialFails, Dialled, Send, LoopSends
  <2>7. ASSUME NEW c \in LinkIds, NEW n \in links[c].ends,
               \/ WriterSends(n, c) \/ WriterFails(n, c) \/ WriterDrained(n, c)
               \/ ReaderReceives(n, c) \/ ReaderSkips(n, c) \/ ReaderEnds(n, c)
        PROVE  Kept
    BY <2>1, <2>7, Zenon DEF WriterSends, WriterFails, WriterDrained, ReaderReceives, ReaderSkips,
       ReaderEnds
  <2>8. ASSUME NEW c \in LinkIds, LinkFails(c) PROVE Kept
    BY <2>1, <2>8, Zenon DEF LinkFails
  <2> QED
    BY <2>2, <2>3, <2>4, <2>5, <2>6, <2>7, <2>8, Zenon DEF TransportNext
<1> QED
  BY <1>1, PeersInit, PeersStep, PTL DEF TransportSpec, ReplacementKept

-----------------------------------------------------------------------------
(* The connection that is kept. *)

\* An end before setup_connection, and one that it has registered.
Pending == [NoTasks EXCEPT !.setup = TRUE]
Running == [setup |-> FALSE, writer |-> "run", reader |-> "run"]

Joins(c, n, m) == n # m /\ links[c].ends = {n, m}

\* A connection that is kept: open, and each end waits for an entry or has it.
KeptLink(c) ==
    /\ links[c].open
    /\ \A n, m \in Endpoints : Joins(c, n, m) =>
          \/ tasks[c][n] = Pending /\ peers[n][m] = NoLink
          \/ tasks[c][n] = Running /\ peers[n][m] = c

\* A connection that comes second: each end has an entry already.
RefusedLink(c) ==
    \A n, m \in Endpoints : Joins(c, n, m) =>
       tasks[c][n] \in {Pending, NoTasks} /\ peers[n][m] \notin {NoLink, c}

\* It was dialled after the earlier ones of its pair were set up.
SetUpBefore(c, d) ==
    c < d /\ links[d].ends = links[c].ends => \A n \in links[c].ends : ~tasks[c][n].setup

Orderly(c) == (KeptLink(c) \/ RefusedLink(c)) /\ \A d \in LinkIds : SetUpBefore(c, d)

\* Without breaks every connection of a pair that never crossed is kept or refused.
LiveInv ==
    /\ breaks \in Nat
    /\ breaks = 0 => \A c \in LinkIds : links[c].ends \notin crossed => Orderly(c)

\* What can be said of the tasks of a connection that is kept or refused.
LEMMA OrderlyTasks ==
    ASSUME NEW c, NEW n \in Endpoints, NEW m \in Endpoints, Joins(c, n, m), KeptLink(c) \/ RefusedLink(c)
    PROVE  /\ tasks[c][n] \in {Pending, NoTasks, Running} /\ tasks[c][n].writer # "ended"
           /\ tasks[c][n].writer = "run" => KeptLink(c) /\ peers[n][m] = c
           /\ tasks[c][n].reader = "run" => KeptLink(c)
<1>1. /\ Pending.writer = "none" /\ Pending.reader = "none" /\ NoTasks.writer = "none" /\ NoTasks.reader = "none"
      /\ Running.writer = "run" /\ Running.reader = "run"
  BY Zenon DEF Pending, NoTasks, Running
<1>2. CASE KeptLink(c)
  BY <1>1, <1>2 DEF KeptLink
<1>3. CASE RefusedLink(c)
  BY <1>1, <1>3 DEF RefusedLink
<1> QED
  BY <1>2, <1>3, Zenon

\* A connection stays as it is when its ends do and their entries.
LEMMA StaysOrderly ==
    ASSUME NEW c, KeptLink(c) \/ RefusedLink(c), links'[c] = links[c],
           \A n \in links[c].ends : tasks'[c][n] = tasks[c][n],
           \A n, m \in Endpoints : Joins(c, n, m) => peers'[n][m] = peers[n][m]
    PROVE  (KeptLink(c) \/ RefusedLink(c))'
<1>1. \A n, m : Joins(c, n, m)' <=> Joins(c, n, m)
  BY Zenon DEF Joins
<1>2. \A n, m \in Endpoints : Joins(c, n, m) => tasks'[c][n] = tasks[c][n] /\ peers'[n][m] = peers[n][m]
  BY Zenon DEF Joins
<1>3. ASSUME KeptLink(c) PROVE KeptLink(c)'
  <2>1. links'[c].open
    BY <1>3, Zenon DEF KeptLink
  <2>2. \A n, m \in Endpoints : Joins(c, n, m)' =>
           \/ tasks'[c][n] = Pending /\ peers'[n][m] = NoLink
           \/ tasks'[c][n] = Running /\ peers'[n][m] = c
    BY <1>1, <1>2, <1>3 DEF KeptLink
  <2> QED
    BY <2>1, <2>2, Zenon DEF KeptLink, Pending, Running, NoTasks
<1>4. RefusedLink(c) => RefusedLink(c)'
  BY <1>1, <1>2, Zenon DEF RefusedLink
<1> QED
  BY <1>3, <1>4, Zenon

\* A side of a connection whose pair crossed goes on: the other pairs do not notice.
LEMMA OthersOrderly ==
    ASSUME PeersInv, LiveInv, NEW c \in LinkIds, NEW n \in links[c].ends, NEW t \in Tasks, Continue(c, n, t),
           breaks' = breaks, crossed' = crossed, breaks = 0 => links[c].ends \in crossed,
           \A k, j \in Endpoints : {k, j} # links[c].ends => peers'[k][j] = peers[k][j]
    PROVE  LiveInv'
<1>1. /\ Len(links') = Len(links)
      /\ \A d \in LinkIds : links'[d].ends = links[d].ends /\ (d # c => links'[d] = links[d])
      /\ \A d \in LinkIds : \A k \in links[d].ends : d # c \/ k # n => tasks'[d][k] = tasks[d][k]
  BY ContinueKeeps, Zenon DEF PeersInv
<1>2. LinkIds' = LinkIds
  BY <1>1, Zenon DEF LinkIds
<1>3. ASSUME breaks = 0, NEW d \in LinkIds, links[d].ends \notin crossed PROVE Orderly(d)'
  <2>1. d # c /\ links[d].ends # links[c].ends
    BY <1>3, Zenon
  <2>2. /\ links'[d] = links[d] /\ \A k \in links[d].ends : tasks'[d][k] = tasks[d][k]
        /\ \A k, j \in Endpoints : Joins(d, k, j) => peers'[k][j] = peers[k][j]
    BY <1>1, <2>1, Zenon DEF Joins
  <2>3. Orderly(d)
    BY <1>3, Zenon DEF LiveInv
  <2>4. (KeptLink(d) \/ RefusedLink(d))'
    BY <2>2, <2>3, StaysOrderly, Zenon DEF Orderly
  <2>5. \A e \in LinkIds : SetUpBefore(d, e)'
    BY <1>1, <2>2, <2>3, Zenon DEF Orderly, SetUpBefore
  <2> QED
    BY <1>2, <2>4, <2>5, Zenon DEF Orderly
<1> QED
  BY <1>1, <1>2, <1>3, Zenon DEF LiveInv

\* setup_connection keeps the first connection of a pair, and drops the later ones.
LEMMA SetupLive ==
    ASSUME PeersInv, LiveInv, NEW c \in LinkIds, NEW n \in links[c].ends, SetupConnection(n, c)
    PROVE  LiveInv'
<1> DEFINE m == Far(c, n)
<1>1. n \in Endpoints /\ m \in Endpoints /\ m # n /\ links[c].ends = {n, m} /\ LinksOK
  BY FarEnd, Zenon DEF PeersInv
<1>2. /\ tasks[c][n].setup /\ breaks' = breaks /\ crossed' = crossed
      /\ \/ peers[n][m] # NoLink /\ Continue(c, n, NoTasks) /\ peers' = peers
         \/ peers[n][m] = NoLink /\ Continue(c, n, Running) /\ peers' = [peers EXCEPT ![n][m] = c]
  BY Zenon DEF SetupConnection, Running
<1> HIDE DEF m
<1>3. NoTasks \in Tasks /\ Running \in Tasks
  BY Zenon DEF NoTasks, Running, Tasks
<1>4. \A k, j \in Endpoints : ~(k = n /\ j = m) => peers'[k][j] = peers[k][j]
  <2>1. CASE peers' = [peers EXCEPT ![n][m] = c]
    <3>1. peers \in [Endpoints -> [Endpoints -> Nat \cup {NoLink}]]
      BY Zenon DEF PeersInv
    <3> QED
      BY <1>1, <2>1, <3>1
  <2> QED
    BY <1>2, <2>1, Zenon
<1>5. CASE breaks = 0 => links[c].ends \in crossed
  <2>1. \A k, j \in Endpoints : {k, j} # links[c].ends => peers'[k][j] = peers[k][j]
    BY <1>1, <1>4, Zenon
  <2> QED
    BY <1>2, <1>3, <1>5, <2>1, OthersOrderly, Zenon
<1>6. CASE breaks = 0 /\ links[c].ends \notin crossed
  <2>1. \A d \in LinkIds : links[d].ends \notin crossed => Orderly(d)
    BY <1>6, Zenon DEF LiveInv
  <2>2. Orderly(c) /\ Joins(c, n, m) /\ Joins(c, m, n)
    BY <1>1, <1>6, <2>1, Zenon DEF Joins
  <2> DEFINE t == IF peers[n][m] # NoLink THEN NoTasks ELSE Running
  <2>3. t \in Tasks /\ Continue(c, n, t) /\ ~t.setup
    <3>1. ~NoTasks.setup /\ ~Running.setup
      BY Zenon DEF NoTasks, Running
    <3> QED
      BY <1>2, <1>3, <3>1, Zenon
  <2> HIDE DEF t
  <2>4. /\ Len(links') = Len(links) /\ tasks'[c][n] = t
        /\ \A d \in LinkIds : links'[d].ends = links[d].ends /\ (d # c => links'[d] = links[d])
        /\ \A d \in LinkIds : \A k \in links[d].ends : d # c \/ k # n => tasks'[d][k] = tasks[d][k]
    BY <1>1, <2>3, ContinueKeeps, Zenon
  <2>5. LinkIds' = LinkIds
    BY <2>4, Zenon DEF LinkIds
  <2>6. \A d \in LinkIds : Orderly(d) => \A e \in LinkIds : SetUpBefore(d, e)'
    <3> SUFFICES ASSUME NEW d \in LinkIds, Orderly(d), NEW e \in LinkIds, d < e, links[e].ends = links[d].ends,
                        NEW k \in links[d].ends
                 PROVE  ~tasks'[d][k].setup
      BY <2>4, Zenon DEF SetUpBefore
    <3>1. ~tasks[d][k].setup
      BY Zenon DEF Orderly, SetUpBefore
    <3> QED
      BY <2>3, <2>4, <3>1, Zenon
  <2>7. \A d \in LinkIds : Orderly(d) /\ d # c /\ links[d].ends # links[c].ends => (KeptLink(d) \/ RefusedLink(d))'
    <3> SUFFICES ASSUME NEW d \in LinkIds, Orderly(d), d # c, links[d].ends # links[c].ends
                 PROVE  (KeptLink(d) \/ RefusedLink(d))'
      BY Zenon
    <3>1. /\ links'[d] = links[d] /\ \A k \in links[d].ends : tasks'[d][k] = tasks[d][k]
          /\ \A k, j \in Endpoints : Joins(d, k, j) => peers'[k][j] = peers[k][j]
      BY <1>1, <1>4, <2>4, Zenon DEF Joins
    <3> QED
      BY <3>1, StaysOrderly, Zenon DEF Orderly
  <2>8. ASSUME NEW d \in LinkIds, links[d].ends = links[c].ends, peers[n][m] # NoLink
        PROVE  (KeptLink(d) \/ RefusedLink(d))'
    <3>1. peers' = peers /\ t = NoTasks
      BY <1>2, <2>8, Zenon DEF t
    <3>2. CASE d # c
      <4>1. Orderly(d) /\ links'[d] = links[d] /\ \A k \in links[d].ends : tasks'[d][k] = tasks[d][k]
        BY <1>6, <2>1, <2>4, <2>8, <3>2, Zenon
      <4> QED
        BY <3>1, <4>1, StaysOrderly, Zenon DEF Orderly
    <3>3. CASE d = c
      <4>1. RefusedLink(c)
        BY <1>1, <1>2, <2>2, <2>8 DEF Orderly, KeptLink, Running
      <4>2. ASSUME NEW k \in Endpoints, NEW j \in Endpoints, Joins(c, k, j)
            PROVE  tasks'[c][k] \in {Pending, NoTasks} /\ peers'[k][j] \notin {NoLink, c}
        <5>1. tasks[c][k] \in {Pending, NoTasks} /\ peers[k][j] \notin {NoLink, c} /\ k \in links[c].ends
          BY <4>1, <4>2, Zenon DEF RefusedLink, Joins
        <5> QED
          BY <2>4, <3>1, <5>1, Zenon
      <4>3. \A k, j : Joins(c, k, j)' => Joins(c, k, j)
        BY <2>4, Zenon DEF Joins
      <4> QED
        BY <3>3, <4>2, <4>3, Zenon DEF RefusedLink
    <3> QED
      BY <3>2, <3>3, Zenon
  <2>9. ASSUME NEW d \in LinkIds, links[d].ends = links[c].ends, peers[n][m] = NoLink
        PROVE  (KeptLink(d) \/ RefusedLink(d))'
    <3>0. c \in Nat /\ d \in Nat
      BY DEF LinkIds
    <3>1. peers' = [peers EXCEPT ![n][m] = c] /\ Continue(c, n, Running)
      BY <1>2, <2>9, Zenon
    <3>2. ~(d # c)
      <4> SUFFICES ASSUME d # c PROVE FALSE
        BY Zenon
      <4>1. Orderly(d) /\ Joins(d, n, m)
        BY <1>6, <2>1, <2>2, <2>9, Zenon DEF Joins
      <4>2. ~RefusedLink(d)
        BY <1>1, <2>9, <4>1, Zenon DEF RefusedLink
      <4>3. tasks[d][n] = Pending
        BY <1>1, <2>9, <3>0, <4>1, <4>2, TransportAssumption DEF Orderly, KeptLink
      <4>4. tasks[d][n].setup
        BY <4>3, Zenon DEF Pending, NoTasks
      <4>5. c < d \/ d < c
        BY <3>0
      <4> QED
        BY <1>1, <1>2, <2>2, <2>9, <4>1, <4>4, <4>5, Zenon DEF Orderly, SetUpBefore
    <3>3. KeptLink(c)
      BY <1>1, <2>2, <2>9, Zenon DEF Orderly, RefusedLink
    <3>4. links' = links /\ tasks'[c][n] = Running
      <4>1. links' = links
        BY <3>1, Zenon DEF Continue, HoldsHandle, Running
      <4>2. tasks'[c][n] = Running
        BY <1>1, <1>3, <3>1, ContinueKeeps, Zenon
      <4> QED
        BY <4>1, <4>2, Zenon
    <3>5. peers'[n][m] = c
      BY <1>1, <3>1, Zenon DEF PeersInv
    <3>6. ASSUME NEW k \in Endpoints, NEW j \in Endpoints, Joins(c, k, j)
          PROVE  \/ tasks'[c][k] = Pending /\ peers'[k][j] = NoLink
                 \/ tasks'[c][k] = Running /\ peers'[k][j] = c
      <4>1. CASE k = n
        <5>1. j = m
          BY <1>1, <3>6, <4>1, Zenon DEF Joins
        <5> QED
          BY <3>4, <3>5, <4>1, <5>1, Zenon
      <4>2. CASE k # n
        <5>1. /\ \/ tasks[c][k] = Pending /\ peers[k][j] = NoLink
                 \/ tasks[c][k] = Running /\ peers[k][j] = c
              /\ k \in links[c].ends
          BY <3>3, <3>6, Zenon DEF KeptLink, Joins
        <5>2. tasks'[c][k] = tasks[c][k] /\ peers'[k][j] = peers[k][j]
          BY <1>4, <2>4, <4>2, <5>1, Zenon
        <5> QED
          BY <5>1, <5>2, Zenon
      <4> QED
        BY <4>1, <4>2, Zenon
    <3>7. \A k, j : Joins(c, k, j)' => Joins(c, k, j)
      BY <2>4, Zenon DEF Joins
    <3>8. links'[c].open
      BY <3>3, <3>4, Zenon DEF KeptLink
    <3>9. KeptLink(c)'
      BY <3>6, <3>7, <3>8, Zenon DEF KeptLink, Pending, Running, NoTasks
    <3> QED
      BY <3>2, <3>9, Zenon
  <2>10. ASSUME NEW d \in LinkIds, links[d].ends \notin crossed PROVE Orderly(d)'
    <3>1. Orderly(d)
      BY <2>1, <2>10, Zenon
    <3>2. (KeptLink(d) \/ RefusedLink(d))'
      BY <2>7, <2>8, <2>9, <3>1, Zenon
    <3> QED
      BY <2>5, <2>6, <3>1, <3>2, Zenon DEF Orderly
  <2> QED
    BY <1>2, <2>4, <2>5, <2>10, Zenon DEF LiveInv
<1> QED
  BY <1>5, <1>6, Zenon

\* A pair that has a registered connection has it at both ends, when it never
\* crossed and no setup of the pair is to come.
LEMMA EntriesAgree ==
    ASSUME PeersInv, LiveInv, breaks = 0, NEW n \in Endpoints, NEW m \in Endpoints, n # m, {n, m} \notin crossed,
           \A c \in LinkIds : links[c].ends = {n, m} => \A k \in {n, m} : ~tasks[c][k].setup,
           peers[n][m] # NoLink
    PROVE  peers[n][m] \in LinkIds /\ peers[m][n] = peers[n][m]
<1> DEFINE c == peers[n][m]
<1>1. EntryOK(n, m, c)
  BY Zenon DEF PeersInv
<1> HIDE DEF c
<1>2. c \in LinkIds /\ links[c].ends = {n, m} /\ Joins(c, n, m) /\ Joins(c, m, n)
  BY <1>1, Zenon DEF EntryOK, Joins
<1>3. Orderly(c) /\ ~tasks[c][m].setup
  BY <1>2, Zenon DEF LiveInv
<1>4. KeptLink(c)
  BY <1>2, <1>3, Zenon DEF Orderly, RefusedLink, c
<1>5. tasks[c][m] # Pending
  BY <1>3, Zenon DEF Pending, NoTasks
<1>6. peers[m][n] = c
  BY <1>2, <1>4, <1>5, Zenon DEF KeptLink
<1> QED
  BY <1>2, <1>6, Zenon DEF c

\* A new connection is kept when its pair has none, and refused when it has one.
LEMMA DialledLive ==
    ASSUME PeersInv, LiveInv, NEW n \in Endpoints, NEW m \in Endpoints \ {n}, NEW b \in BOOLEAN, Dialled(n, m, b)
    PROVE  LiveInv'
<1>0. PICK e : e = Len(links) + 1
  BY Zenon
<1> DEFINE l == [ends |-> {n, m}, open |-> TRUE]
           t == [k \in {n, m} |-> Pending]
<1>1. /\ links' = Append(links, l) /\ tasks' = Append(tasks, t) /\ peers' = peers /\ breaks' = breaks
      /\ crossed' = IF \E c \in LinkIds : links[c].ends = {n, m} /\ \E k \in {n, m} : tasks[c][k].setup
                    THEN crossed \cup {{n, m}} ELSE crossed
  BY Zenon DEF Dialled, Pending
<1>2. l \in LinkRecords /\ l.ends = {n, m} /\ l.open
  BY Zenon DEF LinkRecords
<1>3. t[n] = Pending /\ t[m] = Pending
  BY Zenon
<1>4. t \in Ends
  <2>1. t \in [{n, m} -> Tasks]
    BY Zenon DEF Pending, NoTasks, Tasks
  <2> QED
    BY <2>1, Zenon DEF Ends
<1> HIDE DEF l, t, LinkRecords, Ends, Tasks
<1>5. links \in Seq(LinkRecords) /\ tasks \in Seq(Ends) /\ Len(tasks) = Len(links) /\ Len(links) \in Nat
  BY DEF PeersInv, LinksOK
<1>6. Len(links') = e /\ links'[e] = l /\ \A d \in LinkIds : links'[d] = links[d]
  BY <1>0, <1>1, <1>2, <1>5 DEF LinkIds
<1>7. tasks'[e] = t /\ \A d \in LinkIds : tasks'[d] = tasks[d]
  BY <1>0, <1>1, <1>4, <1>5 DEF LinkIds
<1>8. /\ LinkIds' = LinkIds \cup {e} /\ e \notin LinkIds
      /\ \A d \in LinkIds' : ~(e < d)
  BY <1>0, <1>5, <1>6 DEF LinkIds
<1>9. /\ crossed \subseteq crossed'
      /\ {n, m} \notin crossed' =>
            \A c \in LinkIds : links[c].ends = {n, m} => \A k \in {n, m} : ~tasks[c][k].setup
  BY <1>1, Zenon
<1>10. ASSUME breaks = 0, NEW d \in LinkIds, links[d].ends \notin crossed' PROVE Orderly(d)'
  <2>1. Orderly(d)
    BY <1>9, <1>10, Zenon DEF LiveInv
  <2>2. (KeptLink(d) \/ RefusedLink(d))'
    BY <1>1, <1>6, <1>7, <2>1, StaysOrderly, Zenon DEF Orderly
  <2>3. \A x \in LinkIds : SetUpBefore(d, x)'
    BY <1>6, <1>7, <2>1, Zenon DEF Orderly, SetUpBefore
  <2>4. SetUpBefore(d, e)'
    BY <1>2, <1>6, <1>7, <1>9, <1>10, Zenon DEF SetUpBefore
  <2> QED
    BY <1>8, <2>2, <2>3, <2>4, Zenon DEF Orderly
<1>11. ASSUME breaks = 0, {n, m} \notin crossed' PROVE Orderly(e)'
  <2>1. {n, m} \notin crossed /\ {m, n} \notin crossed /\ {m, n} = {n, m}
    BY <1>9, <1>11, Zenon
  <2>2. /\ peers[n][m] # NoLink => peers[n][m] \in LinkIds /\ peers[m][n] = peers[n][m]
        /\ peers[m][n] # NoLink => peers[m][n] \in LinkIds /\ peers[n][m] = peers[m][n]
    BY <1>9, <1>11, <2>1, EntriesAgree, Zenon
  <2>3. \A k, j : Joins(e, k, j)' => (k = n /\ j = m) \/ (k = m /\ j = n)
    BY <1>2, <1>6, Zenon DEF Joins
  <2>4. \A k, j : Joins(e, k, j)' => tasks'[e][k] = Pending
    BY <1>3, <1>7, <2>3, Zenon
  <2>5. CASE peers[n][m] = NoLink
    <3>1. \A k, j : Joins(e, k, j)' => tasks'[e][k] = Pending /\ peers'[k][j] = NoLink
      BY <1>1, <2>2, <2>3, <2>4, <2>5, Zenon
    <3>2. links'[e].open
      BY <1>2, <1>6, Zenon
    <3> QED
      <4>1. KeptLink(e)'
        BY <3>1, <3>2, Zenon DEF KeptLink, Pending, Running, NoTasks
      <4> QED
        BY <1>8, <4>1, Zenon DEF Orderly, SetUpBefore
  <2>6. CASE peers[n][m] # NoLink
    <3>1. peers[n][m] \notin {NoLink, e} /\ peers[m][n] \notin {NoLink, e}
      <4>1. peers[n][m] # e
        BY <1>8, <2>2, <2>6, Zenon
      <4> QED
        BY <2>2, <2>6, <4>1
    <3>2. \A k, j : Joins(e, k, j)' => tasks'[e][k] = Pending /\ peers'[k][j] \notin {NoLink, e}
      BY <1>1, <2>3, <2>4, <3>1, Zenon
    <3>3. RefusedLink(e)'
      BY <3>2, Zenon DEF RefusedLink, Pending, NoTasks
    <3> QED
      BY <1>8, <3>3, Zenon DEF Orderly, SetUpBefore
  <2> QED
    BY <2>5, <2>6, Zenon
<1>12. ASSUME breaks = 0, NEW d \in LinkIds', links'[d].ends \notin crossed' PROVE Orderly(d)'
  BY <1>2, <1>6, <1>8, <1>10, <1>11, <1>12, Zenon
<1> QED
  BY <1>1, <1>12, Zenon DEF LiveInv

\* A loop or a task of a connection ends only when the pair crossed, without breaks.
LEMMA EndingLive ==
    ASSUME PeersInv, LiveInv, NEW c \in LinkIds, NEW n \in links[c].ends, NEW t \in Tasks, Continue(c, n, t),
           breaks' = breaks, crossed' = crossed,
           peers' = peers \/ peers' = [peers EXCEPT ![n][Far(c, n)] = NoLink],
           \/ tasks[c][n].writer = "ended"
           \/ tasks[c][n].writer = "run" /\ (~links[c].open \/ peers[n][Far(c, n)] # c)
           \/ tasks[c][n].reader = "run" /\ ~links[c].open
    PROVE  LiveInv'
<1> DEFINE m == Far(c, n)
<1>1. n \in Endpoints /\ m \in Endpoints /\ m # n /\ links[c].ends = {n, m} /\ LinksOK
  BY FarEnd, Zenon DEF PeersInv
<1>2. peers' = peers \/ peers' = [peers EXCEPT ![n][m] = NoLink]
  BY Zenon
<1>3. tasks[c][n].writer = "run" => ~links[c].open \/ peers[n][m] # c
  BY Zenon
<1> HIDE DEF m
<1>4. breaks = 0 => links[c].ends \in crossed
  <2> SUFFICES ASSUME breaks = 0, links[c].ends \notin crossed PROVE FALSE
    BY Zenon
  <2>1. KeptLink(c) \/ RefusedLink(c)
    BY Zenon DEF LiveInv, Orderly
  <2>2. Joins(c, n, m)
    BY <1>1, Zenon DEF Joins
  <2>3. /\ tasks[c][n].writer # "ended"
        /\ tasks[c][n].writer = "run" => KeptLink(c) /\ peers[n][m] = c
        /\ tasks[c][n].reader = "run" => KeptLink(c)
    BY <1>1, <2>1, <2>2, OrderlyTasks
  <2> QED
    BY <1>3, <2>3, Zenon DEF KeptLink
<1>5. \A k, j \in Endpoints : {k, j} # links[c].ends => peers'[k][j] = peers[k][j]
  <2>1. CASE peers' = [peers EXCEPT ![n][m] = NoLink]
    <3>1. peers \in [Endpoints -> [Endpoints -> Nat \cup {NoLink}]]
      BY Zenon DEF PeersInv
    <3>2. \A k, j \in Endpoints : ~(k = n /\ j = m) => peers'[k][j] = peers[k][j]
      BY <1>1, <2>1, <3>1
    <3> QED
      BY <1>1, <3>2, Zenon
  <2> QED
    BY <1>2, <2>1, Zenon
<1> QED
  BY <1>4, <1>5, OthersOrderly, Zenon

\* Every step keeps what the pairs that never crossed have.
LEMMA LiveStep == PeersInv /\ LiveInv /\ [TransportNext]_transportVars => LiveInv'
<1> SUFFICES ASSUME PeersInv, LiveInv, [TransportNext]_transportVars PROVE LiveInv'
  BY Zenon
<1>1. CASE UNCHANGED <<peers, links, tasks, breaks, crossed>>
  <2>1. LinkIds' = LinkIds
    BY <1>1, Zenon DEF LinkIds
  <2>2. ASSUME NEW c \in LinkIds, Orderly(c) PROVE Orderly(c)'
    <3>1. (KeptLink(c) \/ RefusedLink(c))'
      BY <1>1, <2>2, StaysOrderly, Zenon DEF Orderly
    <3>2. \A d \in LinkIds : SetUpBefore(c, d)'
      BY <1>1, <2>2, Zenon DEF Orderly, SetUpBefore
    <3> QED
      BY <2>1, <3>1, <3>2, Zenon DEF Orderly
  <2> QED
    BY <1>1, <2>1, <2>2, Zenon DEF LiveInv
<1>2. CASE breaks' = breaks + 1
  <2>1. \A k \in Nat : k + 1 \in Nat /\ k + 1 # 0
    OBVIOUS
  <2> QED
    BY <1>2, <2>1, Zenon DEF LiveInv
<1>3. ASSUME NEW n \in Endpoints, Bind(n) \/ SendReturns(n) \/ \E S \in SUBSET Endpoints : Recv(n, S)
      PROVE  UNCHANGED <<peers, links, tasks, breaks, crossed>>
  BY <1>3, Zenon DEF Bind, SendReturns, Recv
<1>4. ASSUME NEW n \in Endpoints, NEW m \in Endpoints \ {n},
             Connect(n, m) \/ DialFails(n, m) \/ Send(n, m) \/ LoopSends(n, m)
      PROVE  UNCHANGED <<peers, links, tasks, breaks, crossed>>
  BY <1>4, Zenon DEF Connect, DialFails, Send, LoopSends
<1>5. ASSUME NEW c \in LinkIds, NEW n \in links[c].ends,
             \/ WriterSends(n, c) \/ WriterFails(n, c) \/ WriterDrained(n, c) \/ WriterCleanup(n, c)
             \/ ReaderReceives(n, c) \/ ReaderSkips(n, c) \/ ReaderEnds(n, c)
      PROVE  LiveInv'
  <2>1. tasks[c][n] \in Tasks
    BY Zenon DEF PeersInv, LinksOK
  <2>2. /\ [tasks[c][n] EXCEPT !.writer = "ended"] \in Tasks /\ [tasks[c][n] EXCEPT !.writer = "none"] \in Tasks
        /\ [tasks[c][n] EXCEPT !.reader = "none"] \in Tasks
    BY <2>1 DEF Tasks
  <2> HIDE DEF Tasks
  <2>3. CASE WriterFails(n, c)
    BY <2>2, <2>3, EndingLive, Zenon DEF WriterFails
  <2>4. CASE WriterDrained(n, c)
    BY <2>2, <2>4, EndingLive, Zenon DEF WriterDrained
  <2>5. CASE WriterCleanup(n, c)
    <3>1. peers' = peers \/ peers' = [peers EXCEPT ![n][Far(c, n)] = NoLink]
      BY <2>5, Zenon DEF WriterCleanup
    <3> QED
      BY <2>2, <2>5, <3>1, EndingLive, Zenon DEF WriterCleanup
  <2>6. CASE WriterSends(n, c) \/ ReaderReceives(n, c) \/ ReaderSkips(n, c)
    BY <1>1, <2>6, Zenon DEF WriterSends, ReaderReceives, ReaderSkips
  <2>7. CASE ReaderEnds(n, c)
    BY <2>2, <2>7, EndingLive, Zenon DEF ReaderEnds
  <2> QED
    BY <1>5, <2>3, <2>4, <2>5, <2>6, <2>7, Zenon
<1>6. ASSUME NEW n \in Endpoints, NEW m \in Endpoints \ {n}, Disconnect(n, m) PROVE breaks' = breaks + 1
  BY <1>6, Zenon DEF Disconnect
<1>7. ASSUME NEW c \in LinkIds, LinkFails(c) PROVE breaks' = breaks + 1
  BY <1>7, Zenon DEF LinkFails
<1>8. CASE UNCHANGED transportVars
  BY <1>1, <1>8, Zenon DEF transportVars
<1>9. ASSUME NEW n \in Endpoints, Bind(n) \/ SendReturns(n) \/ \E S \in SUBSET Endpoints : Recv(n, S)
      PROVE  LiveInv'
  BY <1>1, <1>3, <1>9, Zenon
<1>10. ASSUME NEW n \in Endpoints, NEW m \in Endpoints \ {n}, NEW b \in BOOLEAN,
              \/ Connect(n, m) \/ DialFails(n, m) \/ Send(n, m) \/ LoopSends(n, m)
              \/ Dialled(n, m, b) \/ Disconnect(n, m)
       PROVE  LiveInv'
  <2>1. CASE Connect(n, m) \/ DialFails(n, m) \/ Send(n, m) \/ LoopSends(n, m)
    BY <1>1, <1>4, <2>1, Zenon
  <2>2. CASE Dialled(n, m, b)
    BY <2>2, DialledLive, Zenon
  <2>3. CASE Disconnect(n, m)
    BY <1>2, <1>6, <2>3, Zenon
  <2> QED
    BY <1>10, <2>1, <2>2, <2>3, Zenon
<1> QED
  BY <1>2, <1>5, <1>7, <1>8, <1>9, <1>10, SetupLive, Zenon DEF TransportNext

\* No connection is there at first.
LEMMA LiveInit == TransportInit => LiveInv
<1> SUFFICES ASSUME TransportInit PROVE LiveInv
  BY Zenon
<1>1. LinkIds = {} /\ breaks \in Nat
  BY DEF TransportInit, LinkIds
<1> QED
  BY <1>1, Zenon DEF LiveInv

\* The entry of a kept connection, from the invariant.
LEMMA LiveEntries == PeersInv /\ LiveInv => KeptIsLive
<1> SUFFICES ASSUME PeersInv, LiveInv, NEW n \in Endpoints, NEW m \in Endpoints, peers[n][m] # NoLink,
                    breaks = 0, {n, m} \notin crossed
             PROVE  /\ links[peers[n][m]].open
                    /\ tasks[peers[n][m]][m].setup \/ peers[m][n] = peers[n][m]
  BY Zenon DEF KeptIsLive
<1> DEFINE c == peers[n][m]
<1>1. EntryOK(n, m, c) /\ peers[n][m] = c
  BY Zenon DEF PeersInv
<1> HIDE DEF c
<1>2. c \in LinkIds /\ links[c].ends = {n, m} /\ Joins(c, n, m) /\ Joins(c, m, n)
  BY <1>1, Zenon DEF EntryOK, Joins
<1>3. KeptLink(c)
  <2>1. KeptLink(c) \/ RefusedLink(c)
    BY <1>2, Zenon DEF LiveInv, Orderly
  <2> QED
    BY <1>1, <1>2, <2>1, Zenon DEF RefusedLink
<1>4. Pending.setup
  BY Zenon DEF Pending, NoTasks
<1>5. links[c].open /\ (tasks[c][m].setup \/ peers[m][n] = c)
  BY <1>2, <1>3, <1>4, Zenon DEF KeptLink
<1> QED
  BY <1>5, Zenon DEF c

\* KeptIsLive, for any number of nodes, connections and calls: a connection that
\* setup_connection has kept stays open, and the other end has registered it too or
\* is about to, as long as nobody disconnects, no connection fails and the pair
\* never had two connections set up at once.
THEOREM KeptAlwaysLive == TransportSpec => []KeptIsLive
<1>1. TransportInit => PeersInv /\ LiveInv
  BY PeersInit, LiveInit, Zenon
<1>2. PeersInv /\ LiveInv /\ [TransportNext]_transportVars => PeersInv' /\ LiveInv'
  BY PeersStep, LiveStep, Zenon
<1>3. PeersInv /\ LiveInv => KeptIsLive
  BY LiveEntries
<1> QED
  BY <1>1, <1>2, <1>3, PTL DEF TransportSpec
=============================================================================
