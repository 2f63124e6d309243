--------------------------- MODULE MessagingProofs ---------------------------
(***************************************************************************)
(* Proofs about what a user is shown.                                      *)
(*                                                                         *)
(* GroupChats, DirectMessages and MessageRequests: the limit on the        *)
(* members of a chat, the counters of unread messages, the lifetime of     *)
(* dead drops, who is in the main inbox and what the collection deletes,   *)
(* for any number of users, messages and relays and any skew of clocks.    *)
(*                                                                         *)
(* Feed: who has scrolled to the end has seen what there was, for any      *)
(* posts, page size and order of answers. The invariant says of every post *)
(* that was there all the time that it has a card, is in the answer at     *)
(* hand or is behind the cursor of the next page.                          *)
(***************************************************************************)
EXTENDS GroupChats, DirectMessages, MessageRequests, Feed, FiniteSetTheorems,
        TLAPS

----------------------------------------------------------------------------
(* Group chats. *)

\* A chat has members only once it exists, which is why a creation starts from none.
ChatInv == GroupChatsTypeOK /\ ChatWithinLimit

\* The members of a chat are finitely many, and so are those of a part of them.
LEMMA FewerMembers ==
  ASSUME NEW S \in SUBSET ChatUsers, NEW T \in SUBSET S
  PROVE  /\ Cardinality(S) \in Nat /\ Cardinality(T) \in Nat
         /\ Cardinality(T) <= Cardinality(S)
  BY FS_Subset, FS_CardinalityType, ChatAssumption, Zenon

\* One more member counts for at most one.
LEMMA OneMoreMember ==
  ASSUME NEW S \in SUBSET ChatUsers, NEW u \in ChatUsers
  PROVE  /\ Cardinality(S) \in Nat /\ Cardinality(S \cup {u}) \in Nat
         /\ Cardinality(S \cup {u}) <= Cardinality(S) + 1
<1>1. IsFiniteSet(S)
  BY FS_Subset, ChatAssumption, Zenon
<1>2. Cardinality(S) \in Nat
  BY <1>1, FS_CardinalityType, Zenon
<1>3. Cardinality(S \cup {u}) = IF u \in S THEN Cardinality(S) ELSE Cardinality(S) + 1
  BY <1>1, FS_AddElement, Zenon
<1> QED
  BY <1>2, <1>3

\* Every call keeps the limit: create_private_chat and add_chat_member check it,
\* the others add nobody.
LEMMA ChatStepInv == ChatInv /\ [GroupChatsNext]_chatVars => ChatInv'
<1> SUFFICES ASSUME ChatInv, [GroupChatsNext]_chatVars PROVE ChatInv'
  BY Zenon
<1> USE DEF ChatInv
<1>0. \A k : MembersOf(k) \in SUBSET ChatUsers /\ MembersOf(k)' \in SUBSET ChatUsers
  BY Zenon DEF MembersOf
<1>1. CASE UNCHANGED chatVars
  BY <1>1, Zenon DEF chatVars, GroupChatsTypeOK, ChatWithinLimit, MembersOf
<1>2. ASSUME NEW k \in ChatIds, NEW others \in SUBSET ChatUsers, CreatePrivateChat(k, others)
      PROVE  ChatInv'
  <2>1. k[1] \in ChatUsers
    BY ChatAssumption, Zenon DEF ChatIds
  <2>2. GroupChatsTypeOK'
    BY <1>2, <2>1 DEF CreatePrivateChat, GroupChatsTypeOK
  <2>3. MembersOf(k)' = others \cup {k[1]}
    BY <1>2, <2>1, Zenon DEF CreatePrivateChat, MembersOf, GroupChatsTypeOK
  <2>4. \A j \in ChatIds : j # k => MembersOf(j)' = MembersOf(j)
    BY <1>2, Zenon DEF CreatePrivateChat, MembersOf
  <2>5. Cardinality(MembersOf(k)') <= MaxChatMembers
    BY <1>2, <2>1, <2>3, OneMoreMember, ChatAssumption DEF CreatePrivateChat
  <2> QED
    BY <2>2, <2>4, <2>5, Zenon DEF ChatWithinLimit
<1>3. ASSUME NEW k \in ChatIds, NEW adder \in ChatUsers, NEW u \in ChatUsers, AddChatMember(k, adder, u)
      PROVE  ChatInv'
  <2>1. GroupChatsTypeOK'
    BY <1>3 DEF AddChatMember, GroupChatsTypeOK
  <2>2. MembersOf(k)' = MembersOf(k) \cup {u}
    BY <1>3, Zenon DEF AddChatMember, MembersOf
  <2>3. \A j \in ChatIds : j # k => MembersOf(j)' = MembersOf(j)
    BY <1>3, Zenon DEF AddChatMember, MembersOf
  <2>4. Cardinality(MembersOf(k)') <= MaxChatMembers
    BY <1>0, <1>3, <2>2, OneMoreMember, ChatAssumption DEF AddChatMember
  <2> QED
    BY <2>1, <2>3, <2>4, Zenon DEF ChatWithinLimit
<1>4. ASSUME NEW k \in ChatIds, NEW u \in ChatUsers, LeaveChat(k, u) PROVE ChatInv'
  <2>1. GroupChatsTypeOK'
    BY <1>4, Zenon DEF LeaveChat, GroupChatsTypeOK
  <2>2. ASSUME NEW j \in ChatIds PROVE Cardinality(MembersOf(j)') <= MaxChatMembers
    <3>1. MembersOf(j)' \in SUBSET MembersOf(j)
      BY <1>4, Zenon DEF LeaveChat, MembersOf
    <3>2. Cardinality(MembersOf(j)) <= MaxChatMembers
      BY Zenon DEF ChatWithinLimit
    <3> QED
      BY <1>0, <3>1, <3>2, FewerMembers, ChatAssumption
  <2> QED
    BY <2>1, <2>2, Zenon DEF ChatWithinLimit
<1>5. ASSUME NEW k \in ChatIds, NEW u \in ChatUsers, SendGroupChatMessage(k, u) PROVE ChatInv'
  BY <1>5, Zenon DEF SendGroupChatMessage, GroupChatsTypeOK, ChatWithinLimit, MembersOf
<1>6. ASSUME NEW u \in ChatUsers, NEW v \in ChatUsers, SetBlock(u, v) PROVE ChatInv'
  BY <1>6 DEF SetBlock, GroupChatsTypeOK, ChatWithinLimit, MembersOf
<1> QED
  BY <1>1, <1>2, <1>3, <1>4, <1>5, <1>6, Zenon DEF GroupChatsNext, GroupChatsApi

\* At the start no chat has a member.
LEMMA ChatInitInv == GroupChatsInit => ChatInv
<1> SUFFICES ASSUME GroupChatsInit PROVE ChatInv
  BY Zenon
<1>1. \A k : MembersOf(k) = {}
  BY Zenon DEF GroupChatsInit, MembersOf
<1> QED
  BY <1>1, FS_EmptySet, ChatAssumption DEF GroupChatsInit, ChatInv, GroupChatsTypeOK, ChatWithinLimit

\* The invariant holds in every state.
THEOREM ChatInvariant == GroupChatsSpec => []ChatInv
  BY ChatInitInv, ChatStepInv, PTL DEF GroupChatsSpec

\* A private chat never has more than MAX_PRIVATE_CHAT_MEMBERS members, whatever
\* is created, added and left in whatever order.
THEOREM ChatsStayWithinLimit == GroupChatsSpec => []ChatWithinLimit
  BY ChatInvariant, PTL DEF ChatInv

\* A chat that everyone has left stays empty: add_chat_member asks for a member
\* and create_private_chat for an identifier that is free.
THEOREM EmptyChatsStayEmpty == GroupChatsSpec => LeftForGood
<1> DEFINE Stays == \A k \in chats : MembersOf(k) = {} => (MembersOf(k) = {})'
<1>1. ChatInv /\ [GroupChatsNext]_chatVars => [Stays]_chatVars
  <2> SUFFICES ASSUME ChatInv, GroupChatsNext, NEW k \in chats, MembersOf(k) = {}
               PROVE  MembersOf(k)' = {}
    BY Zenon
  <2>1. \A u \in ChatUsers : <<k, u>> \notin inChat
    BY Zenon DEF MembersOf
  <2>2. \A u \in ChatUsers : <<k, u>> \notin inChat'
    <3>1. ASSUME NEW j \in ChatIds, NEW others \in SUBSET ChatUsers, CreatePrivateChat(j, others)
          PROVE  \A u \in ChatUsers : <<k, u>> \notin inChat'
      BY <2>1, <3>1, Zenon DEF CreatePrivateChat
    <3>2. ASSUME NEW j \in ChatIds, NEW a \in ChatUsers, NEW v \in ChatUsers, AddChatMember(j, a, v)
          PROVE  \A u \in ChatUsers : <<k, u>> \notin inChat'
      BY <2>1, <3>2, Zenon DEF AddChatMember
    <3>3. ASSUME NEW j \in ChatIds, NEW v \in ChatUsers, LeaveChat(j, v) \/ SendGroupChatMessage(j, v)
          PROVE  \A u \in ChatUsers : <<k, u>> \notin inChat'
      BY <2>1, <3>3, Zenon DEF LeaveChat, SendGroupChatMessage
    <3>4. ASSUME NEW v \in ChatUsers, NEW w \in ChatUsers, SetBlock(v, w)
          PROVE  \A u \in ChatUsers : <<k, u>> \notin inChat'
      BY <2>1, <3>4, Zenon DEF SetBlock
    <3> QED
      BY <3>1, <3>2, <3>3, <3>4, Zenon DEF GroupChatsNext, GroupChatsApi
  <2> QED
    BY <2>2, Zenon DEF MembersOf
<1> QED
  BY <1>1, ChatInvariant, PTL DEF GroupChatsSpec, LeftForGood

----------------------------------------------------------------------------
(* Unread counters. *)

Keys == ({"body"} \X Bodies) \cup ({"dm"} \X Peers \X Bodies \X (0 .. MaxTime))
Rows == [key : Keys, peer : Peers, from : Peers, read : BOOLEAN, till : Nat]
Unread(p, q) == UnreadRows(letters[p], q)
AtMostOne == {{}} \cup {{q} : q \in Peers}

\* What the counter of one conversation owes: one more while a row is inserted and
\* not counted; nothing is unread while the reset is due. The rows that count are
\* finitely many.
Tallied(p, q) ==
    /\ IsFiniteSet(Unread(p, q))
    /\ \/ <<p, q>> \in disturbed
       \/ q \in reading[p] /\ q \notin storing[p] /\ Unread(p, q) = {}
       \/ /\ q \notin reading[p]
          /\ unread[p][q] + (IF q \in storing[p] THEN 1 ELSE 0)
                = Cardinality(Unread(p, q)) + swept[p][q]

UnreadTypeOK ==
    /\ time \in 0 .. MaxTime
    /\ letters \in [Peers -> SUBSET Rows]
    /\ unread \in [Peers -> [Peers -> Nat]]
    /\ talks \in [Peers -> SUBSET Peers]
    /\ storing \in [Peers -> AtMostOne]
    /\ reading \in [Peers -> AtMostOne]
    /\ swept \in [Peers -> [Peers -> Nat]]
    /\ ether \subseteq {"dm", "drop"} \X Messages

UnreadInv == UnreadTypeOK /\ \A p, q \in Peers : Tallied(p, q)

\* Nobody has written yet.
LEMMA UnreadInitInv == DmInit => UnreadInv
<1> SUFFICES ASSUME DmInit PROVE UnreadInv
  BY Zenon
<1>1. ASSUME NEW p \in Peers, NEW q \in Peers PROVE Tallied(p, q)
  <2>1. Unread(p, q) = {}
    BY Zenon DEF DmInit, Unread, UnreadRows
  <2>2. unread[p][q] = 0 /\ swept[p][q] = 0 /\ q \notin storing[p] /\ q \notin reading[p]
    BY Zenon DEF DmInit
  <2>3. IsFiniteSet(Unread(p, q)) /\ Cardinality(Unread(p, q)) = 0
    BY <2>1, FS_EmptySet, Zenon
  <2> QED
    BY <2>2, <2>3 DEF Tallied
<1>2. UnreadTypeOK
  BY DmAssumption DEF DmInit, UnreadTypeOK, AtMostOne
<1> QED
  BY <1>1, <1>2, Zenon DEF UnreadInv

\* A conversation that a step leaves alone.
LEMMA TalliedFrame ==
  ASSUME NEW p \in Peers, NEW q \in Peers, Tallied(p, q),
         Unread(p, q)' = Unread(p, q), unread'[p][q] = unread[p][q],
         swept'[p][q] = swept[p][q], (q \in storing[p])' <=> q \in storing[p],
         (q \in reading[p])' <=> q \in reading[p],
         (<<p, q>> \in disturbed)' <=> <<p, q>> \in disturbed
  PROVE  Tallied(p, q)'
  BY Zenon DEF Tallied

\* The row of the sender is read, and counts for nothing.
LEMMA SendCounts ==
  ASSUME UnreadInv, NEW p \in Senders, NEW q \in Peers, NEW b \in Bodies, NEW ttl \in Ttls,
         NEW on \in BOOLEAN, SendDm(p, q, b, ttl, on)
  PROVE  UnreadInv'
<1> DEFINE m == [from |-> p, to |-> q, body |-> b, at |-> time,
                 till |-> time + Least(ttl, MaxDropTtl)]
           row == [key |-> <<"body", b>>, peer |-> q, from |-> p, read |-> TRUE,
                   till |-> time + ttl]
<1> USE DEF UnreadInv
<1>1. p \in Peers /\ time \in Nat /\ ttl \in Nat
  BY DmAssumption DEF UnreadTypeOK
<1>2. m \in Messages
  <2>1. time + Least(ttl, MaxDropTtl) \in 0 .. (MaxTime + MaxDropTtl)
    BY DmAssumption DEF Least, UnreadTypeOK
  <2> QED
    BY <1>1, <2>1, Zenon DEF Messages, UnreadTypeOK
<1>3. row \in Rows /\ row.read
  <2>1. <<"body", b>> \in Keys /\ time + ttl \in Nat
    BY <1>1 DEF Keys
  <2> QED
    BY <1>1, <2>1, Zenon DEF Rows
<1>4. letters' = letters \/ letters' = [letters EXCEPT ![p] = @ \cup {row}]
  BY Zenon DEF SendDm
<1>5. ether' \subseteq ether \cup {<<"dm", m>>, <<"drop", m>>}
  BY Zenon DEF SendDm
<1>6. talks' = [talks EXCEPT ![p] = @ \cup {q}] /\ UNCHANGED <<time, unread, counting>>
  BY Zenon DEF SendDm
<1> HIDE DEF m, row
<1>7. \A x, y \in Peers : Unread(x, y)' = Unread(x, y)
  BY <1>1, <1>3, <1>4, Zenon DEF Unread, UnreadRows, UnreadTypeOK
<1>8. letters' \in [Peers -> SUBSET Rows] /\ talks' \in [Peers -> SUBSET Peers]
  BY <1>1, <1>3, <1>4, <1>6 DEF UnreadTypeOK
<1>9. ether' \subseteq {"dm", "drop"} \X Messages
  BY <1>2, <1>5 DEF UnreadTypeOK
<1>10. \A x, y \in Peers : Tallied(x, y)'
  BY <1>6, <1>7, TalliedFrame, Zenon DEF counting
<1> QED
  BY <1>6, <1>8, <1>9, <1>10, Zenon DEF UnreadTypeOK, counting

\* The ingest loop inserts a new row, and owes its count.
LEMMA StoreCounts ==
  ASSUME UnreadInv, NEW p \in Peers, NEW e \in ether, StoreDm(p, e[2])
  PROVE  UnreadInv'
<1> DEFINE m == e[2]
           row == [key |-> <<"dm", m.from, m.body, m.at>>, peer |-> m.from,
                   from |-> m.from, read |-> FALSE, till |-> time + RowTtl]
<1> USE DEF UnreadInv
<1>1. m \in Messages
  BY Zenon DEF UnreadTypeOK
<1>2. m.from \in Peers /\ m.body \in Bodies /\ m.at \in 0 .. MaxTime
  BY <1>1, Zenon DEF Messages
<1>3. row \in Rows /\ row.peer = m.from /\ ~row.read
  <2>1. <<"dm", m.from, m.body, m.at>> \in Keys
    BY <1>2, Zenon DEF Keys
  <2>2. time + RowTtl \in Nat
    BY DmAssumption DEF UnreadTypeOK
  <2> QED
    BY <1>2, <2>1, <2>2, Zenon DEF Rows
<1>4. talks' = [talks EXCEPT ![p] = @ \cup {m.from}] /\ UNCHANGED <<time, unread, reading, swept, ether>>
  BY Zenon DEF StoreDm, transit
<1>5. CASE HasRow(p, row.key)
  <2>1. UNCHANGED <<letters, storing, disturbed>>
    BY <1>5, Zenon DEF StoreDm
  <2>2. \A x, y \in Peers : Tallied(x, y)'
    BY <1>4, <2>1, TalliedFrame, Zenon DEF Unread
  <2> QED
    BY <1>2, <1>4, <2>1, <2>2, Zenon DEF UnreadTypeOK
<1>6. CASE ~HasRow(p, row.key)
  <2>1. /\ letters' = [letters EXCEPT ![p] = @ \cup {row}]
        /\ storing[p] = {} /\ storing' = [storing EXCEPT ![p] = {m.from}]
        /\ disturbed' = Disturbing(p, m.from, m.from \in reading[p])
    BY <1>6, Zenon DEF StoreDm
  <2>2. row \notin letters[p]
    BY <1>6, Zenon DEF HasRow
  <2> HIDE DEF row, m
  <2>3. Unread(p, m.from)' = Unread(p, m.from) \cup {row} /\ row \notin Unread(p, m.from)
    BY <1>3, <2>1, <2>2, Zenon DEF Unread, UnreadRows, UnreadTypeOK
  <2>4. \A x, y \in Peers : ~(x = p /\ y = m.from) => Unread(x, y)' = Unread(x, y)
    BY <1>3, <2>1, Zenon DEF Unread, UnreadRows, UnreadTypeOK
  <2>5. /\ letters' \in [Peers -> SUBSET Rows] /\ talks' \in [Peers -> SUBSET Peers]
        /\ storing' \in [Peers -> AtMostOne]
    BY <1>2, <1>3, <1>4, <2>1, Zenon DEF UnreadTypeOK, AtMostOne
  <2>6. /\ IsFiniteSet(Unread(p, m.from)')
        /\ Cardinality(Unread(p, m.from)') = Cardinality(Unread(p, m.from)) + 1
    BY <1>2, <2>3, FS_AddElement, Zenon DEF Tallied
  <2>7. Tallied(p, m.from)'
    <3>1. CASE m.from \in reading[p]
      BY <2>1, <2>6, <3>1, Zenon DEF Tallied, Disturbing
    <3>2. CASE m.from \notin reading[p]
      <4>1. /\ m.from \notin storing[p] /\ m.from \in storing'[p] /\ m.from \notin reading'[p]
            /\ disturbed' = disturbed
        BY <1>4, <2>1, <3>2, Zenon DEF Disturbing, UnreadTypeOK
      <4>2. Tallied(p, m.from)
        BY <1>2, Zenon
      <4>3. CASE <<p, m.from>> \in disturbed
        BY <2>6, <4>1, <4>3, Zenon DEF Tallied
      <4>4. CASE <<p, m.from>> \notin disturbed
        <5>1. unread[p][m.from] = Cardinality(Unread(p, m.from)) + swept[p][m.from]
          BY <1>2, <3>2, <4>1, <4>2, <4>4 DEF Tallied, UnreadTypeOK
        <5>2. Cardinality(Unread(p, m.from)) \in Nat
          BY <4>2, FS_CardinalityType, Zenon DEF Tallied
        <5>3. unread[p][m.from] \in Nat /\ swept[p][m.from] \in Nat
          BY <1>2, Zenon DEF UnreadTypeOK
        <5>4. unread'[p][m.from] + 1 = Cardinality(Unread(p, m.from)') + swept'[p][m.from]
          BY <1>4, <2>6, <5>1, <5>2, <5>3
        <5> QED
          BY <2>6, <4>1, <5>4, Zenon DEF Tallied
      <4> QED
        BY <4>3, <4>4, Zenon
    <3> QED
      BY <3>1, <3>2, Zenon
  <2>8. ASSUME NEW x \in Peers, NEW y \in Peers, ~(x = p /\ y = m.from) PROVE Tallied(x, y)'
    <3>1. (y \in storing[x])' <=> y \in storing[x]
      BY <2>1, <2>8, Zenon DEF UnreadTypeOK
    <3>2. (<<x, y>> \in disturbed)' <=> <<x, y>> \in disturbed
      BY <2>1, <2>8 DEF Disturbing
    <3> QED
      BY <1>4, <2>4, <2>8, <3>1, <3>2, TalliedFrame, Zenon
  <2> QED
    BY <1>4, <2>5, <2>7, <2>8, Zenon DEF UnreadTypeOK
<1> QED
  BY <1>5, <1>6, Zenon

\* The count of a row that was inserted is paid, or the failure is remembered.
LEMMA CountCounts ==
  ASSUME UnreadInv, NEW p \in Peers, NEW q \in Peers, NEW ok \in BOOLEAN, CountDm(p, q, ok)
  PROVE  UnreadInv'
<1> USE DEF UnreadInv
<1>1. /\ q \in storing[p] /\ storing' = [storing EXCEPT ![p] = {}]
      /\ unread' = IF ok THEN [unread EXCEPT ![p][q] = @ + 1] ELSE unread
      /\ disturbed' = Disturbing(p, q, ~ok)
      /\ UNCHANGED <<time, letters, talks, reading, swept, ether>>
  BY Zenon DEF CountDm, transit
<1>2. storing[p] = {q} /\ storing' \in [Peers -> AtMostOne]
  <2>1. storing[p] \in AtMostOne /\ {} \in AtMostOne
    BY Zenon DEF UnreadTypeOK, AtMostOne
  <2>2. storing[p] = {q}
    BY <1>1, <2>1, Zenon DEF AtMostOne
  <2> QED
    BY <1>1, <2>1, <2>2, Zenon DEF UnreadTypeOK
<1>3. unread' \in [Peers -> [Peers -> Nat]]
  BY <1>1 DEF UnreadTypeOK
<1>4. \A x, y \in Peers : Unread(x, y)' = Unread(x, y)
  BY <1>1, Zenon DEF Unread
<1>5. Tallied(p, q)'
  <2>1. CASE ~ok
    BY <1>1, <1>4, <2>1, Zenon DEF Tallied, Disturbing
  <2>2. CASE ok
    <3>1. /\ disturbed' = disturbed /\ q \notin storing'[p]
          /\ unread'[p][q] = unread[p][q] + 1
      BY <1>1, <2>2, Zenon DEF Disturbing, UnreadTypeOK
    <3>2. unread[p][q] \in Nat
      BY Zenon DEF UnreadTypeOK
    <3>3. CASE <<p, q>> \in disturbed
      BY <1>4, <3>1, <3>3, Zenon DEF Tallied
    <3>4. CASE <<p, q>> \notin disturbed
      <4>1. q \notin reading[p] /\ unread[p][q] + 1 = Cardinality(Unread(p, q)) + swept[p][q]
        BY <1>1, <3>4, Zenon DEF Tallied
      <4>2. unread'[p][q] + 0 = Cardinality(Unread(p, q)') + swept'[p][q]
        BY <1>1, <1>4, <3>1, <3>2, <4>1
      <4> QED
        BY <1>1, <1>4, <3>1, <4>1, <4>2, Zenon DEF Tallied
    <3> QED
      BY <3>3, <3>4, Zenon
  <2> QED
    BY <2>1, <2>2, Zenon
<1>6. ASSUME NEW x \in Peers, NEW y \in Peers, ~(x = p /\ y = q) PROVE Tallied(x, y)'
  <2>1. (y \in storing[x])' <=> y \in storing[x]
    BY <1>1, <1>2, <1>6 DEF UnreadTypeOK
  <2>2. (<<x, y>> \in disturbed)' <=> <<x, y>> \in disturbed
    BY <1>1, <1>6 DEF Disturbing
  <2>3. unread'[x][y] = unread[x][y]
    BY <1>1, <1>6, Zenon DEF UnreadTypeOK
  <2> QED
    BY <1>1, <1>4, <2>1, <2>2, <2>3, TalliedFrame, Zenon
<1> QED
  BY <1>1, <1>2, <1>3, <1>5, <1>6, Zenon DEF UnreadTypeOK

\* All rows of the conversation are read when its reset becomes due.
LEMMA MarkCounts ==
  ASSUME UnreadInv, NEW p \in Peers, NEW q \in Peers, MarkRead(p, q)
  PROVE  UnreadInv'
<1> DEFINE marked == {IF r.peer = q THEN [r EXCEPT !.read = TRUE] ELSE r : r \in letters[p]}
<1> USE DEF UnreadInv
<1>1. /\ letters' = [letters EXCEPT ![p] = marked]
      /\ reading[p] = {} /\ reading' = [reading EXCEPT ![p] = {q}]
      /\ disturbed' = IF q \in storing[p] THEN disturbed \cup {<<p, q>>} ELSE disturbed \ {<<p, q>>}
      /\ UNCHANGED <<time, unread, talks, storing, swept, ether>>
  BY Zenon DEF MarkRead, transit
<1>2. \A r \in Rows : [r EXCEPT !.read = TRUE] \in Rows /\ [r EXCEPT !.read = TRUE].read
                      /\ [r EXCEPT !.read = TRUE].peer = r.peer
  BY Zenon DEF Rows
<1>a. \A r \in letters[p] : r \in Rows
  BY Zenon DEF UnreadTypeOK
<1>3. marked \in SUBSET Rows
  BY <1>2, <1>a
<1>b. \A r \in marked : \/ r.peer = q /\ r.read
                        \/ r.peer # q /\ r \in letters[p]
  <2> TAKE r \in marked
  <2>1. PICK o \in letters[p] : r = IF o.peer = q THEN [o EXCEPT !.read = TRUE] ELSE o
    BY Zenon
  <2>2. o \in Rows
    BY <1>a, Zenon
  <2> QED
    BY <1>2, <2>1, <2>2, Zenon
<1>c. \A r \in letters[p] : r.peer # q => r \in marked
  BY Zenon
<1> HIDE DEF marked
<1>4. UnreadRows(marked, q) = {}
  BY <1>b, Zenon DEF UnreadRows
<1>5. \A y \in Peers : y # q => UnreadRows(marked, y) = Unread(p, y)
  BY <1>b, <1>c, Zenon DEF Unread, UnreadRows
<1>6. Unread(p, q)' = {}
  BY <1>1, <1>4, Zenon DEF Unread, UnreadTypeOK
<1>7. \A x, y \in Peers : ~(x = p /\ y = q) => Unread(x, y)' = Unread(x, y)
  BY <1>1, <1>5, Zenon DEF Unread, UnreadTypeOK
<1>8. letters' \in [Peers -> SUBSET Rows] /\ reading' \in [Peers -> AtMostOne]
  BY <1>1, <1>3, Zenon DEF UnreadTypeOK, AtMostOne
<1>9. Tallied(p, q)'
  <2>1. IsFiniteSet(Unread(p, q)')
    BY <1>6, FS_EmptySet, Zenon
  <2>2. q \in reading'[p] /\ (q \in storing[p] => <<p, q>> \in disturbed')
    BY <1>1, Zenon DEF UnreadTypeOK
  <2> QED
    BY <1>1, <1>6, <2>1, <2>2, Zenon DEF Tallied
<1>10. ASSUME NEW x \in Peers, NEW y \in Peers, ~(x = p /\ y = q) PROVE Tallied(x, y)'
  <2>1. (y \in reading[x])' <=> y \in reading[x]
    BY <1>1, <1>10, Zenon DEF UnreadTypeOK
  <2>2. (<<x, y>> \in disturbed)' <=> <<x, y>> \in disturbed
    BY <1>1, <1>10
  <2> QED
    BY <1>1, <1>7, <1>10, <2>1, <2>2, TalliedFrame, Zenon
<1> QED
  BY <1>1, <1>8, <1>9, <1>10, Zenon DEF UnreadTypeOK

\* The reset makes the counter right, as nothing is unread, or the failure is
\* remembered.
LEMMA ResetCounts ==
  ASSUME UnreadInv, NEW p \in Peers, NEW q \in Peers, NEW ok \in BOOLEAN, ResetUnread(p, q, ok)
  PROVE  UnreadInv'
<1> USE DEF UnreadInv
<1>1. /\ q \in reading[p] /\ reading' = [reading EXCEPT ![p] = {}]
      /\ unread' = IF ok THEN [unread EXCEPT ![p][q] = 0] ELSE unread
      /\ swept' = IF ok THEN [swept EXCEPT ![p][q] = 0] ELSE swept
      /\ disturbed' = Disturbing(p, q, ~ok)
      /\ UNCHANGED <<time, letters, talks, storing, ether>>
  BY Zenon DEF ResetUnread, transit
<1>2. reading[p] = {q} /\ reading' \in [Peers -> AtMostOne]
  <2>1. reading[p] \in AtMostOne /\ {} \in AtMostOne
    BY Zenon DEF UnreadTypeOK, AtMostOne
  <2>2. reading[p] = {q}
    BY <1>1, <2>1, Zenon DEF AtMostOne
  <2> QED
    BY <1>1, <2>1, <2>2, Zenon DEF UnreadTypeOK
<1>3. unread' \in [Peers -> [Peers -> Nat]] /\ swept' \in [Peers -> [Peers -> Nat]]
  BY <1>1 DEF UnreadTypeOK
<1>4. \A x, y \in Peers : Unread(x, y)' = Unread(x, y)
  BY <1>1, Zenon DEF Unread
<1>5. Tallied(p, q)'
  <2>1. CASE ~ok
    BY <1>1, <1>4, <2>1, Zenon DEF Tallied, Disturbing
  <2>2. CASE ok
    <3>1. /\ disturbed' = disturbed /\ q \notin reading'[p]
          /\ unread'[p][q] = 0 /\ swept'[p][q] = 0
      BY <1>1, <2>2, Zenon DEF Disturbing, UnreadTypeOK
    <3>3. CASE <<p, q>> \in disturbed
      BY <1>4, <3>1, <3>3, Zenon DEF Tallied
    <3>4. CASE <<p, q>> \notin disturbed
      <4>1. q \notin storing[p] /\ Unread(p, q) = {}
        BY <1>1, <3>4, Zenon DEF Tallied
      <4>2. IsFiniteSet(Unread(p, q)') /\ Cardinality(Unread(p, q)') = 0
        BY <1>4, <4>1, FS_EmptySet, Zenon
      <4>3. unread'[p][q] + 0 = Cardinality(Unread(p, q)') + swept'[p][q]
        BY <3>1, <4>2
      <4> QED
        BY <1>1, <3>1, <4>1, <4>2, <4>3, Zenon DEF Tallied
    <3> QED
      BY <3>3, <3>4, Zenon
  <2> QED
    BY <2>1, <2>2, Zenon
<1>6. ASSUME NEW x \in Peers, NEW y \in Peers, ~(x = p /\ y = q) PROVE Tallied(x, y)'
  <2>1. (y \in reading[x])' <=> y \in reading[x]
    BY <1>1, <1>2, <1>6 DEF UnreadTypeOK
  <2>2. (<<x, y>> \in disturbed)' <=> <<x, y>> \in disturbed
    BY <1>1, <1>6 DEF Disturbing
  <2>3. unread'[x][y] = unread[x][y] /\ swept'[x][y] = swept[x][y]
    BY <1>1, <1>6, Zenon DEF UnreadTypeOK
  <2> QED
    BY <1>1, <1>4, <2>1, <2>2, <2>3, TalliedFrame, Zenon
<1> QED
  BY <1>1, <1>2, <1>3, <1>5, <1>6, Zenon DEF UnreadTypeOK

\* The unread rows that the sweep takes are as many as it makes swept grow.
LEMMA SweepCounts ==
  ASSUME UnreadInv, NEW p \in Peers, SweepMessages(p)
  PROVE  UnreadInv'
<1> DEFINE gone == {r \in letters[p] : r.till < time}
<1> USE DEF UnreadInv
<1>1. /\ letters' = [letters EXCEPT ![p] = @ \ gone]
      /\ swept' = [swept EXCEPT ![p] = [q \in Peers |-> @[q] + Cardinality(UnreadRows(gone, q))]]
      /\ UNCHANGED <<time, unread, talks, storing, reading, disturbed, ether>>
  BY Zenon DEF SweepMessages, transit
<1>2. gone \subseteq letters[p]
  BY Zenon
<1> HIDE DEF gone
<1>3. \A y \in Peers : /\ UnreadRows(gone, y) \subseteq Unread(p, y)
                       /\ Unread(p, y)' = Unread(p, y) \ UnreadRows(gone, y)
  BY <1>1, <1>2, Zenon DEF Unread, UnreadRows, UnreadTypeOK
<1>4. ASSUME NEW y \in Peers
      PROVE  /\ IsFiniteSet(Unread(p, y)')
             /\ Cardinality(UnreadRows(gone, y)) \in Nat /\ Cardinality(Unread(p, y)) \in Nat
             /\ Cardinality(Unread(p, y)') = Cardinality(Unread(p, y)) - Cardinality(UnreadRows(gone, y))
  <2>1. IsFiniteSet(Unread(p, y))
    BY Zenon DEF Tallied
  <2>2. IsFiniteSet(UnreadRows(gone, y)) /\ Unread(p, y) \cap UnreadRows(gone, y) = UnreadRows(gone, y)
    BY <1>3, <2>1, FS_Subset, Zenon
  <2>3. /\ IsFiniteSet(Unread(p, y) \ UnreadRows(gone, y))
        /\ Cardinality(Unread(p, y) \ UnreadRows(gone, y))
             = Cardinality(Unread(p, y)) - Cardinality(Unread(p, y) \cap UnreadRows(gone, y))
    BY <2>1, FS_Difference, Zenon
  <2> QED
    BY <1>3, <2>1, <2>2, <2>3, FS_CardinalityType, Zenon
<1>5. \A y \in Peers : swept'[p][y] = swept[p][y] + Cardinality(UnreadRows(gone, y))
  BY <1>1, Zenon DEF UnreadTypeOK
<1>6. letters' \in [Peers -> SUBSET Rows]
  BY <1>1, Zenon DEF UnreadTypeOK
<1>7. swept' \in [Peers -> [Peers -> Nat]]
  <2>1. [q \in Peers |-> swept[p][q] + Cardinality(UnreadRows(gone, q))] \in [Peers -> Nat]
    BY <1>4 DEF UnreadTypeOK
  <2> QED
    BY <1>1, <2>1, Zenon DEF UnreadTypeOK
<1>8. ASSUME NEW y \in Peers PROVE Tallied(p, y)'
  <2>1. Tallied(p, y)
    BY Zenon
  <2>2. CASE <<p, y>> \in disturbed
    BY <1>1, <1>4, <2>2, Zenon DEF Tallied
  <2>3. CASE y \in reading[p] /\ y \notin storing[p] /\ Unread(p, y) = {}
    BY <1>1, <1>3, <1>4, <2>3, Zenon DEF Tallied
  <2>4. CASE /\ y \notin reading[p]
             /\ unread[p][y] + (IF y \in storing[p] THEN 1 ELSE 0)
                   = Cardinality(Unread(p, y)) + swept[p][y]
    <3>1. swept[p][y] \in Nat
      BY Zenon DEF UnreadTypeOK
    <3>2. Cardinality(Unread(p, y)') + swept'[p][y] = Cardinality(Unread(p, y)) + swept[p][y]
      BY <1>4, <1>5, <3>1
    <3> QED
      BY <1>1, <1>4, <2>4, <3>2, Zenon DEF Tallied
  <2> QED
    BY <2>1, <2>2, <2>3, <2>4, Zenon DEF Tallied
<1>9. ASSUME NEW x \in Peers, NEW y \in Peers, x # p PROVE Tallied(x, y)'
  <2>1. Unread(x, y)' = Unread(x, y) /\ swept'[x][y] = swept[x][y]
    BY <1>1, <1>9, Zenon DEF Unread, UnreadTypeOK
  <2> QED
    BY <1>1, <2>1, TalliedFrame, Zenon
<1>10. ASSUME NEW x \in Peers, NEW y \in Peers PROVE Tallied(x, y)'
  <2>1. CASE x = p
    BY <1>8, <2>1, Zenon
  <2> QED
    BY <1>9, <2>1, Zenon
<1> QED
  BY <1>1, <1>6, <1>7, <1>10, Zenon DEF UnreadTypeOK

\* Every step keeps what each counter owes.
LEMMA UnreadStepInv == UnreadInv /\ [DmNext]_dmVars => UnreadInv'
<1> SUFFICES ASSUME UnreadInv, [DmNext]_dmVars PROVE UnreadInv'
  BY Zenon
<1>0. ASSUME UNCHANGED rowVars, time' \in 0 .. MaxTime, ether' \subseteq ether PROVE UnreadInv'
  BY <1>0, Zenon DEF UnreadInv, UnreadTypeOK, Tallied, Unread, rowVars, counting
<1>1. CASE UNCHANGED dmVars
  BY <1>0, <1>1, Zenon DEF dmVars, transit, UnreadInv, UnreadTypeOK
<1>2. ASSUME NEW p \in Peers, NEW e \in ether, IngestEnvelope(p, e[2]) PROVE UnreadInv'
  BY <1>0, <1>2, Zenon DEF IngestEnvelope, UnreadInv, UnreadTypeOK
<1>3. ASSUME NEW e \in ether, LoseEnvelope(e) PROVE UnreadInv'
  BY <1>0, <1>3, Zenon DEF LoseEnvelope, UnreadInv, UnreadTypeOK
<1>4. ASSUME NEW p \in Peers, NEW r \in Peers, NEW q \in Peers, CopyDhtRecord(p, r, q) PROVE UnreadInv'
  BY <1>0, <1>4, Zenon DEF CopyDhtRecord, UnreadInv, UnreadTypeOK
<1>5. ASSUME NEW p \in Peers, PollRead(p) \/ PollFinish(p) PROVE UnreadInv'
  BY <1>0, <1>5, Zenon DEF PollRead, PollFinish, UnreadInv, UnreadTypeOK
<1>6. CASE Tick
  <2>1. time' \in 0 .. MaxTime
    BY <1>6, DmAssumption DEF Tick, UnreadInv, UnreadTypeOK
  <2> QED
    BY <1>0, <1>6, <2>1, Zenon DEF Tick, transit
<1>7. CASE MessagesApi
  BY <1>7, SendCounts, MarkCounts, ResetCounts, Zenon DEF MessagesApi
<1> QED
  BY <1>1, <1>2, <1>3, <1>4, <1>5, <1>6, <1>7, StoreCounts, CountCounts, SweepCounts, Zenon
     DEF DmNext

\* The counter of a conversation is the number of its unread rows, present or swept,
\* at every node, whatever gossip repeats, except where a reading and a delivery met
\* (handle_plaintext_dm, mark_read, the sweep).
THEOREM CountersAgree == DmSpec => []UnreadAgrees
<1>1. ASSUME UnreadInv, NEW p \in Peers, NEW q \in Peers,
             q \notin storing[p], q \notin reading[p], <<p, q>> \notin disturbed
      PROVE  unread[p][q] = Cardinality(UnreadRows(letters[p], q)) + swept[p][q]
  <2>1. unread[p][q] + 0 = Cardinality(Unread(p, q)) + swept[p][q] /\ unread[p][q] \in Nat
    BY <1>1 DEF UnreadInv, UnreadTypeOK, Tallied
  <2> QED
    BY <2>1 DEF Unread
<1>2. UnreadInv => UnreadAgrees
  BY <1>1, Zenon DEF UnreadAgrees
<1> QED
  BY <1>2, UnreadInitInv, UnreadStepInv, PTL DEF DmSpec

----------------------------------------------------------------------------
(* Dead drops. *)

Timely == {m \in Messages : m.till <= m.at + MaxDropTtl}

\* The bound holds of every copy on its way, or a relay would store a late one.
DropsInv ==
    /\ time \in 0 .. MaxTime
    /\ ether \subseteq {"dm", "drop"} \X Timely
    /\ drops \in [Peers -> SUBSET Timely]
    /\ box \in [Peers -> [Peers -> Timely \cup {Nothing}]]
    /\ fetched \in [Peers -> Timely \cup {Nothing, Idle}]

\* deposit_raw stores a copy that ends no later than what it was given.
LEMMA DepositTimely ==
  ASSUME time \in 0 .. MaxTime, NEW boxes \in SUBSET Timely, NEW m \in Timely
  PROVE  DepositRaw(boxes, m) \in SUBSET Timely
<1> DEFINE d == [m EXCEPT !.till = Least(m.till, time + MaxDropTtl)]
<1>1. m.at \in 0 .. MaxTime /\ m.till \in 0 .. (MaxTime + MaxDropTtl) /\ m.till <= m.at + MaxDropTtl
  BY Zenon DEF Timely, Messages
<1>2. Least(m.till, time + MaxDropTtl) \in 0 .. (MaxTime + MaxDropTtl)
      /\ Least(m.till, time + MaxDropTtl) <= m.till
  BY <1>1, DmAssumption DEF Least
<1>3. d \in Messages /\ d.at = m.at /\ d.till = Least(m.till, time + MaxDropTtl)
  BY <1>2, Zenon DEF Timely, Messages
<1> HIDE DEF d
<1>4. d \in Timely
  <2>1. d.till <= d.at + MaxDropTtl
    BY <1>1, <1>2, <1>3, DmAssumption
  <2> QED
    BY <1>3, <2>1, Zenon DEF Timely
<1>5. DepositRaw(boxes, m) \in {boxes, boxes \cup {d}}
  BY Zenon DEF DepositRaw, d
<1> QED
  BY <1>4, <1>5, Zenon

\* Every step keeps the bound: a message is made with it, and relays only clamp.
LEMMA DropsStepInv == DropsInv /\ [DmNext]_dmVars => DropsInv'
<1> SUFFICES ASSUME DropsInv, [DmNext]_dmVars PROVE DropsInv'
  BY Zenon
<1> USE DEF DropsInv
<1>1. CASE UNCHANGED dmVars
  BY <1>1, Zenon DEF dmVars, transit
<1>2. ASSUME NEW p \in Senders, NEW q \in Peers, NEW b \in Bodies, NEW ttl \in Ttls,
             NEW on \in BOOLEAN, SendDm(p, q, b, ttl, on)
      PROVE  DropsInv'
  <2> DEFINE m == [from |-> p, to |-> q, body |-> b, at |-> time,
                   till |-> time + Least(ttl, MaxDropTtl)]
  <2>1. p \in Peers
    BY DmAssumption, Zenon
  <2>2. m \in Timely
    <3>1. /\ time + Least(ttl, MaxDropTtl) \in 0 .. (MaxTime + MaxDropTtl)
          /\ time + Least(ttl, MaxDropTtl) <= time + MaxDropTtl
      BY DmAssumption DEF Least
    <3> QED
      BY <2>1, <3>1, Zenon DEF Messages, Timely
  <2>3. drops' = drops \/ drops' = [drops EXCEPT ![p] = DepositRaw(drops[p], m)]
    BY <1>2, Zenon DEF SendDm
  <2>4. ether' \subseteq ether \cup {<<"dm", m>>, <<"drop", m>>}
    BY <1>2, Zenon DEF SendDm
  <2>5. (box' = box \/ box' = [box EXCEPT ![p][q] = m]) /\ UNCHANGED <<time, fetched>>
    BY <1>2, Zenon DEF SendDm
  <2> HIDE DEF m
  <2>6. DepositRaw(drops[p], m) \in SUBSET Timely
    BY <2>1, <2>2, DepositTimely, Zenon
  <2>7. drops' \in [Peers -> SUBSET Timely]
    BY <2>3, <2>6, Zenon
  <2>8. box' \in [Peers -> [Peers -> Timely \cup {Nothing}]]
    BY <2>1, <2>2, <2>5
  <2> QED
    BY <2>2, <2>4, <2>5, <2>7, <2>8
<1>3. ASSUME NEW p \in Peers, NEW e \in ether, StoreDm(p, e[2]) PROVE DropsInv'
  BY <1>3, Zenon DEF StoreDm, transit
<1>4. ASSUME NEW p \in Peers, NEW e \in ether, IngestEnvelope(p, e[2]) PROVE DropsInv'
  <2>1. DepositRaw(drops[p], e[2]) \in SUBSET Timely
    BY DepositTimely, Zenon
  <2>2. drops' = [drops EXCEPT ![p] = DepositRaw(drops[p], e[2])] /\ UNCHANGED <<time, ether, box, fetched>>
    BY <1>4, Zenon DEF IngestEnvelope
  <2> QED
    BY <2>1, <2>2, Zenon
<1>5. ASSUME NEW e \in ether, LoseEnvelope(e) PROVE DropsInv'
  BY <1>5, Zenon DEF LoseEnvelope
<1>6. ASSUME NEW p \in Peers, NEW r \in Peers, NEW q \in Peers, CopyDhtRecord(p, r, q) PROVE DropsInv'
  BY <1>6 DEF CopyDhtRecord
<1>7. ASSUME NEW p \in Peers, PollRead(p) PROVE DropsInv'
  <2>1. Gc(drops[p]) \in SUBSET Timely
    BY Zenon DEF Gc
  <2>2. /\ drops' = [drops EXCEPT ![p] = Gc(drops[p])]
        /\ fetched' = [fetched EXCEPT ![p] = box[p][p]] /\ UNCHANGED <<time, ether, box>>
    BY <1>7, Zenon DEF PollRead
  <2> QED
    BY <2>1, <2>2
<1>8. ASSUME NEW p \in Peers, PollFinish(p) PROVE DropsInv'
  <2> DEFINE boxes == IF fetched[p] = Nothing THEN drops[p] ELSE DepositRaw(drops[p], fetched[p])
  <2>1. boxes \in SUBSET Timely
    <3>1. fetched[p] \in Timely \cup {Nothing}
      BY <1>8, Zenon DEF PollFinish
    <3> QED
      BY <3>1, DepositTimely, Zenon
  <2>2. /\ box' = box \/ box' = [box EXCEPT ![p][p] = Nothing]
        /\ fetched' = [fetched EXCEPT ![p] = Idle] /\ UNCHANGED <<time, ether>>
    BY <1>8, Zenon DEF PollFinish
  <2>3. \E D \in SUBSET boxes : drops' = [drops EXCEPT ![p] = D]
    BY <1>8, Zenon DEF PollFinish
  <2> HIDE DEF boxes
  <2> QED
    BY <2>1, <2>2, <2>3
<1>9. ASSUME NEW p \in Peers, NEW q \in Peers, NEW ok \in BOOLEAN,
             ResetUnread(p, q, ok) \/ CountDm(p, q, ok)
      PROVE  DropsInv'
  BY <1>9, Zenon DEF ResetUnread, CountDm, transit
<1>13. ASSUME NEW p \in Peers, NEW q \in Peers, MarkRead(p, q) PROVE DropsInv'
  BY <1>13, Zenon DEF MarkRead, transit
<1>11. ASSUME NEW p \in Peers, SweepMessages(p) PROVE DropsInv'
  BY <1>11, Zenon DEF SweepMessages, transit
<1>12. CASE MessagesApi
  BY <1>2, <1>9, <1>12, <1>13 DEF MessagesApi
<1>10. CASE Tick
  BY <1>10, DmAssumption DEF Tick, transit
<1> QED
  BY <1>1, <1>3, <1>4, <1>5, <1>6, <1>7, <1>8, <1>9, <1>10, <1>11, <1>12 DEF DmNext

\* A dead drop ends at most DEAD_DROP_MAX_TTL_SECS after it was sent at every node,
\* by whatever relays, polls and DHT copies it came (deposit_raw).
THEOREM DropsAlwaysEndOnTime == DmSpec => []DropsEndOnTime
<1>1. DmInit => DropsInv
  BY DmAssumption DEF DmInit, DropsInv
<1>2. DropsInv => DropsEndOnTime
  BY Zenon DEF DropsInv, DropsEndOnTime, Timely
<1> QED
  BY <1>1, <1>2, DropsStepInv, PTL DEF DmSpec

-----------------------------------------------------------------------------
(* Message requests. *)

Letters == [id : Nat, from : Writers, to : Writers, expires : Int]
Threads == [peer : Writers, unread : Nat, request : BOOLEAN]
InboxRows == [id : Nat, peer : Writers, read : BOOLEAN, expires : Int]

RequestsTypeOK ==
    /\ second \in Nat
    /\ friends \in [Writers -> SUBSET Writers]
    /\ requests \in [Writers -> [Writers -> {"none", "pending", "accepted", "rejected"}]]
    /\ threads \in [Writers -> SUBSET Threads]
    /\ inbox \in [Writers -> SUBSET InboxRows]
    /\ sealedMail \in SUBSET Letters /\ IsFiniteSet(sealedMail)
    /\ admitted \in [Writers -> SUBSET Writers]
    /\ begun \in [Writers -> SUBSET Writers]
    /\ collected \in [Writers -> SUBSET Nat]

\* INSERT OR IGNORE and the counter keep the conversations well formed.
LEMMA ThreadsTyped ==
    ASSUME RequestsTypeOK, NEW n \in Writers, NEW q \in Writers, NEW b \in BOOLEAN
    PROVE  /\ GetOrCreateConversation(n, q, b) \in SUBSET Threads
           /\ Bumped(GetOrCreateConversation(n, q, b), q) \in SUBSET Threads
<1>1. [peer |-> q, unread |-> 0, request |-> b] \in Threads
  BY Zenon DEF Threads
<1>2. GetOrCreateConversation(n, q, b) \in SUBSET Threads
  BY <1>1, Zenon DEF GetOrCreateConversation, RequestsTypeOK
<1>3. ASSUME NEW t \in Threads PROVE [t EXCEPT !.unread = @ + 1] \in Threads
  BY DEF Threads
<1> HIDE DEF Threads
<1> QED
  BY <1>2, <1>3, Zenon DEF Bumped

\* Every step keeps the types.
LEMMA RequestsTyped ==
    ASSUME RequestsTypeOK, [RequestsNext]_requestVars PROVE RequestsTypeOK'
<1> USE DEF RequestsTypeOK
<1>1. ASSUME NEW n \in Writers, NEW q \in Writers \ {n},
             \/ AcceptRequest(n, q) \/ RejectRequest(n, q)
             \/ Befriend(n, q) \/ Unfriend(n, q) \/ BeginConversation(n, q)
      PROVE  RequestsTypeOK'
  <2>1. CASE AcceptRequest(n, q)
    <3>1. \A t \in Threads : [t EXCEPT !.request = FALSE] \in Threads
      BY Zenon DEF Threads
    <3>2. {IF t.peer = q THEN [t EXCEPT !.request = FALSE] ELSE t : t \in threads[n]} \in SUBSET Threads
      BY <3>1
    <3> QED
      BY <2>1, <3>2, Zenon DEF AcceptRequest
  <2>2. CASE RejectRequest(n, q)
    BY <2>2, Zenon DEF RejectRequest
  <2>3. CASE Befriend(n, q)
    BY <2>3, Zenon DEF Befriend
  <2>4. CASE Unfriend(n, q)
    BY <2>4, Zenon DEF Unfriend
  <2>5. CASE BeginConversation(n, q)
    BY <2>5, ThreadsTyped, Zenon DEF BeginConversation
  <2> QED
    BY <1>1, <2>1, <2>2, <2>3, <2>4, <2>5, Zenon
<1>2. ASSUME NEW n \in Writers, NEW q \in Writers \ {n}, NEW ttl \in Terms, SendSealed(n, q, ttl)
      PROVE  RequestsTypeOK'
  <2> DEFINE e == Seal(n, q, ttl)
  <2>1. e \in Letters /\ IsFiniteSet(sealedMail \cup {e})
    <3>1. Cardinality(sealedMail) \in Nat /\ second + Skew[n] + ttl \in Int
      BY FS_CardinalityType, RequestsAssumption
    <3>2. e \in Letters
      BY <3>1, Zenon DEF Seal, Letters, Clock
    <3> QED
      BY <3>2, FS_AddElement, Zenon
  <2>2. [id |-> e.id, peer |-> q, read |-> TRUE, expires |-> e.expires] \in InboxRows
    BY <2>1, Zenon DEF Letters, InboxRows
  <2>3. GetOrCreateConversation(n, q, FALSE) \in SUBSET Threads
    BY ThreadsTyped, Zenon
  <2> HIDE DEF e
  <2> QED
    BY <1>2, <2>1, <2>2, <2>3, Zenon DEF SendSealed, e
<1>3. ASSUME NEW n \in Writers, NEW e \in sealedMail, ReceiveSealed(n, e)
      PROVE  RequestsTypeOK'
  <2>1. e.from \in Writers /\ [id |-> e.id, peer |-> e.from, read |-> FALSE, expires |-> e.expires] \in InboxRows
    BY Zenon DEF Letters, InboxRows
  <2>2. IsRequest(n, e.from) \in BOOLEAN
    BY Zenon DEF IsRequest
  <2>3. Bumped(GetOrCreateConversation(n, e.from, IsRequest(n, e.from)), e.from) \in SUBSET Threads
    BY <2>1, <2>2, ThreadsTyped, Zenon
  <2>4. StoreMessageRequest(n, e.from) \in {"none", "pending", "accepted", "rejected"}
    BY <2>1 DEF StoreMessageRequest
  <2> QED
    BY <1>3, <2>1, <2>3, <2>4, Zenon DEF ReceiveSealed
<1>4. ASSUME NEW n \in Writers, GcExpiredMessages(n) PROVE RequestsTypeOK'
  <2>1. \A m \in inbox[n] : m.id \in Nat
    BY DEF InboxRows
  <2> QED
    BY <1>4, <2>1, Zenon DEF GcExpiredMessages, StillUsed
<1>5. ASSUME SecondPasses PROVE RequestsTypeOK'
  BY <1>5 DEF SecondPasses
<1>6. ASSUME UNCHANGED requestVars PROVE RequestsTypeOK'
  BY <1>6, Zenon DEF requestVars
<1> QED
  BY <1>1, <1>2, <1>3, <1>4, <1>5, <1>6, Zenon DEF RequestsNext

\* Who is a friend, or whose request is accepted, was admitted.
Admits ==
    /\ \A n \in Writers : friends[n] \subseteq admitted[n]
    /\ \A n, q \in Writers : requests[n][q] = "accepted" => q \in admitted[n]

\* The conversations of a node stay admitted with a new one, and when the unread
\* counter is bumped.
LEMMA ThreadsAdmitted ==
    ASSUME RequestsTypeOK, Admits, InboxIsAdmitted,
           NEW n \in Writers, NEW q \in Writers, NEW b \in BOOLEAN,
           b \/ q \in admitted[n] \cup begun[n], b => requests[n][q] # "accepted",
           NEW t \in GetOrCreateConversation(n, q, b)
    PROVE  /\ t.request \/ t.peer \in admitted[n] \cup begun[n]
           /\ requests[n][t.peer] = "accepted" => ~t.request
<1>1. CASE t \in threads[n]
  BY <1>1, Zenon DEF InboxIsAdmitted
<1>2. CASE t = [peer |-> q, unread |-> 0, request |-> b]
  BY <1>2, Zenon
<1> QED
  BY <1>1, <1>2, Zenon DEF GetOrCreateConversation

AdmitInv == RequestsTypeOK /\ Admits /\ InboxIsAdmitted

\* Every step keeps the main inbox to the admitted.
LEMMA AdmitStep == AdmitInv /\ [RequestsNext]_requestVars => AdmitInv'
<1> SUFFICES ASSUME AdmitInv, [RequestsNext]_requestVars PROVE Admits' /\ InboxIsAdmitted'
  BY RequestsTyped, Zenon DEF AdmitInv
<1> USE DEF AdmitInv
<1>1. ASSUME NEW n \in Writers, NEW q \in Writers \ {n}, AcceptRequest(n, q)
      PROVE  Admits' /\ InboxIsAdmitted'
  <2>1. Admits'
    BY <1>1, Zenon DEF AcceptRequest, Admits, RequestsTypeOK
  <2>2. ASSUME NEW k \in Writers, NEW t \in threads'[k]
        PROVE  /\ t.request \/ t.peer \in admitted'[k] \cup begun'[k]
               /\ requests'[k][t.peer] = "accepted" => ~t.request
    <3>1. CASE k # n
      BY <1>1, <2>2, <3>1, Zenon DEF AcceptRequest, InboxIsAdmitted, RequestsTypeOK
    <3>2. CASE k = n
      <4>1. PICK s \in threads[n] : t = IF s.peer = q THEN [s EXCEPT !.request = FALSE] ELSE s
        BY <1>1, <2>2, <3>2, Zenon DEF AcceptRequest, RequestsTypeOK
      <4>2. s \in Threads
        BY Zenon DEF RequestsTypeOK
      <4>3. CASE s.peer = q
        <5>1. t.peer = q /\ t.request = FALSE
          BY <4>1, <4>2, <4>3, Zenon DEF Threads
        <5> QED
          BY <1>1, <3>2, <5>1, Zenon DEF AcceptRequest, RequestsTypeOK
      <4>4. CASE s.peer # q
        BY <1>1, <3>2, <4>1, <4>2, <4>4, Zenon DEF AcceptRequest, RequestsTypeOK, InboxIsAdmitted, Threads
      <4> QED
        BY <4>3, <4>4, Zenon
    <3> QED
      BY <3>1, <3>2, Zenon
  <2> QED
    BY <2>1, <2>2, Zenon DEF InboxIsAdmitted
<1>2. ASSUME NEW n \in Writers, NEW q \in Writers \ {n},
             RejectRequest(n, q) \/ Befriend(n, q) \/ Unfriend(n, q)
      PROVE  Admits' /\ InboxIsAdmitted'
  <2>1. CASE RejectRequest(n, q)
    BY <2>1 DEF RejectRequest, Admits, InboxIsAdmitted, RequestsTypeOK, Threads
  <2>2. CASE Befriend(n, q)
    BY <2>2, Zenon DEF Befriend, Admits, InboxIsAdmitted, RequestsTypeOK
  <2>3. CASE Unfriend(n, q)
    BY <2>3, Zenon DEF Unfriend, Admits, InboxIsAdmitted, RequestsTypeOK
  <2> QED
    BY <1>2, <2>1, <2>2, <2>3, Zenon
<1>3. ASSUME NEW n \in Writers, NEW q \in Writers \ {n}, NEW ttl \in Terms, SendSealed(n, q, ttl)
      PROVE  Admits' /\ InboxIsAdmitted'
  <2>1. Admits'
    BY <1>3, Zenon DEF SendSealed, Admits
  <2>2. q \in admitted[n]
    BY <1>3, Zenon DEF SendSealed, Admits, IsConnected, IsRequestAccepted
  <2>3. \A t \in GetOrCreateConversation(n, q, FALSE) :
           /\ t.request \/ t.peer \in admitted[n] \cup begun[n]
           /\ requests[n][t.peer] = "accepted" => ~t.request
    BY <2>2, ThreadsAdmitted, Zenon
  <2> QED
    BY <1>3, <2>1, <2>3, Zenon DEF SendSealed, InboxIsAdmitted, RequestsTypeOK
<1>4. ASSUME NEW n \in Writers, NEW e \in sealedMail, ReceiveSealed(n, e)
      PROVE  Admits' /\ InboxIsAdmitted'
  <2> DEFINE q == e.from
             b == IsRequest(n, q)
             rows == GetOrCreateConversation(n, q, b)
  <2>1. q \in Writers /\ b \in BOOLEAN
    BY Zenon DEF RequestsTypeOK, Letters, IsRequest
  <2>2. b \/ q \in admitted[n]
    BY <2>1, Zenon DEF IsRequest, IsConnected, IsRequestAccepted, Admits
  <2>3. b => requests[n][q] # "accepted" /\ StoreMessageRequest(n, q) # "accepted"
    BY <2>1, Zenon DEF IsRequest, IsRequestAccepted, StoreMessageRequest
  <2>4. \A t \in rows : /\ t.request \/ t.peer \in admitted[n] \cup begun[n]
                        /\ requests[n][t.peer] = "accepted" => ~t.request
    BY <2>1, <2>2, <2>3, ThreadsAdmitted, Zenon
  <2>5. rows \in SUBSET Threads
    BY <2>1, ThreadsTyped, Zenon
  <2>6. /\ threads' = [threads EXCEPT ![n] = Bumped(rows, q)]
        /\ requests' = IF b THEN [requests EXCEPT ![n][q] = StoreMessageRequest(n, q)] ELSE requests
        /\ admitted' = admitted /\ begun' = begun /\ friends' = friends
    BY <1>4, Zenon DEF ReceiveSealed
  <2> HIDE DEF rows, b, q
  <2>7. \A k, x \in Writers : requests'[k][x] = "accepted" => requests[k][x] = "accepted"
    BY <2>1, <2>3, <2>6, Zenon DEF RequestsTypeOK
  <2>8. Admits'
    BY <2>6, <2>7, Zenon DEF Admits
  <2>9. ASSUME NEW t \in Bumped(rows, q)
        PROVE  /\ t.request \/ t.peer \in admitted[n] \cup begun[n]
               /\ requests[n][t.peer] = "accepted" => ~t.request
               /\ t.peer \in Writers
    <3>1. PICK s \in rows : t = IF s.peer = q THEN [s EXCEPT !.unread = @ + 1] ELSE s
      BY <2>9, Zenon DEF Bumped
    <3>2. t.peer = s.peer /\ t.request = s.request /\ s.peer \in Writers
      BY <2>5, <3>1, Zenon DEF Threads
    <3> QED
      BY <2>4, <3>2, Zenon
  <2>10. ASSUME NEW k \in Writers, NEW t \in threads'[k]
         PROVE  /\ t.request \/ t.peer \in admitted[k] \cup begun[k]
                /\ requests[k][t.peer] = "accepted" => ~t.request
                /\ t.peer \in Writers
    <3>1. CASE k = n
      BY <2>6, <2>9, <2>10, <3>1, Zenon DEF RequestsTypeOK
    <3>2. CASE k # n
      BY <2>6, <2>10, <3>2 DEF RequestsTypeOK, InboxIsAdmitted, Threads
    <3> QED
      BY <3>1, <3>2, Zenon
  <2> QED
    BY <2>6, <2>7, <2>8, <2>10, Zenon DEF InboxIsAdmitted
<1>7. ASSUME NEW n \in Writers, NEW q \in Writers \ {n}, BeginConversation(n, q)
      PROVE  Admits' /\ InboxIsAdmitted'
  <2>1. /\ threads' = [threads EXCEPT ![n] = GetOrCreateConversation(n, q, FALSE)]
        /\ begun' = [begun EXCEPT ![n] = @ \cup {q}]
        /\ UNCHANGED <<friends, requests, admitted>>
    BY <1>7, Zenon DEF BeginConversation
  <2>2. ASSUME NEW t \in GetOrCreateConversation(n, q, FALSE)
        PROVE  /\ t.request \/ t.peer \in admitted[n] \cup begun[n] \cup {q}
               /\ requests[n][t.peer] = "accepted" => ~t.request
    <3>1. CASE t \in threads[n]
      BY <3>1, Zenon DEF InboxIsAdmitted
    <3>2. CASE t = [peer |-> q, unread |-> 0, request |-> FALSE]
      BY <3>2, Zenon
    <3> QED
      BY <2>2, <3>1, <3>2, Zenon DEF GetOrCreateConversation
  <2>3. Admits'
    BY <2>1, Zenon DEF Admits
  <2>4. ASSUME NEW k \in Writers, NEW t \in threads'[k]
        PROVE  /\ t.request \/ t.peer \in admitted'[k] \cup begun'[k]
               /\ requests'[k][t.peer] = "accepted" => ~t.request
    <3>1. CASE k = n
      <4>1. begun'[n] = begun[n] \cup {q} /\ t \in GetOrCreateConversation(n, q, FALSE)
        BY <2>1, <2>4, <3>1, Zenon DEF RequestsTypeOK
      <4> QED
        BY <2>1, <2>2, <3>1, <4>1, Zenon
    <3>2. CASE k # n
      BY <2>1, <2>4, <3>2, Zenon DEF InboxIsAdmitted, RequestsTypeOK
    <3> QED
      BY <3>1, <3>2, Zenon
  <2> QED
    BY <2>3, <2>4, Zenon DEF InboxIsAdmitted
<1>5. ASSUME NEW n \in Writers, GcExpiredMessages(n) PROVE Admits' /\ InboxIsAdmitted'
  BY <1>5, Zenon DEF GcExpiredMessages, StillUsed, Admits, InboxIsAdmitted, RequestsTypeOK
<1>6. ASSUME SecondPasses \/ UNCHANGED requestVars PROVE Admits' /\ InboxIsAdmitted'
  BY <1>6, Zenon DEF SecondPasses, requestVars, Admits, InboxIsAdmitted
<1> QED
  BY <1>1, <1>2, <1>3, <1>4, <1>5, <1>6, <1>7, Zenon DEF RequestsNext

\* Without conversations the inbox is in order.
LEMMA AdmitInit == RequestsInit => AdmitInv
<1>1. RequestsInit => RequestsTypeOK
  BY FS_EmptySet DEF RequestsInit, RequestsTypeOK
<1>2. RequestsInit => Admits /\ InboxIsAdmitted
  BY DEF RequestsInit, Admits, InboxIsAdmitted
<1> QED
  BY <1>1, <1>2, Zenon DEF AdmitInv

\* For any number of people, envelopes and collections: the main inbox has only
\* conversations with people who were connected or accepted, or that the node's
\* own message path began, and an accepted request is not left among the requests.
THEOREM InboxStaysAdmitted == RequestsSpec => []InboxIsAdmitted
<1>1. AdmitInv => InboxIsAdmitted
  BY Zenon DEF AdmitInv
<1> QED
  BY <1>1, AdmitInit, AdmitStep, PTL DEF RequestsSpec

\* The hash of a message is its own; a row has the expiry of its envelope; what was
\* collected is of an envelope that the node's clock has passed.
HashesUnique ==
    /\ \A e \in sealedMail : e.id < Cardinality(sealedMail)
    /\ \A e, f \in sealedMail : e.id = f.id => e = f

RowsHaveLetters ==
    \A n \in Writers : \A m \in inbox[n] :
        \E e \in sealedMail : e.id = m.id /\ e.expires = m.expires

CollectedPassed ==
    \A n \in Writers : \A i \in collected[n] :
        \E e \in sealedMail : e.id = i /\ e.expires < Clock(n)

CollectInv ==
    RequestsTypeOK /\ HashesUnique /\ RowsHaveLetters /\ CollectedPassed /\ CollectedStaysGone

\* A new envelope has a new hash.
LEMMA SendKeepsGone ==
    ASSUME CollectInv, NEW n \in Writers, NEW q \in Writers \ {n}, NEW ttl \in Terms,
           SendSealed(n, q, ttl)
    PROVE  HashesUnique' /\ RowsHaveLetters' /\ CollectedPassed' /\ CollectedStaysGone'
<1> USE DEF CollectInv
<1> DEFINE e == Seal(n, q, ttl)
           m == [id |-> e.id, peer |-> q, read |-> TRUE, expires |-> e.expires]
<1>1. Cardinality(sealedMail) \in Nat /\ e.id = Cardinality(sealedMail)
  BY FS_CardinalityType, Zenon DEF RequestsTypeOK, Seal
<1>2. /\ sealedMail' = sealedMail \cup {e}
      /\ inbox' = [inbox EXCEPT ![n] = @ \cup {m}]
      /\ collected' = collected /\ second' = second
  BY <1>1, Zenon DEF SendSealed
<1>3. m.id = e.id /\ m.expires = e.expires
  BY Zenon
<1> HIDE DEF e, m
<1>4. \A f \in sealedMail : f.id \in Nat /\ f.id < e.id
  BY <1>1, Zenon DEF HashesUnique, RequestsTypeOK, Letters
<1>5. Cardinality(sealedMail') = Cardinality(sealedMail) + 1
  <2>1. e \notin sealedMail /\ IsFiniteSet(sealedMail)
    BY <1>1, <1>4 DEF RequestsTypeOK
  <2> QED
    BY <1>2, <2>1, FS_AddElement, Zenon
<1>6. HashesUnique'
  BY <1>1, <1>2, <1>4, <1>5 DEF HashesUnique
<1>7. RowsHaveLetters'
  BY <1>2, <1>3 DEF RowsHaveLetters, RequestsTypeOK
<1>8. CollectedPassed'
  BY <1>2, Zenon DEF CollectedPassed, Clock
<1>9. \A k \in Writers : e.id \notin collected[k]
  BY <1>4 DEF CollectedPassed
<1>10. CollectedStaysGone'
  BY <1>2, <1>3, <1>9, Zenon DEF CollectedStaysGone, RequestsTypeOK
<1> QED
  BY <1>6, <1>7, <1>8, <1>10, Zenon

\* An envelope that is_expired still lets in was not collected.
LEMMA ReceiveKeepsGone ==
    ASSUME CollectInv, NEW n \in Writers, NEW e \in sealedMail, ReceiveSealed(n, e)
    PROVE  HashesUnique' /\ RowsHaveLetters' /\ CollectedPassed' /\ CollectedStaysGone'
<1> USE DEF CollectInv
<1> DEFINE m == [id |-> e.id, peer |-> e.from, read |-> FALSE, expires |-> e.expires]
<1>1. /\ sealedMail' = sealedMail /\ collected' = collected /\ second' = second
      /\ inbox' = [inbox EXCEPT ![n] = IF \E k \in @ : k.id = e.id THEN @ ELSE @ \cup {m}]
      /\ ~(Clock(n) > e.expires)
  BY Zenon DEF ReceiveSealed, IsExpired
<1>2. m.id = e.id /\ m.expires = e.expires
  BY Zenon
<1> HIDE DEF m
<1>3. HashesUnique' /\ CollectedPassed'
  BY <1>1, Zenon DEF HashesUnique, CollectedPassed, Clock
<1>4. RowsHaveLetters'
  BY <1>1, <1>2, Zenon DEF RowsHaveLetters, RequestsTypeOK
<1>5. e.id \notin collected[n]
  <2> SUFFICES ASSUME e.id \in collected[n] PROVE FALSE
    BY Zenon
  <2>1. PICK f \in sealedMail : f.id = e.id /\ f.expires < Clock(n)
    BY Zenon DEF CollectedPassed
  <2>2. f = e
    BY <2>1, Zenon DEF HashesUnique
  <2>3. Clock(n) \in Int /\ e.expires \in Int
    BY RequestsAssumption DEF Clock, RequestsTypeOK, Letters
  <2> QED
    BY <1>1, <2>1, <2>2, <2>3, Zenon
<1>6. CollectedStaysGone'
  BY <1>1, <1>2, <1>5, Zenon DEF CollectedStaysGone, RequestsTypeOK
<1> QED
  BY <1>3, <1>4, <1>6, Zenon

\* The collection deletes every row of a hash, and only of envelopes that have
\* expired.
LEMMA GcKeepsGone ==
    ASSUME CollectInv, NEW n \in Writers, GcExpiredMessages(n)
    PROVE  HashesUnique' /\ RowsHaveLetters' /\ CollectedPassed' /\ CollectedStaysGone'
<1> USE DEF CollectInv
<1> DEFINE kept == {m \in inbox[n] : ~(m.expires < Clock(n))}
           gone == {m.id : m \in inbox[n] \ kept}
<1>1. /\ sealedMail' = sealedMail /\ second' = second
      /\ inbox' = [inbox EXCEPT ![n] = kept]
      /\ collected' = [collected EXCEPT ![n] = @ \cup gone]
  BY Zenon DEF GcExpiredMessages
<1>2. HashesUnique'
  BY <1>1, Zenon DEF HashesUnique
<1>3. RowsHaveLetters'
  BY <1>1, Zenon DEF RowsHaveLetters, RequestsTypeOK
<1>4. \A i \in gone : \E e \in sealedMail : e.id = i /\ e.expires < Clock(n)
  BY Zenon DEF RowsHaveLetters
<1>5. \A m \in kept : m.id \notin gone /\ m.id \notin collected[n]
  <2>1. ASSUME NEW m \in kept, NEW d \in inbox[n] \ kept, m.id = d.id PROVE FALSE
    <3>1. PICK e \in sealedMail : e.id = m.id /\ e.expires = m.expires
      BY Zenon DEF RowsHaveLetters
    <3>2. PICK f \in sealedMail : f.id = d.id /\ f.expires = d.expires
      BY Zenon DEF RowsHaveLetters
    <3>3. e = f
      BY <2>1, <3>1, <3>2, Zenon DEF HashesUnique
    <3> QED
      BY <3>1, <3>2, <3>3, Zenon
  <2> QED
    BY <2>1, Zenon DEF CollectedStaysGone
<1> HIDE DEF kept, gone
<1>6. CollectedPassed'
  BY <1>1, <1>4, Zenon DEF CollectedPassed, Clock, RequestsTypeOK
<1>7. CollectedStaysGone'
  BY <1>1, <1>5, Zenon DEF CollectedStaysGone, RequestsTypeOK
<1> QED
  BY <1>2, <1>3, <1>6, <1>7, Zenon

\* Every step keeps collected messages away.
LEMMA CollectStep == CollectInv /\ [RequestsNext]_requestVars => CollectInv'
<1> SUFFICES ASSUME CollectInv, [RequestsNext]_requestVars
             PROVE  HashesUnique' /\ RowsHaveLetters' /\ CollectedPassed' /\ CollectedStaysGone'
  BY RequestsTyped, Zenon DEF CollectInv
<1>1. ASSUME UNCHANGED <<second, inbox, sealedMail, collected>>
      PROVE  HashesUnique' /\ RowsHaveLetters' /\ CollectedPassed' /\ CollectedStaysGone'
  BY <1>1, Zenon DEF CollectInv, HashesUnique, RowsHaveLetters, CollectedPassed, CollectedStaysGone, Clock
<1>2. ASSUME SecondPasses
      PROVE  HashesUnique' /\ RowsHaveLetters' /\ CollectedPassed' /\ CollectedStaysGone'
  <2>1. \A n \in Writers : Clock(n)' = Clock(n) + 1 /\ Clock(n) \in Int
    BY <1>2, RequestsAssumption DEF SecondPasses, CollectInv, RequestsTypeOK, Clock
  <2>2. \A e \in sealedMail : e.expires \in Int
    BY Zenon DEF CollectInv, RequestsTypeOK, Letters
  <2>3. CollectedPassed'
    BY <1>2, <2>1, <2>2 DEF SecondPasses, CollectInv, CollectedPassed
  <2> QED
    BY <1>2, <2>3, Zenon DEF SecondPasses, CollectInv, HashesUnique, RowsHaveLetters, CollectedStaysGone
<1> QED
  BY <1>1, <1>2, SendKeepsGone, ReceiveKeepsGone, GcKeepsGone, Zenon
     DEF RequestsNext, AcceptRequest, RejectRequest, Befriend, Unfriend, BeginConversation, requestVars

\* For any skew of the clocks, copies and delays: a message that the collection
\* deleted does not come back.
THEOREM CollectedForGood == RequestsSpec => []CollectedStaysGone
<1>1. RequestsInit => CollectInv
  <2>1. RequestsInit => RequestsTypeOK
    BY AdmitInit, Zenon DEF AdmitInv
  <2>2. RequestsInit => HashesUnique /\ RowsHaveLetters /\ CollectedPassed /\ CollectedStaysGone
    BY Zenon DEF RequestsInit, HashesUnique, RowsHaveLetters, CollectedPassed, CollectedStaysGone
  <2> QED
    BY <2>1, <2>2, Zenon DEF CollectInv
<1>2. CollectInv => CollectedStaysGone
  BY Zenon DEF CollectInv
<1> QED
  BY <1>1, <1>2, CollectStep, PTL DEF RequestsSpec

UnreadOf(rows, q) == {k \in rows : k.peer = q /\ ~k.read}

\* The conversation of peer q covers the unread messages of q among the rows.
Covered(rows, convs, q) ==
    \E t \in convs : t.peer = q /\ t.unread >= Cardinality(UnreadOf(rows, q))

CoveredInv ==
    /\ RequestsTypeOK
    /\ \A n \in Writers : IsFiniteSet(inbox[n])
    /\ \A n \in Writers : \A m \in inbox[n] : Covered(inbox[n], threads[n], m.peer)

\* One more row is at most one more unread message, and none of another peer.
LEMMA OneMoreUnread ==
    ASSUME NEW rows, IsFiniteSet(rows), NEW m, NEW q
    PROVE  /\ Cardinality(UnreadOf(rows, q)) \in Nat
           /\ Cardinality(UnreadOf(rows \cup {m}, q)) \in Nat
           /\ Cardinality(UnreadOf(rows \cup {m}, q)) <= Cardinality(UnreadOf(rows, q)) + 1
           /\ m.peer # q \/ m.read => UnreadOf(rows \cup {m}, q) = UnreadOf(rows, q)
           /\ UnreadOf(rows, q) = {} => Cardinality(UnreadOf(rows, q)) = 0
<1> DEFINE S == UnreadOf(rows, q)
           T == UnreadOf(rows \cup {m}, q)
<1>1. S \in SUBSET rows
  BY Zenon DEF UnreadOf
<1>2. IsFiniteSet(S) /\ Cardinality(S) \in Nat
  BY <1>1, FS_Subset, FS_CardinalityType, Zenon
<1>3. T = S \/ T = S \cup {m}
  BY Zenon DEF UnreadOf
<1> HIDE DEF S, T
<1>4. /\ IsFiniteSet(S \cup {m})
      /\ Cardinality(S \cup {m}) = IF m \in S THEN Cardinality(S) ELSE Cardinality(S) + 1
  BY <1>2, FS_AddElement, Zenon
<1>5. Cardinality(T) \in Nat /\ Cardinality(T) <= Cardinality(S) + 1
  <2>1. CASE T = S
    BY <1>2, <2>1
  <2>2. CASE T = S \cup {m}
    <3>1. Cardinality(T) = Cardinality(S) \/ Cardinality(T) = Cardinality(S) + 1
      BY <1>4, <2>2, Zenon
    <3> QED
      BY <1>2, <3>1
  <2> QED
    BY <1>3, <2>1, <2>2, Zenon
<1>6. m.peer # q \/ m.read => T = S
  BY Zenon DEF UnreadOf, S, T
<1>7. S = {} => Cardinality(S) = 0
  BY FS_EmptySet, Zenon
<1> QED
  BY <1>2, <1>5, <1>6, <1>7, Zenon DEF S, T

\* With message m the rows count at most one unread message more, and only of its sender.
Counted(old, rows, m, q) ==
    /\ Cardinality(UnreadOf(old, q)) \in Nat /\ Cardinality(UnreadOf(rows, q)) \in Nat
    /\ Cardinality(UnreadOf(rows, q)) <= Cardinality(UnreadOf(old, q)) + 1
    /\ m.peer # q => UnreadOf(rows, q) = UnreadOf(old, q)

\* So it is whether the message is stored or was there.
LEMMA RowsCounted ==
    ASSUME NEW S, IsFiniteSet(S), NEW m, NEW rows \in {S, S \cup {m}}, NEW q
    PROVE  Counted(S, rows, m, q)
<1>1. /\ Cardinality(UnreadOf(S, q)) \in Nat /\ Cardinality(UnreadOf(S \cup {m}, q)) \in Nat
      /\ Cardinality(UnreadOf(S \cup {m}, q)) <= Cardinality(UnreadOf(S, q)) + 1
      /\ m.peer # q => UnreadOf(S \cup {m}, q) = UnreadOf(S, q)
  BY OneMoreUnread, Zenon
<1>2. CASE rows = S
  BY <1>1, <1>2 DEF Counted
<1>3. CASE rows = S \cup {m}
  BY <1>1, <1>3, Zenon DEF Counted
<1> QED
  BY <1>2, <1>3, Zenon

\* A bumped conversation covers one message more.
LEMMA BumpCovers ==
    ASSUME NEW rows, NEW convs, NEW q, NEW u \in Nat, NEW k \in Nat, u >= k,
           Cardinality(UnreadOf(rows, q)) \in Nat, Cardinality(UnreadOf(rows, q)) <= k + 1,
           NEW s \in convs, s.peer = q, s.unread = u + 1
    PROVE  Covered(rows, convs, q)
  BY DEF Covered

\* INSERT OR IGNORE keeps the conversations and has one with the peer.
LEMMA ConversationThere ==
    ASSUME NEW n, NEW q, NEW b
    PROVE  /\ threads[n] \subseteq GetOrCreateConversation(n, q, b)
           /\ \E t \in GetOrCreateConversation(n, q, b) : t.peer = q
<1>1. CASE \E t \in threads[n] : t.peer = q
  BY <1>1, Zenon DEF GetOrCreateConversation
<1>2. CASE ~\E t \in threads[n] : t.peer = q
  <2> DEFINE new == [peer |-> q, unread |-> 0, request |-> b]
  <2>1. GetOrCreateConversation(n, q, b) = threads[n] \cup {new}
    BY <1>2, Zenon DEF GetOrCreateConversation
  <2>2. new.peer = q
    BY Zenon
  <2> HIDE DEF new
  <2> QED
    BY <2>1, <2>2, Zenon
<1> QED
  BY <1>1, <1>2, Zenon

\* What a node sends is read; it opens the conversation when there is none.
LEMMA SendCovers ==
    ASSUME CoveredInv, NEW n \in Writers, NEW q \in Writers \ {n}, NEW ttl \in Terms,
           SendSealed(n, q, ttl)
    PROVE  \A k \in Writers : /\ IsFiniteSet(inbox'[k])
                              /\ \A m \in inbox'[k] : Covered(inbox'[k], threads'[k], m.peer)
<1> USE DEF CoveredInv
<1> DEFINE new == [id |-> Seal(n, q, ttl).id, peer |-> q, read |-> TRUE, expires |-> Seal(n, q, ttl).expires]
           rows == inbox[n] \cup {new}
           convs == GetOrCreateConversation(n, q, FALSE)
<1>1. /\ inbox' = [inbox EXCEPT ![n] = rows] /\ threads' = [threads EXCEPT ![n] = convs]
  BY Zenon DEF SendSealed
<1>2. new.peer = q /\ new.read
  BY Zenon
<1> HIDE DEF new
<1>3. IsFiniteSet(rows)
  BY FS_AddElement, Zenon
<1>4. \A p \in Writers : UnreadOf(rows, p) = UnreadOf(inbox[n], p)
  BY <1>2, OneMoreUnread, Zenon
<1>5. threads[n] \subseteq convs /\ \E t \in convs : t.peer = q
  BY ConversationThere, Zenon
<1>6. convs \in SUBSET Threads
  BY ThreadsTyped, Zenon
<1>7. \A m \in inbox[n] : m.peer \in Writers
  BY DEF RequestsTypeOK, InboxRows
<1> HIDE DEF rows, convs
<1>8. \A m \in inbox[n] : Covered(rows, convs, m.peer)
  BY <1>4, <1>5, <1>7, Zenon DEF Covered
<1>9. Covered(rows, convs, q)
  <2>1. CASE \E m \in inbox[n] : m.peer = q
    BY <1>8, <2>1, Zenon
  <2>2. CASE ~\E m \in inbox[n] : m.peer = q
    <3>1. UnreadOf(inbox[n], q) = {}
      BY <2>2, Zenon DEF UnreadOf
    <3>2. Cardinality(UnreadOf(rows, q)) = 0
      BY <1>4, <3>1, FS_EmptySet, Zenon
    <3>3. PICK t \in convs : t.peer = q
      BY <1>5, Zenon
    <3>4. t.unread \in Nat
      BY <1>6, Zenon DEF Threads
    <3> QED
      BY <3>2, <3>3, <3>4, SMTT(30) DEF Covered
  <2> QED
    BY <2>1, <2>2, Zenon
<1>10. \A m \in rows : Covered(rows, convs, m.peer)
  BY <1>2, <1>8, <1>9, Zenon DEF rows
<1> QED
  BY <1>1, <1>3, <1>10, Zenon DEF RequestsTypeOK

\* The counter is bumped with every copy, the rows with the first at most.
LEMMA ReceiveCovers ==
    ASSUME CoveredInv, NEW n \in Writers, NEW e \in sealedMail, ReceiveSealed(n, e)
    PROVE  \A k \in Writers : /\ IsFiniteSet(inbox'[k])
                              /\ \A m \in inbox'[k] : Covered(inbox'[k], threads'[k], m.peer)
<1> USE DEF CoveredInv
<1> DEFINE q == e.from
           new == [id |-> e.id, peer |-> q, read |-> FALSE, expires |-> e.expires]
           rows == IF \E m \in inbox[n] : m.id = e.id THEN inbox[n] ELSE inbox[n] \cup {new}
           old == GetOrCreateConversation(n, q, IsRequest(n, q))
           convs == Bumped(old, q)
<1>1. inbox' = [inbox EXCEPT ![n] = rows] /\ threads' = [threads EXCEPT ![n] = convs]
  BY Zenon DEF ReceiveSealed
<1>2. new.peer = q /\ q \in Writers /\ old \in SUBSET Threads
  BY ThreadsTyped, Zenon DEF RequestsTypeOK, Letters, IsRequest
<1>3. threads[n] \subseteq old /\ \E t \in old : t.peer = q
  BY ConversationThere, Zenon
<1> HIDE DEF q, new, old
<1>4. IsFiniteSet(rows)
  BY FS_AddElement, Zenon
<1>5. \A p \in Writers :
         /\ Cardinality(UnreadOf(inbox[n], p)) \in Nat /\ Cardinality(UnreadOf(rows, p)) \in Nat
         /\ Cardinality(UnreadOf(rows, p)) <= Cardinality(UnreadOf(inbox[n], p)) + 1
         /\ p # q => UnreadOf(rows, p) = UnreadOf(inbox[n], p)
  <2>1. IsFiniteSet(inbox[n]) /\ rows \in {inbox[n], inbox[n] \cup {new}}
    BY Zenon
  <2> HIDE DEF rows, CoveredInv
  <2>2. \A p : Counted(inbox[n], rows, new, p)
    BY <2>1, RowsCounted, Zenon
  <2>3. new.peer = q
    BY <1>2, Zenon
  <2> QED
    BY <2>2, <2>3, Zenon DEF Counted
<1>6. ASSUME NEW t \in old
      PROVE  /\ t.peer # q => t \in convs
             /\ t.peer = q => \E s \in convs : s.peer = q /\ s.unread = t.unread + 1
  <2>1. t.peer # q => t \in convs
    BY Zenon DEF Bumped
  <2>2. CASE t.peer = q
    <3> DEFINE s == [t EXCEPT !.unread = @ + 1]
    <3>1. s \in convs
      BY <2>2, Zenon DEF Bumped
    <3>2. s.peer = q /\ s.unread = t.unread + 1
      BY <1>2, <2>2, Zenon DEF Threads
    <3> HIDE DEF s
    <3> QED
      BY <2>2, <3>1, <3>2, Zenon
  <2> QED
    BY <2>1, <2>2, Zenon
<1>7. \A m \in inbox[n] : m.peer \in Writers
  BY DEF RequestsTypeOK, InboxRows
<1> HIDE DEF convs, rows
<1>8. ASSUME NEW m \in inbox[n], m.peer # q PROVE Covered(rows, convs, m.peer)
  BY <1>3, <1>5, <1>6, <1>7, <1>8 DEF Covered
<1>9. Covered(rows, convs, q)
  <2>1. PICK t \in old : t.peer = q /\ t.unread >= Cardinality(UnreadOf(inbox[n], q))
    <3>1. CASE \E m \in inbox[n] : m.peer = q
      BY <1>3, <3>1, Zenon DEF Covered
    <3>2. CASE ~\E m \in inbox[n] : m.peer = q
      <4>1. UnreadOf(inbox[n], q) = {}
        BY <3>2, Zenon DEF UnreadOf
      <4>2. Cardinality(UnreadOf(inbox[n], q)) = 0
        BY <4>1, FS_EmptySet, Zenon
      <4> QED
        BY <1>2, <1>3, <4>2 DEF Threads
    <3> QED
      BY <3>1, <3>2, Zenon
  <2>2. PICK s \in convs : s.peer = q /\ s.unread = t.unread + 1
    BY <1>6, <2>1, Zenon
  <2>3. t.unread \in Nat
    BY <1>2, Zenon DEF Threads
  <2> QED
    BY <1>2, <1>5, <2>1, <2>2, <2>3, BumpCovers, ZenonT(30)
<1>10. \A m \in rows : Covered(rows, convs, m.peer)
  BY <1>2, <1>8, <1>9, Zenon DEF rows
<1> QED
  BY <1>1, <1>4, <1>10, Zenon DEF RequestsTypeOK

\* The collection keeps the conversations of the rows it keeps.
LEMMA GcCovers ==
    ASSUME CoveredInv, NEW n \in Writers, GcExpiredMessages(n)
    PROVE  \A k \in Writers : /\ IsFiniteSet(inbox'[k])
                              /\ \A m \in inbox'[k] : Covered(inbox'[k], threads'[k], m.peer)
<1> USE DEF CoveredInv
<1> DEFINE kept == {m \in inbox[n] : ~(m.expires < Clock(n))}
<1>1. /\ inbox' = [inbox EXCEPT ![n] = kept]
      /\ threads' = [threads EXCEPT ![n] = StillUsed(n, kept)]
  BY Zenon DEF GcExpiredMessages
<1>2. kept \in SUBSET inbox[n] /\ IsFiniteSet(kept)
  BY FS_Subset, Zenon
<1> HIDE DEF kept
<1>3. ASSUME NEW m \in kept PROVE Covered(kept, StillUsed(n, kept), m.peer)
  <2>1. PICK t \in threads[n] : t.peer = m.peer /\ t.unread >= Cardinality(UnreadOf(inbox[n], m.peer))
    BY <1>2, Zenon DEF Covered
  <2>2. t \in StillUsed(n, kept) /\ t.unread \in Nat
    BY <2>1, SMTT(30) DEF StillUsed, RequestsTypeOK, Threads
  <2>3. /\ UnreadOf(kept, m.peer) \in SUBSET UnreadOf(inbox[n], m.peer)
        /\ UnreadOf(inbox[n], m.peer) \in SUBSET inbox[n]
    BY <1>2, Zenon DEF UnreadOf
  <2>4. /\ Cardinality(UnreadOf(kept, m.peer)) <= Cardinality(UnreadOf(inbox[n], m.peer))
        /\ Cardinality(UnreadOf(kept, m.peer)) \in Nat /\ Cardinality(UnreadOf(inbox[n], m.peer)) \in Nat
    BY <2>3, FS_Subset, FS_CardinalityType, Zenon
  <2> QED
    BY <2>1, <2>2, <2>4, SMTT(30) DEF Covered
<1> QED
  BY <1>1, <1>2, <1>3, Zenon DEF RequestsTypeOK

\* Every step keeps the unread counters large enough.
LEMMA UnreadStep == CoveredInv /\ [RequestsNext]_requestVars => CoveredInv'
<1> DEFINE Keeps == \A k \in Writers : /\ IsFiniteSet(inbox'[k])
                                       /\ \A m \in inbox'[k] : Covered(inbox'[k], threads'[k], m.peer)
<1> SUFFICES ASSUME CoveredInv, [RequestsNext]_requestVars PROVE Keeps
  BY RequestsTyped, Zenon DEF CoveredInv
<1>1. ASSUME NEW n \in Writers, NEW q \in Writers \ {n}, AcceptRequest(n, q) PROVE Keeps
  <2> DEFINE convs == {IF t.peer = q THEN [t EXCEPT !.request = FALSE] ELSE t : t \in threads[n]}
  <2>1. inbox' = inbox /\ threads' = [threads EXCEPT ![n] = convs]
    BY <1>1, Zenon DEF AcceptRequest
  <2>2. ASSUME NEW t \in threads[n] PROVE \E s \in convs : s.peer = t.peer /\ s.unread = t.unread
    <3>1. [t EXCEPT !.request = FALSE].peer = t.peer /\ [t EXCEPT !.request = FALSE].unread = t.unread
      BY SMTT(30) DEF CoveredInv, RequestsTypeOK, Threads
    <3> QED
      BY <3>1, Zenon
  <2> HIDE DEF convs
  <2>3. \A m \in inbox[n] : Covered(inbox[n], convs, m.peer)
    BY <2>2 DEF CoveredInv, Covered
  <2> QED
    BY <2>1, <2>3, Zenon DEF CoveredInv, RequestsTypeOK
<1>2. ASSUME UNCHANGED <<inbox, threads>> PROVE Keeps
  BY <1>2, Zenon DEF CoveredInv
<1>3. ASSUME NEW n \in Writers, NEW e \in sealedMail, ReceiveSealed(n, e) PROVE Keeps
  BY <1>3, ReceiveCovers, Zenon
<1>4. ASSUME NEW n \in Writers, GcExpiredMessages(n) PROVE Keeps
  BY <1>4, GcCovers, Zenon
<1>5. ASSUME NEW n \in Writers, NEW q \in Writers \ {n}, NEW ttl \in Terms, SendSealed(n, q, ttl)
      PROVE  Keeps
  BY <1>5, SendCovers, Zenon
<1>6. ASSUME NEW n \in Writers, NEW q \in Writers \ {n}, BeginConversation(n, q) PROVE Keeps
  <2>1. inbox' = inbox /\ threads' = [threads EXCEPT ![n] = GetOrCreateConversation(n, q, FALSE)]
    BY <1>6, Zenon DEF BeginConversation
  <2>2. \A m \in inbox[n] : Covered(inbox[n], GetOrCreateConversation(n, q, FALSE), m.peer)
    BY ConversationThere, Zenon DEF CoveredInv, Covered
  <2> QED
    BY <2>1, <2>2, Zenon DEF CoveredInv, RequestsTypeOK
<1> HIDE DEF Keeps
<1> QED
  BY <1>1, <1>2, <1>3, <1>4, <1>5, <1>6, Zenon
     DEF RequestsNext, RejectRequest, Befriend, Unfriend, SecondPasses, requestVars

\* For any number of copies, requests and collections: no stored message is without
\* its conversation, or missing from its unread counter.
THEOREM UnreadAlwaysCovered == RequestsSpec => []UnreadCovered
<1>1. RequestsInit => CoveredInv
  <2>1. RequestsInit => RequestsTypeOK
    BY AdmitInit, Zenon DEF AdmitInv
  <2> QED
    BY <2>1, FS_EmptySet, Zenon DEF RequestsInit, CoveredInv
<1>2. CoveredInv => UnreadCovered
  BY Zenon DEF CoveredInv, UnreadCovered, Covered, UnreadOf
<1> QED
  BY <1>1, <1>2, UnreadStep, PTL DEF RequestsSpec

-----------------------------------------------------------------------------
(* The feed. *)

Row == [post : FeedPosts, created : Nat \ {0}, rowid : Nat \ {0}, tomb : BOOLEAN]

\* A post has one row, and a row its own rowid.
RowsOK ==
    /\ table \subseteq Row /\ IsFiniteSet(table)
    /\ \A r, s \in table : r.post = s.post \/ r.rowid = s.rowid => r = s
    /\ \A r \in table : r.rowid <= Cardinality(table)

\* What the history variables say of the graph.
GraphOK ==
    /\ connectedTo \subseteq FeedAuthors /\ excluded \subseteq FeedAuthors
    /\ unlocked \in BOOLEAN /\ mixed \in BOOLEAN
    /\ steady \subseteq Shown
    /\ ~thinned => connectedTo \cap excluded = {}

\* A call of the client, as it is kept until its answer is applied.
IsCall(q) ==
    /\ DOMAIN q = {"kind", "id", "after", "state", "answer"}
    /\ q.kind \in {"first", "more"} /\ q.id \in Nat \ {0} /\ q.state \in {"out", "ok", "error"}

\* Where a call of renderFeed or loadMorePosts is out, and what it was asked with.
CallAt(q) ==
    /\ page.view = "feed" /\ "caught up" \notin page.marks
    /\ q.kind = "first" => q.after = 0 /\ observer = 0
    /\ q.kind = "more" => /\ isLoadingMore /\ q.after = feedCursor
                          /\ observer # 0 /\ q.id \in page.sentinels

\* The client: as long as no view began while a call was out there is one call at a time.
ClientOK ==
    /\ DOMAIN page = {"view", "cards", "marks", "sentinels"}
    /\ page.view \in {"feed", "other"} /\ page.sentinels \subseteq Nat \ {0} /\ renders \in Nat
    /\ crossed \in BOOLEAN /\ \A q \in apiCalls : IsCall(q)
    /\ ~crossed => /\ \A q, r \in apiCalls : q = r
                   /\ \A q \in apiCalls : CallAt(q)
                   /\ "caught up" \in page.marks \/ page.view = "other" => observer = 0

Place(r) == IF unlocked THEN r.created ELSE r.rowid

\* The reader has the post, or it shares its second with another.
Tied(p) == \E r, s \in table : r # s /\ r.post = p /\ r.created = s.created
Served(p) == (\E i \in DOMAIN page.cards : page.cards[i] = p) \/ (unlocked /\ Tied(p))

\* The post is on the page that begins at the cursor, or on a later one.
Ahead(p, cursor) == \E r \in table : r.post = p /\ Place(r) < cursor

\* An answer goes on where the pages before it ended, and says where it ends itself.
RunsOn(a) ==
    /\ a.posts \in Seq(FeedPosts) /\ a.cursor \in Nat
    /\ \A p \in steady : \/ Served(p)
                         \/ \E i \in DOMAIN a.posts : a.posts[i] = p
                         \/ a.has_more /\ a.cursor # 0 /\ Ahead(p, a.cursor)

\* Every post that was there all the time has been shown or is still to come.
CoverOK ==
    OnFeed /\ ~(unlocked /\ thinned) =>
       /\ page.cards \in Seq(FeedPosts)
       /\ "caught up" \in page.marks => \A p \in steady : Served(p)
       /\ observer # 0 => /\ feedCursor \in Nat
                          /\ \A p \in steady : Served(p) \/ Ahead(p, feedCursor)
       /\ \A q \in apiCalls : q.state = "ok" => RunsOn(q.answer)

FeedInv == RowsOK /\ GraphOK /\ ClientOK /\ CoverOK

-----------------------------------------------------------------------------
\* Counting up to a number.
LEMMA CountTo == ASSUME NEW n \in Nat PROVE IsFiniteSet(1 .. n) /\ Cardinality(1 .. n) = n
BY FS_Interval

\* Every row has its place in the order of a query.
LEMMA OrderedOnto ==
    ASSUME NEW hits, IsFiniteSet(hits), NEW column, NEW s \in Ordered(hits, column), NEW r \in hits
    PROVE  Cardinality(hits) \in Nat /\ \E i \in 1 .. Cardinality(hits) : s[i] = r
<1> PICK n \in Nat : n = Cardinality(hits)
  BY FS_CardinalityType
<1>1. /\ s \in [1 .. n -> hits]
      /\ \A i, j \in 1 .. n : i < j => s[i] # s[j]
  <2>1. s \in [1 .. n -> hits] /\ \A i, j \in DOMAIN s : i < j => s[i] # s[j]
    BY Zenon DEF Ordered
  <2>2. DOMAIN s = 1 .. n
    BY <2>1, Zenon
  <2> QED
    BY <2>1, <2>2, Zenon
<1>2. /\ IsFiniteSet(hits \ {r}) /\ Cardinality(hits \ {r}) = n - 1
  BY FS_RemoveElement
<1>3. /\ IsFiniteSet(1 .. n) /\ Cardinality(1 .. n) = n
  BY CountTo, Zenon
<1>4. SUFFICES ASSUME \A i \in 1 .. n : s[i] # r
               PROVE  FALSE
  BY Zenon
<1>5. s \in [1 .. n -> hits \ {r}]
  BY <1>1, <1>4
<1>6. Cardinality(hits \ {r}) < Cardinality(1 .. n)
  BY <1>2, <1>3
<1>7. PICK x, y \in 1 .. n : x # y /\ s[x] = s[y]
  BY <1>2, <1>3, <1>5, <1>6, FS_PigeonHole
<1>8. x < y \/ y < x
  BY <1>7
<1> QED
  BY <1>1, <1>7, <1>8, Zenon

\* What LIMIT leaves of the rows of a query.
LEMMA LimitIs ==
    ASSUME NEW T, NEW s \in Seq(T), NEW m \in Nat
    PROVE  /\ Limit(s, m) \in Seq(T)
           /\ Len(Limit(s, m)) = IF Len(s) < m THEN Len(s) ELSE m
           /\ \A i \in 1 .. Len(Limit(s, m)) : Limit(s, m)[i] = s[i]
BY DEF Limit

\* Nothing is skipped from rows of other authors.
LEMMA SkippingNone ==
    ASSUME NEW T, NEW s \in Seq(T), NEW skip, \A i \in DOMAIN s : AuthorOf[s[i].post] \notin skip
    PROVE  Skipping(s, skip) = s
<1> DEFINE kept == {i \in DOMAIN s : AuthorOf[s[i].post] \notin skip}
           Nth(k) == CHOOSE i \in kept : Cardinality({j \in kept : j <= i}) = k
<1>1. DOMAIN s = 1 .. Len(s) /\ Len(s) \in Nat
  OBVIOUS
<1>2. kept = 1 .. Len(s)
  BY <1>1, Zenon
<1>3. Cardinality(kept) = Len(s)
  <2>1. Cardinality(1 .. Len(s)) = Len(s)
    BY <1>1, CountTo, Zenon
  <2> QED
    BY <1>2, <2>1, Zenon
<1>4. ASSUME NEW i \in 1 .. Len(s)
      PROVE  Cardinality({j \in kept : j <= i}) = i
  <2>1. {j \in kept : j <= i} = 1 .. i
    BY <1>1, <1>2
  <2>2. i \in Nat
    BY <1>1
  <2>3. Cardinality(1 .. i) = i
    BY <2>2, CountTo, Zenon
  <2> QED
    BY <2>1, <2>3, Zenon
<1>5. ASSUME NEW k \in 1 .. Len(s)
      PROVE  Nth(k) = k
  <2>1. k \in kept /\ Cardinality({j \in kept : j <= k}) = k
    BY <1>2, <1>4, Zenon
  <2>2. Nth(k) \in kept /\ Cardinality({j \in kept : j <= Nth(k)}) = k
    BY <2>1, Zenon
  <2> HIDE DEF Nth
  <2> QED
    BY <1>2, <1>4, <2>2, Zenon
<1>6. Skipping(s, skip) = [k \in 1 .. Cardinality(kept) |-> s[Nth(k)]]
  BY Zenon DEF Skipping
<1> HIDE DEF Nth, kept
<1>7. Skipping(s, skip) = [k \in 1 .. Len(s) |-> s[k]]
  BY <1>3, <1>5, <1>6
<1> QED
  BY <1>1, <1>7

\* The rows of a query up to a limit: a row that is cut off comes after the last one.
LEMMA CutOff ==
    ASSUME NEW hits \in SUBSET Row, IsFiniteSet(hits), NEW column \in {"created", "rowid"},
           NEW s \in Ordered(hits, column), NEW m \in Nat \ {0}
    PROVE  /\ s \in Seq(Row) /\ \A i \in DOMAIN s : s[i] \in hits
           /\ \A r \in hits : \/ \E i \in 1 .. Len(s) : i <= m /\ s[i] = r
                              \/ Len(s) > m /\ s[m] \in hits /\ s[m] # r /\ r[column] <= s[m][column]
<1> PICK n \in Nat : n = Cardinality(hits)
  BY FS_CardinalityType
<1>1. /\ s \in [1 .. n -> hits] /\ DOMAIN s = 1 .. n
      /\ \A i, j \in 1 .. n : i < j => s[i] # s[j] /\ s[i][column] >= s[j][column]
  <2>1. s \in [1 .. n -> hits] /\ \A i, j \in DOMAIN s : i < j => s[i] # s[j] /\ s[i][column] >= s[j][column]
    BY Zenon DEF Ordered
  <2>2. DOMAIN s = 1 .. n
    BY <2>1, Zenon
  <2> QED
    BY <2>1, <2>2, Zenon
<1>2. s \in Seq(Row) /\ Len(s) = n
  <2>1. s \in [1 .. n -> Row]
    BY <1>1, Zenon
  <2> QED
    BY <2>1
<1>3. ASSUME NEW r \in hits
      PROVE  \/ \E i \in 1 .. n : i <= m /\ s[i] = r
             \/ n > m /\ s[m] \in hits /\ s[m] # r /\ r[column] <= s[m][column]
  <2>1. PICK i \in 1 .. n : s[i] = r
    BY OrderedOnto
  <2>2. CASE i <= m
    BY <2>1, <2>2, Zenon
  <2>3. CASE ~(i <= m)
    <3>1. m \in 1 .. n /\ m < i /\ n > m
      BY <2>3
    <3>2. s[m] # r /\ s[m][column] >= r[column] /\ s[m] \in hits
      BY <1>1, <2>1, <3>1, Zenon
    <3>3. s[m][column] \in Nat /\ r[column] \in Nat
      <4>1. \A x \in hits : x.created \in Nat /\ x.rowid \in Nat
        BY DEF Row
      <4> QED
        BY <3>2, <4>1, Zenon
    <3>4. r[column] <= s[m][column]
      BY <3>2, <3>3
    <3> QED
      BY <3>1, <3>2, <3>4, Zenon
  <2> QED
    BY <2>2, <2>3, Zenon
<1>4. \A i \in DOMAIN s : s[i] \in hits
  BY <1>1, Zenon
<1> QED
  BY <1>2, <1>3, <1>4, Zenon

\* The posts of the rows of a page.
LEMMA PostsOfIs ==
    ASSUME NEW s \in Seq(Row)
    PROVE  /\ PostsOf(s) \in Seq(FeedPosts) /\ DOMAIN PostsOf(s) = 1 .. Len(s)
           /\ \A i \in 1 .. Len(s) : PostsOf(s)[i] = s[i].post
<1>1. DOMAIN s = 1 .. Len(s) /\ Len(s) \in Nat /\ \A i \in 1 .. Len(s) : s[i] \in Row
  OBVIOUS
<1>2. \A r \in Row : r.post \in FeedPosts
  BY DEF Row
<1>3. PostsOf(s) = [i \in 1 .. Len(s) |-> s[i].post]
  BY <1>1, Zenon DEF PostsOf
<1>4. PostsOf(s) \in [1 .. Len(s) -> FeedPosts]
  BY <1>1, <1>2, <1>3, Zenon
<1>5. PostsOf(s) \in Seq(FeedPosts)
  BY <1>1, <1>4
<1> QED
  BY <1>3, <1>5, Zenon

\* What a page says of a post that is to come at the cursor.
Serves(a, p) ==
    \/ unlocked /\ Tied(p)
    \/ \E i \in DOMAIN a.posts : a.posts[i] = p
    \/ a.has_more /\ a.cursor # 0 /\ Ahead(p, a.cursor)

\* Until something is thinned out, a page of the connections' feed has what comes
\* at its cursor, or ends before it.
LEMMA ConnectionsPage ==
    ASSUME RowsOK, GraphOK, unlocked, ~thinned, NEW c \in Nat, NEW a \in ConnectionsFeed(c)
    PROVE  /\ a.posts \in Seq(FeedPosts) /\ a.cursor \in Nat
           /\ \A r \in ConnectionsRows(c) : Serves(a, r.post)
<1> PICK hits : hits = ConnectionsRows(c)
  BY Zenon
<1>1. hits \subseteq table /\ hits \in SUBSET Row /\ IsFiniteSet(hits)
  <2>1. hits \subseteq table
    BY Zenon DEF ConnectionsRows, Live
  <2> QED
    BY <2>1, FS_Subset, Zenon DEF RowsOK
<1>2. \A r \in hits : AuthorOf[r.post] \notin excluded
  <2>1. \A r \in hits : AuthorOf[r.post] \in connectedTo \cup {Me}
    BY Zenon DEF ConnectionsRows
  <2> QED
    BY <2>1, FeedAssumption, Zenon DEF GraphOK
<1> PICK s \in Ordered(hits, "created") :
      LET items == Skipping(Limit(s, PageSize + 1), excluded)
          has_more == Len(items) > PageSize
          shown == Limit(items, PageSize)
      IN  a = [posts |-> PostsOf(shown), has_more |-> has_more,
               cursor |-> IF has_more THEN shown[Len(shown)].created ELSE 0]
  BY Zenon DEF ConnectionsFeed, FeedPage
<1>3. PageSize \in Nat \ {0} /\ PageSize + 1 \in Nat
  BY FeedAssumption
<1>4. /\ s \in Seq(Row) /\ \A i \in DOMAIN s : s[i] \in hits
      /\ \A r \in hits : \/ \E i \in 1 .. Len(s) : i <= PageSize /\ s[i] = r
                         \/ /\ Len(s) > PageSize /\ s[PageSize] \in hits /\ s[PageSize] # r
                            /\ r.created <= s[PageSize].created
  BY <1>1, <1>3, CutOff, Zenon
<1> PICK t : t = Limit(s, PageSize + 1)
  BY Zenon
<1>5. /\ t \in Seq(Row) /\ Len(t) = IF Len(s) < PageSize + 1 THEN Len(s) ELSE PageSize + 1
      /\ \A i \in 1 .. Len(t) : t[i] = s[i]
  BY <1>3, <1>4, LimitIs, Zenon
<1>6. Skipping(t, excluded) = t
  <2>1. \A i \in DOMAIN t : t[i] \in hits
    BY <1>4, <1>5, <1>3
  <2> QED
    BY <1>2, <1>5, <2>1, SkippingNone, Zenon
<1> PICK u : u = Limit(t, PageSize)
  BY Zenon
<1>7. /\ u \in Seq(Row) /\ Len(u) = IF Len(t) < PageSize THEN Len(t) ELSE PageSize
      /\ \A i \in 1 .. Len(u) : u[i] = t[i]
  BY <1>3, <1>5, LimitIs, Zenon
<1>8. a = [posts |-> PostsOf(u), has_more |-> Len(t) > PageSize,
           cursor |-> IF Len(t) > PageSize THEN u[Len(u)].created ELSE 0]
  BY <1>6, Zenon
<1>8a. a.posts = PostsOf(u) /\ a.cursor = IF Len(t) > PageSize THEN u[Len(u)].created ELSE 0
  BY <1>8
<1>8b. Len(t) > PageSize => a.has_more
  <2> SUFFICES ASSUME Len(t) > PageSize PROVE a.has_more
    BY Zenon
  <2>1. (Len(t) > PageSize) = TRUE
    BY Zenon
  <2>2. a = [posts |-> PostsOf(u), has_more |-> TRUE, cursor |-> u[Len(u)].created]
    BY <1>8, <2>1, Zenon
  <2>3. a.has_more = TRUE
    BY <2>2, SMTT(30)
  <2> QED
    BY <2>3, Zenon
<1>9. /\ Len(u) = IF Len(s) < PageSize THEN Len(s) ELSE PageSize
      /\ \A i \in 1 .. Len(u) : u[i] = s[i]
      /\ Len(t) > PageSize <=> Len(s) > PageSize
  BY <1>3, <1>4, <1>5, <1>7, SMTT(30)
<1>10. Len(s) > PageSize => a.has_more /\ a.cursor = s[PageSize].created
  <2> SUFFICES ASSUME Len(s) > PageSize PROVE a.has_more /\ a.cursor = s[PageSize].created
    BY SMTT(30)
  <2>1. Len(u) = PageSize /\ u[PageSize] = s[PageSize] /\ Len(t) > PageSize
    BY <1>3, <1>4, <1>9, SMTT(30)
  <2> QED
    BY <1>8a, <1>8b, <2>1, Zenon
<1>11. \A r \in Row : r.created \in Nat \ {0}
  BY DEF Row
<1>12. a.posts \in Seq(FeedPosts) /\ a.cursor \in Nat
  <2>1. a.posts \in Seq(FeedPosts)
    BY <1>7, <1>8a, <1>8b, PostsOfIs, Zenon
  <2>2. CASE Len(s) > PageSize
    <3>1. s[PageSize] \in Row
      BY <1>3, <1>4, <2>2, SMTT(30)
    <3> QED
      BY <1>10, <1>11, <2>1, <2>2, <3>1, Zenon
  <2>3. CASE ~(Len(s) > PageSize)
    <3>1. a.cursor = 0
      BY <1>8a, <1>8b, <1>9, <2>3, Zenon
    <3> QED
      BY <2>1, <3>1
  <2> QED
    BY <2>2, <2>3, Zenon
<1>13. ASSUME NEW r \in hits PROVE Serves(a, r.post)
  <2>1. CASE \E i \in 1 .. Len(s) : i <= PageSize /\ s[i] = r
    <3>1. PICK i \in 1 .. Len(s) : i <= PageSize /\ s[i] = r
      BY <2>1, Zenon
    <3>2. i \in 1 .. Len(u) /\ u[i] = r
      BY <1>3, <1>4, <1>9, <3>1
    <3>3. i \in DOMAIN a.posts /\ a.posts[i] = r.post
      <4>1. DOMAIN PostsOf(u) = 1 .. Len(u) /\ PostsOf(u)[i] = u[i].post
        BY <1>7, <3>2, PostsOfIs, Zenon
      <4> QED
        BY <1>8a, <3>2, <4>1, Zenon
    <3> QED
      BY <3>3, Zenon DEF Serves
  <2>2. CASE /\ Len(s) > PageSize /\ s[PageSize] \in hits /\ s[PageSize] # r
             /\ r.created <= s[PageSize].created
    <3> PICK last \in hits : last = s[PageSize]
      BY <2>2, Zenon
    <3>1. a.has_more /\ a.cursor = last.created /\ r \in table /\ last \in table /\ r # last
      BY <1>1, <1>10, <2>2, Zenon
    <3>2. r.created \in Nat /\ last.created \in Nat \ {0}
      BY <1>1, <1>11, Zenon
    <3>3. r.created = last.created \/ r.created < last.created
      BY <2>2, <3>2, SMTT(30)
    <3>4. last.created # 0
      BY <3>2
    <3>5. CASE r.created = last.created
      BY <3>1, <3>5, Zenon DEF Serves, Tied
    <3>6. CASE r.created < last.created
      BY <3>1, <3>4, <3>6, Zenon DEF Serves, Ahead, Place
    <3> QED
      BY <3>3, <3>5, <3>6, Zenon
  <2> QED
    BY <1>4, <2>1, <2>2, Zenon
<1> QED
  BY <1>12, <1>13, Zenon

\* So has a page of a locked node, whose rows have their own rowids.
LEMMA UnfilteredPage ==
    ASSUME RowsOK, ~unlocked, NEW c \in Nat, NEW a \in ConnectionsUnfiltered(c)
    PROVE  /\ a.posts \in Seq(FeedPosts) /\ a.cursor \in Nat
           /\ \A r \in Live : Before(r.rowid, c) => Serves(a, r.post)
<1> PICK hits : hits = {r \in Live : Before(r.rowid, c)}
  BY Zenon
<1>1. hits \subseteq table /\ hits \in SUBSET Row /\ IsFiniteSet(hits)
  <2>1. hits \subseteq table
    BY Zenon DEF Live
  <2> QED
    BY <2>1, FS_Subset, Zenon DEF RowsOK
<1> PICK s \in Ordered(hits, "rowid") :
      LET u == Limit(s, PageSize)
      IN  a = [posts |-> PostsOf(u), has_more |-> Len(u) = PageSize,
               cursor |-> IF u = <<>> THEN 0 ELSE u[Len(u)].rowid]
  BY ZenonT(30) DEF ConnectionsUnfiltered
<1>2. PageSize \in Nat \ {0} /\ PageSize \in Nat
  BY FeedAssumption
<1>3. /\ s \in Seq(Row) /\ \A i \in DOMAIN s : s[i] \in hits
      /\ \A r \in hits : \/ \E i \in 1 .. Len(s) : i <= PageSize /\ s[i] = r
                         \/ /\ Len(s) > PageSize /\ s[PageSize] \in hits /\ s[PageSize] # r
                            /\ r.rowid <= s[PageSize].rowid
  BY <1>1, <1>2, CutOff, Zenon
<1> PICK u : u = Limit(s, PageSize)
  BY Zenon
<1>4. /\ u \in Seq(Row) /\ Len(u) = IF Len(s) < PageSize THEN Len(s) ELSE PageSize
      /\ \A i \in 1 .. Len(u) : u[i] = s[i]
  BY <1>2, <1>3, LimitIs, Zenon
<1>5. a = [posts |-> PostsOf(u), has_more |-> Len(u) = PageSize,
           cursor |-> IF u = <<>> THEN 0 ELSE u[Len(u)].rowid]
  BY Zenon
<1>6. a.posts = PostsOf(u) /\ a.cursor = IF u = <<>> THEN 0 ELSE u[Len(u)].rowid
  BY <1>5
<1>7. Len(u) = PageSize => a.has_more
  <2> SUFFICES ASSUME Len(u) = PageSize PROVE a.has_more
    BY Zenon
  <2>1. (Len(u) = PageSize) = TRUE
    BY Zenon
  <2>2. a = [posts |-> PostsOf(u), has_more |-> TRUE, cursor |-> a.cursor]
    BY <1>5, <1>6, <2>1, Zenon
  <2>3. a.has_more = TRUE
    BY <2>2
  <2> QED
    BY <2>3, Zenon
<1>8. \A r \in Row : r.rowid \in Nat \ {0}
  BY DEF Row
<1>9. a.posts \in Seq(FeedPosts) /\ a.cursor \in Nat
  <2>1. a.posts \in Seq(FeedPosts)
    BY <1>4, <1>6, PostsOfIs, Zenon
  <2>2. u = <<>> \/ u[Len(u)] \in Row
    BY <1>4
  <2>3. a.cursor \in Nat
    <3>1. CASE u = <<>>
      BY <1>6, <3>1
    <3>2. CASE u # <<>>
      BY <1>6, <1>8, <2>2, <3>2, Zenon
    <3> QED
      BY <3>1, <3>2, Zenon
  <2> QED
    BY <2>1, <2>3, Zenon
<1>10. ASSUME NEW r \in hits PROVE Serves(a, r.post)
  <2>1. CASE \E i \in 1 .. Len(s) : i <= PageSize /\ s[i] = r
    <3>1. PICK i \in 1 .. Len(s) : i <= PageSize /\ s[i] = r
      BY <2>1, Zenon
    <3>2. i \in 1 .. Len(u) /\ u[i] = r
      BY <1>2, <1>3, <1>4, <3>1
    <3>3. DOMAIN PostsOf(u) = 1 .. Len(u) /\ PostsOf(u)[i] = u[i].post
      BY <1>4, <3>2, PostsOfIs, Zenon
    <3> QED
      BY <1>6, <3>2, <3>3, Zenon DEF Serves
  <2>2. CASE /\ Len(s) > PageSize /\ s[PageSize] \in hits /\ s[PageSize] # r
             /\ r.rowid <= s[PageSize].rowid
    <3> PICK last \in hits : last = s[PageSize]
      BY <2>2, Zenon
    <3>1. Len(u) = PageSize /\ u[Len(u)] = last /\ u # <<>>
      BY <1>2, <1>3, <1>4, <2>2
    <3>2. a.has_more /\ a.cursor = last.rowid /\ r \in table /\ last \in table /\ r # last
      BY <1>1, <1>6, <1>7, <2>2, <3>1, Zenon
    <3>3. r.rowid # last.rowid
      BY <3>2, Zenon DEF RowsOK
    <3>4. r.rowid \in Nat /\ last.rowid \in Nat \ {0}
      BY <1>1, <1>8, Zenon
    <3>5. r.rowid < last.rowid /\ last.rowid # 0
      BY <2>2, <3>3, <3>4
    <3> QED
      BY <3>2, <3>5, Zenon DEF Serves, Ahead, Place
  <2> QED
    BY <1>3, <2>1, <2>2, Zenon
<1>11. \A r \in Live : Before(r.rowid, c) => r \in hits
  BY Zenon
<1> QED
  BY <1>9, <1>10, <1>11, Zenon

\* Whatever the node answers, a post of the feed that is to come at the cursor
\* is served.
LEMMA AnswerServes ==
    ASSUME RowsOK, GraphOK, ~(unlocked /\ thinned), NEW c \in Nat, NEW a \in Connections(c)
    PROVE  /\ a.posts \in Seq(FeedPosts) /\ a.cursor \in Nat
           /\ \A p \in Shown : c = 0 \/ Ahead(p, c) => Serves(a, p)
<1>1. CASE unlocked
  <2>1. a \in ConnectionsFeed(c) /\ ~thinned
    BY <1>1, Zenon DEF Connections
  <2>2. ASSUME NEW p \in Shown, c = 0 \/ Ahead(p, c) PROVE Serves(a, p)
    <3>1. PICK r \in ConnectionsRows(0) : r.post = p
      BY <1>1, Zenon DEF Shown
    <3>2. r \in Live /\ r \in table /\ AuthorOf[r.post] \in connectedTo \cup {Me}
      BY Zenon DEF ConnectionsRows, Live
    <3>3. Before(r.created, c)
      <4>1. CASE c = 0
        BY <4>1, Zenon DEF Before
      <4>2. CASE Ahead(p, c)
        <5>1. PICK q \in table : q.post = p /\ q.created < c
          BY <1>1, <4>2, Zenon DEF Ahead, Place
        <5>2. q = r
          BY <3>1, <3>2, <5>1, Zenon DEF RowsOK
        <5> QED
          BY <5>1, <5>2, Zenon DEF Before
      <4> QED
        BY <2>2, <4>1, <4>2, Zenon
    <3>4. r \in ConnectionsRows(c)
      BY <3>2, <3>3, Zenon DEF ConnectionsRows
    <3> QED
      BY <1>1, <2>1, <3>1, <3>4, ConnectionsPage, Zenon
  <2> QED
    BY <1>1, <2>1, <2>2, ConnectionsPage, Zenon
<1>2. CASE ~unlocked
  <2>1. a \in ConnectionsUnfiltered(c)
    BY <1>2, Zenon DEF Connections
  <2>2. ASSUME NEW p \in Shown, c = 0 \/ Ahead(p, c) PROVE Serves(a, p)
    <3>1. PICK r \in Live : r.post = p
      BY <1>2, Zenon DEF Shown
    <3>2. r \in table
      BY Zenon DEF Live
    <3>3. Before(r.rowid, c)
      <4>1. CASE c = 0
        BY <4>1, Zenon DEF Before
      <4>2. CASE Ahead(p, c)
        <5>1. PICK q \in table : q.post = p /\ q.rowid < c
          BY <1>2, <4>2, Zenon DEF Ahead, Place
        <5>2. q = r
          BY <3>1, <3>2, <5>1, Zenon DEF RowsOK
        <5> QED
          BY <5>1, <5>2, Zenon DEF Before
      <4> QED
        BY <2>2, <4>1, <4>2, Zenon
    <3> QED
      BY <1>2, <2>1, <3>1, <3>3, UnfilteredPage, Zenon
  <2> QED
    BY <1>2, <2>1, <2>2, UnfilteredPage, Zenon
<1> QED
  BY <1>1, <1>2, Zenon

-----------------------------------------------------------------------------
\* The rows a step of the node leaves: more of them, and of those before only the tomb
\* is new.
RowsKept ==
    \A r \in table : \E x \in table' : x.post = r.post /\ x.created = r.created /\ x.rowid = r.rowid

\* Storing and hiding a post keep the table in order.
LEMMA TableStep ==
    ASSUME RowsOK, (\E p \in FeedPosts : StorePost(p)) \/ (\E r \in table : HidePost(r))
    PROVE  RowsOK' /\ RowsKept
<1> USE DEF RowsOK
<1>0. Cardinality(table) \in Nat
  BY FS_CardinalityType
<1>1. ASSUME NEW p \in FeedPosts, StorePost(p) PROVE RowsOK' /\ RowsKept
  <2> PICK n \in Nat : n = Cardinality(table)
    BY <1>0, Zenon
  <2> PICK x : x = [post |-> p, created |-> CreatedAt[p], rowid |-> n + 1, tomb |-> FALSE]
    BY Zenon
  <2>1. table' = table \cup {x} /\ \A r \in table : r.post # p
    BY <1>1, Zenon DEF StorePost
  <2>2. x \in Row /\ x.post = p /\ x.rowid = n + 1
    BY FeedAssumption DEF Row
  <2>3. \A r \in table : r.rowid \in Nat
    BY DEF Row
  <2>4. \A r \in table : r.rowid # n + 1 /\ r.rowid <= n + 1
    BY <2>3
  <2>5. x \notin table
    BY <2>1, <2>2, Zenon
  <2>6. IsFiniteSet(table') /\ Cardinality(table') = n + 1
    BY <2>1, <2>5, FS_AddElement, Zenon
  <2>7. table' \subseteq Row
    BY <2>1, <2>2, Zenon
  <2>8. ASSUME NEW r \in table', NEW s \in table', r.post = s.post \/ r.rowid = s.rowid
        PROVE  r = s
    <3>1. \A q \in table : q.post # x.post /\ q.rowid # x.rowid
      BY <2>1, <2>2, <2>4, Zenon
    <3>2. (r \in table \/ r = x) /\ (s \in table \/ s = x)
      BY <2>1, Zenon
    <3> QED
      BY <2>8, <3>1, <3>2, Zenon
  <2>9. \A r \in table' : r.rowid <= n + 1
    <3>1. x.rowid <= n + 1
      BY <2>2
    <3> QED
      BY <2>1, <2>4, <3>1, Zenon
  <2>10. RowsKept
    BY <2>1, Zenon DEF RowsKept
  <2> QED
    BY <2>6, <2>7, <2>8, <2>9, <2>10, Zenon
<1>2. ASSUME NEW r \in table, HidePost(r) PROVE RowsOK' /\ RowsKept
  <2> PICK x : x = [r EXCEPT !.tomb = TRUE]
    BY Zenon
  <2>1. table' = (table \ {r}) \cup {x}
    BY <1>2, Zenon DEF HidePost
  <2>2. x \in Row /\ x.post = r.post /\ x.created = r.created /\ x.rowid = r.rowid
    BY Zenon DEF Row
  <2>3. x \notin table \ {r}
    BY <2>2, Zenon
  <2>4. IsFiniteSet(table \ {r}) /\ Cardinality(table \ {r}) = Cardinality(table) - 1
    BY FS_RemoveElement, Zenon
  <2>5. IsFiniteSet(table') /\ Cardinality(table') = Cardinality(table \ {r}) + 1
    BY <2>1, <2>3, <2>4, FS_AddElement, Zenon
  <2>6. Cardinality(table') = Cardinality(table)
    BY <1>0, <2>4, <2>5
  <2>7. table' \subseteq Row
    BY <2>1, <2>2, Zenon
  <2>8. ASSUME NEW q \in table', NEW s \in table', q.post = s.post \/ q.rowid = s.rowid
        PROVE  q = s
    <3>1. \A y \in table \ {r} : y.post # x.post /\ y.rowid # x.rowid
      BY <2>2, Zenon
    <3>2. (q \in table \ {r} \/ q = x) /\ (s \in table \ {r} \/ s = x)
      BY <2>1, Zenon
    <3> QED
      BY <2>8, <3>1, <3>2, Zenon
  <2>9. \A q \in table' : q.rowid <= Cardinality(table)
    BY <2>1, <2>2, Zenon
  <2>10. RowsKept
    BY <2>1, <2>2, Zenon DEF RowsKept
  <2> QED
    BY <2>5, <2>6, <2>7, <2>8, <2>9, <2>10, Zenon
<1> QED
  BY <1>1, <1>2, Zenon

\* What is served or ahead stays so while the node works.
LEMMA StaysCovered ==
    ASSUME RowsOK, RowsKept, unlocked' = unlocked, page' = page, NEW p
    PROVE  /\ Served(p) => Served(p)'
           /\ \A c : Ahead(p, c) => Ahead(p, c)'
<1>1. ASSUME Tied(p) PROVE Tied(p)'
  <2>1. PICK r, s \in table : r # s /\ r.post = p /\ r.created = s.created
    BY <1>1, Zenon DEF Tied
  <2>2. r.post # s.post
    BY <2>1, Zenon DEF RowsOK
  <2>3. PICK x \in table' : x.post = r.post /\ x.created = r.created
    BY Zenon DEF RowsKept
  <2>4. PICK y \in table' : y.post = s.post /\ y.created = s.created
    BY Zenon DEF RowsKept
  <2> QED
    BY <2>1, <2>2, <2>3, <2>4, Zenon DEF Tied
<1>2. Served(p) => Served(p)'
  BY <1>1, Zenon DEF Served
<1>3. ASSUME NEW c, Ahead(p, c) PROVE Ahead(p, c)'
  <2>1. PICK r \in table : r.post = p /\ Place(r) < c
    BY <1>3, Zenon DEF Ahead
  <2>2. PICK x \in table' : x.post = r.post /\ x.created = r.created /\ x.rowid = r.rowid
    BY Zenon DEF RowsKept
  <2> QED
    BY <2>1, <2>2, Zenon DEF Ahead, Place
<1> QED
  BY <1>2, <1>3, Zenon

\* A step of the node: a post stored or hidden, a change of the graph, a lock.
LEMMA NodeStepFeed ==
    ASSUME FeedInv,
           \/ (\E p \in FeedPosts : StorePost(p)) \/ (\E r \in table : HidePost(r))
           \/ ChangeGraph \/ ChangeLock
    PROVE  FeedInv'
<1> USE DEF FeedInv
<1>1. Notes
  BY Zenon DEF StorePost, HidePost, ChangeGraph, ChangeLock
<1>2. RowsOK' /\ RowsKept
  <2>1. CASE table' = table
    BY <2>1, Zenon DEF RowsOK, RowsKept
  <2> QED
    BY <2>1, TableStep, Zenon DEF ChangeGraph, ChangeLock
<1>3. GraphOK'
  <2>1. connectedTo' \subseteq FeedAuthors /\ excluded' \subseteq FeedAuthors /\ unlocked' \in BOOLEAN
    <3>1. CASE ChangeGraph
      BY <3>1, Zenon DEF ChangeGraph, GraphOK
    <3> QED
      BY <3>1, Zenon DEF StorePost, HidePost, ChangeLock, GraphOK
  <2>2. mixed' \in BOOLEAN /\ steady' \subseteq Shown' /\ (~thinned' => connectedTo' \cap excluded' = {})
    BY <1>1, Zenon DEF Notes
  <2> QED
    BY <2>1, <2>2, Zenon DEF GraphOK
<1>4. page' = page /\ apiCalls' = apiCalls /\ observer' = observer /\ feedCursor' = feedCursor
      /\ renders' = renders /\ isLoadingMore' = isLoadingMore /\ crossed' = crossed
  BY <1>1, Zenon DEF Notes, clientVars
<1>5. ClientOK'
  BY <1>4, Zenon DEF ClientOK, CallAt
<1>6. CoverOK'
  <2> SUFFICES ASSUME OnFeed', ~(unlocked' /\ thinned') PROVE CoverOK'
    BY Zenon DEF CoverOK
  <2>1. unlocked' = unlocked /\ ~mixed /\ ~(unlocked /\ thinned) /\ OnFeed
    <3>1. ~mixed' /\ mixed' = (mixed \/ unlocked' # unlocked)
      BY <1>1, Zenon DEF Notes, OnFeed
    <3>2. unlocked' = unlocked /\ ~mixed
      BY <3>1, Zenon
    <3>3. thinned' = (thinned \/ connectedTo' \cap excluded' # {})
      BY <1>1, Zenon DEF Notes
    <3>4. thinned => thinned'
      BY <3>3, Zenon
    <3>5. ~(unlocked /\ thinned)
      BY <3>2, <3>4, Zenon
    <3>6. OnFeed
      BY <1>4, <3>2, Zenon DEF OnFeed
    <3> QED
      BY <3>2, <3>5, <3>6, Zenon
  <2>2. steady' \subseteq steady
    BY <1>1, Zenon DEF Notes
  <2>3. \A p : (Served(p) => Served(p)') /\ \A c : Ahead(p, c) => Ahead(p, c)'
    BY <1>2, <1>4, <2>1, StaysCovered, Zenon
  <2>4. page'.cards \in Seq(FeedPosts)
    BY <1>4, <2>1, Zenon DEF CoverOK
  <2>5. ASSUME "caught up" \in page'.marks PROVE \A p \in steady' : Served(p)'
    BY <1>4, <2>1, <2>2, <2>3, <2>5, Zenon DEF CoverOK
  <2>6. ASSUME observer' # 0
        PROVE  feedCursor' \in Nat /\ \A p \in steady' : Served(p)' \/ Ahead(p, feedCursor)'
    <3>1. feedCursor \in Nat /\ \A p \in steady : Served(p) \/ Ahead(p, feedCursor)
      BY <1>4, <2>1, <2>6, Zenon DEF CoverOK
    <3> PICK c : c = feedCursor
      BY Zenon
    <3>2. \A p \in steady' : Served(p)' \/ Ahead(p, c)'
      BY <2>2, <2>3, <3>1, Zenon
    <3>3. c = feedCursor'
      BY <1>4, Zenon
    <3>4. \A p : Ahead(p, c)' => Ahead(p, feedCursor)'
      BY <3>3, Zenon DEF Ahead
    <3> QED
      BY <1>4, <3>1, <3>2, <3>4, Zenon
  <2>7. ASSUME NEW q \in apiCalls', q.state = "ok" PROVE RunsOn(q.answer)'
    <3>1. RunsOn(q.answer)
      BY <1>4, <2>1, <2>7, Zenon DEF CoverOK
    <3> QED
      BY <2>2, <2>3, <3>1, Zenon DEF RunsOn
  <2> QED
    BY <2>4, <2>5, <2>6, <2>7, Zenon DEF CoverOK
<1> QED
  BY <1>2, <1>3, <1>5, <1>6, Zenon

\* A step of the client does not touch the table.
LEMMA ClientFrame ==
    ASSUME RowsOK, UNCHANGED tableVars
    PROVE  /\ RowsOK' /\ Shown' = Shown /\ unlocked' = unlocked
           /\ \A p : (Tied(p)' <=> Tied(p)) /\ \A c : Ahead(p, c)' <=> Ahead(p, c)
<1>1. table' = table /\ connectedTo' = connectedTo /\ excluded' = excluded /\ unlocked' = unlocked
  BY Zenon DEF tableVars
<1>2. RowsOK'
  BY <1>1, Zenon DEF RowsOK
<1>3. Shown' = Shown
  BY <1>1, Zenon DEF Shown, ConnectionsRows, Live, Before
<1>4. \A p : (Tied(p)' <=> Tied(p)) /\ \A c : Ahead(p, c)' <=> Ahead(p, c)
  BY <1>1, Zenon DEF Tied, Ahead, Place
<1> QED
  BY <1>1, <1>2, <1>3, <1>4, Zenon

\* Without a view that began too early the call at hand is the only one.
LEMMA OnlyCall ==
    ASSUME ClientOK, ~crossed, NEW q \in apiCalls
    PROVE  apiCalls = {q} /\ apiCalls \ {q} = {} /\ CallAt(q)
BY Zenon DEF ClientOK

\* A view begins.
LEMMA ViewStep ==
    ASSUME FeedInv, RenderFeed \/ LeaveFeed
    PROVE  FeedInv'
<1> USE DEF FeedInv
<1>1. UNCHANGED tableVars
  BY Zenon DEF RenderFeed, LeaveFeed
<1>2. RowsOK' /\ Shown' = Shown /\ unlocked' = unlocked
  BY <1>1, ClientFrame, Zenon
<1>3. connectedTo' = connectedTo /\ excluded' = excluded
  BY <1>1, Zenon DEF tableVars
<1>4. \A v \in {"feed", "other"} : /\ DOMAIN Blank(v) = {"view", "cards", "marks", "sentinels"}
                                   /\ Blank(v).view = v /\ Blank(v).cards = <<>>
                                   /\ Blank(v).marks = {} /\ Blank(v).sentinels = {}
  BY DEF Blank
<1>5. CASE RenderFeed
  <2> PICK c : c = Call("first", renders + 1, 0)
    BY Zenon
  <2>1. /\ page' = Blank("feed") /\ apiCalls' = apiCalls \cup {c} /\ observer' = 0 /\ renders' = renders + 1
        /\ crossed' = (crossed \/ apiCalls # {})
        /\ mixed' = FALSE /\ steady' = Shown /\ thinned' = (connectedTo \cap excluded # {})
    BY <1>5, Zenon DEF RenderFeed
  <2>2. renders \in Nat /\ renders + 1 \in Nat \ {0}
    <3>1. renders \in Nat
      BY ZenonT(30) DEF ClientOK
    <3> QED
      BY <3>1
  <2>3. IsCall(c) /\ c.kind = "first" /\ c.after = 0 /\ c.state = "out"
    BY <2>2 DEF IsCall, Call
  <2>4. GraphOK'
    BY <1>2, <1>3, <2>1, Zenon DEF GraphOK
  <2>5. ~crossed' => apiCalls' = {c}
    BY <2>1, Zenon
  <2>6. CallAt(c)'
    BY <1>4, <2>1, <2>3, Zenon DEF CallAt
  <2>7. ClientOK'
    BY <1>4, <2>1, <2>2, <2>3, <2>5, <2>6, Zenon DEF ClientOK
  <2>8. CoverOK'
    <3>1. page'.cards \in Seq(FeedPosts) /\ "caught up" \notin page'.marks
      <4>1. <<>> \in Seq(FeedPosts)
        OBVIOUS
      <4> QED
        BY <1>4, <2>1, <4>1, Zenon
    <3>2. c.state # "ok"
      BY <2>3, Zenon
    <3> QED
      BY <2>1, <2>5, <3>1, <3>2, Zenon DEF CoverOK, OnFeed
  <2> QED
    BY <1>2, <2>4, <2>7, <2>8, Zenon
<1>6. CASE LeaveFeed
  <2>1. /\ page' = Blank("other") /\ apiCalls' = apiCalls /\ observer' = 0 /\ renders' = renders
        /\ crossed' = (crossed \/ apiCalls # {})
        /\ mixed' = mixed /\ steady' = steady /\ thinned' = thinned
    BY <1>6, Zenon DEF LeaveFeed
  <2>2. GraphOK'
    BY <1>2, <1>3, <2>1, Zenon DEF GraphOK
  <2>3. ~crossed' => apiCalls' = {}
    BY <2>1, Zenon
  <2>4. ClientOK'
    BY <1>4, <2>1, <2>3, Zenon DEF ClientOK
  <2>5. CoverOK'
    <3>1. page'.view # "feed"
      BY <1>4, <2>1, Zenon
    <3> QED
      BY <3>1, Zenon DEF CoverOK, OnFeed
  <2> QED
    BY <1>2, <2>2, <2>4, <2>5, Zenon
<1> QED
  BY <1>5, <1>6, Zenon

\* The other steps of the client leave the histories as they are, too.
Elsewhere == UNCHANGED <<tableVars, renders, crossed, mixed, thinned, steady>>

\* They keep the rows, the graph, and what is served and ahead.
LEMMA ElsewhereFrame ==
    ASSUME FeedInv, Elsewhere
    PROVE  /\ RowsOK' /\ GraphOK' /\ unlocked' = unlocked
           /\ renders' = renders /\ crossed' = crossed /\ mixed' = mixed
           /\ thinned' = thinned /\ steady' = steady
           /\ \A p : (Tied(p)' <=> Tied(p)) /\ \A c : Ahead(p, c)' <=> Ahead(p, c)
<1>1. /\ UNCHANGED tableVars /\ renders' = renders /\ crossed' = crossed /\ mixed' = mixed
      /\ thinned' = thinned /\ steady' = steady
  BY Zenon DEF Elsewhere
<1>2. /\ RowsOK' /\ Shown' = Shown /\ unlocked' = unlocked
      /\ \A p : (Tied(p)' <=> Tied(p)) /\ \A c : Ahead(p, c)' <=> Ahead(p, c)
  BY <1>1, ClientFrame, Zenon DEF FeedInv
<1>3. connectedTo' = connectedTo /\ excluded' = excluded
  BY <1>1, Zenon DEF tableVars
<1>4. GraphOK'
  BY <1>1, <1>2, <1>3, Zenon DEF GraphOK, FeedInv
<1> QED
  BY <1>1, <1>2, <1>4, Zenon

\* What is served and ahead when the page stays as it is.
LEMMA PageStays ==
    ASSUME FeedInv, Elsewhere, page'.cards = page.cards
    PROVE  /\ \A p : Served(p) => Served(p)'
           /\ \A a : RunsOn(a) => RunsOn(a)'
<1>1. \A p : Served(p) => Served(p)'
  BY ElsewhereFrame, Zenon DEF Served
<1>2. \A a : RunsOn(a) => RunsOn(a)'
  BY <1>1, ElsewhereFrame, Zenon DEF RunsOn
<1> QED
  BY <1>1, <1>2, Zenon

\* loadMorePosts: nothing else is out, and the call begins at the cursor.
LEMMA LoadStep ==
    ASSUME FeedInv, LoadMorePosts
    PROVE  FeedInv'
<1> PICK c : c = Call("more", observer, feedCursor)
  BY Zenon
<1>1. /\ Elsewhere /\ observer \in page.sentinels /\ ~isLoadingMore
      /\ isLoadingMore' = TRUE /\ apiCalls' = apiCalls \cup {c}
      /\ page' = page /\ feedCursor' = feedCursor /\ observer' = observer
  BY Zenon DEF LoadMorePosts, Elsewhere
<1>2. RowsOK' /\ GraphOK' /\ renders' = renders /\ crossed' = crossed
  BY <1>1, ElsewhereFrame, Zenon
<1>3. observer \in Nat \ {0} /\ ClientOK
  BY <1>1, Zenon DEF FeedInv, ClientOK
<1>4. observer # 0
  BY <1>3, SMTT(30)
<1>5. IsCall(c) /\ c.kind = "more" /\ c.id = observer /\ c.after = feedCursor /\ c.state = "out"
  BY <1>3 DEF IsCall, Call
<1>6. ~crossed => apiCalls = {}
  BY <1>1, <1>3, <1>4, Zenon DEF ClientOK, CallAt, IsCall
<1>7. ~crossed => CallAt(c)'
  <2>1. ~crossed => page.view = "feed" /\ "caught up" \notin page.marks
    BY <1>3, <1>4, Zenon DEF ClientOK
  <2>2. c.kind # "first"
    BY <1>5, Zenon
  <2> QED
    BY <1>1, <1>4, <1>5, <2>1, <2>2, Zenon DEF CallAt
<1>8. ClientOK'
  BY <1>1, <1>2, <1>3, <1>5, <1>6, <1>7, Zenon DEF ClientOK
<1>9. CoverOK'
  <2> SUFFICES ASSUME OnFeed', ~(unlocked' /\ thinned') PROVE CoverOK'
    BY Zenon DEF CoverOK
  <2>1. OnFeed /\ ~(unlocked /\ thinned) /\ CoverOK /\ steady' = steady
    <3>1. unlocked' = unlocked /\ crossed' = crossed /\ mixed' = mixed /\ thinned' = thinned
          /\ steady' = steady
      BY <1>1, ElsewhereFrame, Zenon
    <3> QED
      BY <1>1, <3>1, Zenon DEF OnFeed, FeedInv
  <2>2. \A p : (Served(p) => Served(p)') /\ \A x : Ahead(p, x)' <=> Ahead(p, x)
    BY <1>1, ElsewhereFrame, PageStays, Zenon
  <2>3. \A p : Ahead(p, feedCursor) => Ahead(p, feedCursor)'
    BY <1>1, <2>2, Zenon DEF Ahead
  <2>4. \A q \in apiCalls' : q.state # "ok"
    <3>1. c.state # "ok"
      BY <1>5, Zenon
    <3> QED
      BY <1>1, <1>6, <2>1, <3>1, Zenon DEF OnFeed
  <2> QED
    BY <1>1, <2>1, <2>2, <2>3, <2>4, Zenon DEF CoverOK
<1> QED
  BY <1>2, <1>8, <1>9, Zenon DEF FeedInv

\* The node answers, or the call fails.
LEMMA AnswerStep ==
    ASSUME FeedInv, NEW q \in apiCalls, Answer(q) \/ CallFails(q)
    PROVE  FeedInv'
<1>1. PICK x : /\ apiCalls' = (apiCalls \ {q}) \cup {x} /\ IsCall(x)
               /\ x.kind = q.kind /\ x.id = q.id /\ x.after = q.after
               /\ \/ x.state = "ok" /\ x.answer \in Connections(q.after)
                  \/ x.state = "error"
  <2>1. IsCall(q)
    BY Zenon DEF FeedInv, ClientOK
  <2>2. CASE Answer(q)
    <3>1. PICK a \in Connections(q.after) :
             apiCalls' = (apiCalls \ {q}) \cup {[q EXCEPT !.state = "ok", !.answer = a]}
      BY <2>2, Zenon DEF Answer
    <3> PICK x : x = [q EXCEPT !.state = "ok", !.answer = a]
      BY Zenon
    <3>2. IsCall(x) /\ x.kind = q.kind /\ x.id = q.id /\ x.after = q.after /\ x.state = "ok" /\ x.answer = a
      BY <2>1 DEF IsCall
    <3> QED
      BY <3>1, <3>2, Zenon
  <2>3. CASE CallFails(q)
    <3> PICK x : x = [q EXCEPT !.state = "error"]
      BY Zenon
    <3>1. IsCall(x) /\ x.kind = q.kind /\ x.id = q.id /\ x.after = q.after /\ x.state = "error"
      BY <2>1 DEF IsCall
    <3>2. apiCalls' = (apiCalls \ {q}) \cup {x}
      BY <2>3, Zenon DEF CallFails
    <3> QED
      BY <3>1, <3>2, Zenon
  <2> QED
    BY <2>2, <2>3, Zenon
<1>2. /\ Elsewhere /\ page' = page /\ feedCursor' = feedCursor /\ observer' = observer
      /\ isLoadingMore' = isLoadingMore
  BY Zenon DEF Answer, CallFails, Elsewhere
<1>3. RowsOK' /\ GraphOK' /\ renders' = renders /\ crossed' = crossed
  BY <1>2, ElsewhereFrame, Zenon
<1>4. ~crossed => apiCalls' = {x} /\ CallAt(q)
  BY <1>1, OnlyCall, Zenon DEF FeedInv
<1>5. ~crossed => CallAt(x)'
  BY <1>1, <1>2, <1>4, Zenon DEF CallAt
<1>6. ClientOK'
  <2>1. \A y \in apiCalls' : IsCall(y)
    BY <1>1, Zenon DEF FeedInv, ClientOK
  <2> QED
    BY <1>2, <1>3, <1>4, <1>5, <2>1, Zenon DEF ClientOK, FeedInv
<1>7. CoverOK'
  <2> SUFFICES ASSUME OnFeed', ~(unlocked' /\ thinned') PROVE CoverOK'
    BY Zenon DEF CoverOK
  <2>1. OnFeed /\ ~(unlocked /\ thinned) /\ CoverOK /\ steady' = steady /\ ~crossed
    <3>1. unlocked' = unlocked /\ crossed' = crossed /\ mixed' = mixed /\ thinned' = thinned
          /\ steady' = steady
      BY <1>2, ElsewhereFrame, Zenon
    <3> QED
      BY <1>2, <3>1, Zenon DEF OnFeed, FeedInv
  <2>2. \A p : (Served(p) => Served(p)') /\ \A c : Ahead(p, c)' <=> Ahead(p, c)
    BY <1>2, ElsewhereFrame, PageStays, Zenon
  <2>3. \A p : Ahead(p, feedCursor) => Ahead(p, feedCursor)'
    BY <1>2, <2>2, Zenon DEF Ahead
  <2>4. x.state = "ok" => RunsOn(x.answer)'
    <3> SUFFICES ASSUME x.state = "ok" PROVE RunsOn(x.answer)'
      BY Zenon
    <3> PICK c : c = q.after
      BY Zenon
    <3>1. c \in Nat /\ \A p \in steady : Served(p) \/ c = 0 \/ Ahead(p, c)
      <4>1. CASE q.kind = "first"
        <5>1. c = 0
          BY <1>4, <2>1, <4>1, Zenon DEF CallAt
        <5> QED
          BY <5>1
      <4>2. CASE q.kind = "more"
        <5>1. c = feedCursor /\ observer # 0
          BY <1>4, <2>1, <4>2, Zenon DEF CallAt
        <5> QED
          BY <2>1, <5>1, Zenon DEF CoverOK
      <4>3. q.kind \in {"first", "more"}
        BY Zenon DEF FeedInv, ClientOK, IsCall
      <4> QED
        BY <4>1, <4>2, <4>3, Zenon
    <3>2. x.answer \in Connections(c)
      <4>1. "ok" # "error"
        OBVIOUS
      <4> QED
        BY <1>1, <4>1, Zenon
    <3>3. /\ x.answer.posts \in Seq(FeedPosts) /\ x.answer.cursor \in Nat
          /\ \A p \in Shown : c = 0 \/ Ahead(p, c) => Serves(x.answer, p)
      BY <2>1, <3>1, <3>2, AnswerServes, Zenon DEF FeedInv
    <3>4. steady \subseteq Shown
      BY Zenon DEF FeedInv, GraphOK
    <3>5. \A p \in steady : Served(p) \/ Serves(x.answer, p)
      BY <3>1, <3>3, <3>4, Zenon
    <3>6. RunsOn(x.answer)
      BY <3>3, <3>5, Zenon DEF RunsOn, Serves, Served
    <3> QED
      BY <1>2, <3>6, PageStays, Zenon
  <2> QED
    BY <1>2, <1>4, <2>1, <2>2, <2>3, <2>4, Zenon DEF CoverOK
<1> QED
  BY <1>3, <1>6, <1>7, Zenon DEF FeedInv

\* An answer is applied that brings no card: an empty feed, or a failed call.
LEMMA BareStep ==
    ASSUME FeedInv, NEW q \in apiCalls,
           Elsewhere, apiCalls' = apiCalls \ {q}, feedCursor' = feedCursor, observer' = observer,
           \/ page' = page
           \/ \E mark \in {"empty", "error"} : page' = [page EXCEPT !.marks = @ \cup {mark}]
    PROVE  FeedInv'
<1>1. RowsOK' /\ GraphOK' /\ renders' = renders /\ crossed' = crossed
  BY ElsewhereFrame, Zenon
<1>2. /\ DOMAIN page' = {"view", "cards", "marks", "sentinels"}
      /\ page'.view = page.view /\ page'.cards = page.cards /\ page'.sentinels = page.sentinels
      /\ "caught up" \in page'.marks <=> "caught up" \in page.marks
  <2>1. DOMAIN page = {"view", "cards", "marks", "sentinels"}
    BY Zenon DEF FeedInv, ClientOK
  <2>2. CASE page' = page
    BY <2>1, <2>2, Zenon
  <2>3. ASSUME NEW mark \in {"empty", "error"}, page' = [page EXCEPT !.marks = @ \cup {mark}]
        PROVE  /\ DOMAIN page' = {"view", "cards", "marks", "sentinels"}
               /\ page'.view = page.view /\ page'.cards = page.cards /\ page'.sentinels = page.sentinels
               /\ "caught up" \in page'.marks <=> "caught up" \in page.marks
    <3>1. mark # "caught up"
      BY Zenon
    <3> QED
      BY <2>1, <2>3, <3>1, Zenon
  <2> QED
    BY <2>2, <2>3, Zenon
<1>3. ~crossed => apiCalls' = {}
  BY OnlyCall, Zenon DEF FeedInv
<1>4. ClientOK'
  BY <1>1, <1>2, <1>3, Zenon DEF FeedInv, ClientOK
<1>5. CoverOK'
  <2> SUFFICES ASSUME OnFeed', ~(unlocked' /\ thinned') PROVE CoverOK'
    BY Zenon DEF CoverOK
  <2>1. OnFeed /\ ~(unlocked /\ thinned) /\ CoverOK /\ steady' = steady /\ ~crossed
    <3>1. unlocked' = unlocked /\ crossed' = crossed /\ mixed' = mixed /\ thinned' = thinned
          /\ steady' = steady
      BY ElsewhereFrame, Zenon
    <3> QED
      BY <1>2, <3>1, Zenon DEF OnFeed, FeedInv
  <2>2. \A p : (Served(p) => Served(p)') /\ \A c : Ahead(p, c)' <=> Ahead(p, c)
    BY <1>2, ElsewhereFrame, PageStays, Zenon
  <2>3. \A p : Ahead(p, feedCursor) => Ahead(p, feedCursor)'
    BY <2>2, Zenon DEF Ahead
  <2> QED
    BY <1>2, <1>3, <2>1, <2>2, <2>3, Zenon DEF CoverOK
<1> QED
  BY <1>1, <1>4, <1>5, Zenon DEF FeedInv

\* x is an element of s.
In(x, s) == \E i \in DOMAIN s : s[i] = x

\* What is in either of two sequences is in the two together.
LEMMA Appended ==
    ASSUME NEW T, NEW s \in Seq(T), NEW r \in Seq(T)
    PROVE  /\ s \o r \in Seq(T)
           /\ \A x : In(x, s) \/ In(x, r) => In(x, s \o r)
<1>1. s \o r \in Seq(T) /\ DOMAIN (s \o r) = 1 .. Len(s) + Len(r)
  OBVIOUS
<1>2. ASSUME NEW i \in DOMAIN s
      PROVE  i \in DOMAIN (s \o r) /\ (s \o r)[i] = s[i]
  OBVIOUS
<1>3. ASSUME NEW i \in DOMAIN r
      PROVE  Len(s) + i \in DOMAIN (s \o r) /\ (s \o r)[Len(s) + i] = r[i]
  OBVIOUS
<1> QED
  BY <1>1, <1>2, <1>3, Zenon DEF In

\* An answer is applied that brings cards. Until the last one the sentinel is
\* observed, and the next page begins where this one ended.
LEMMA CardsStep ==
    ASSUME FeedInv, NEW q \in apiCalls, q.state = "ok",
           Elsewhere, apiCalls' = apiCalls \ {q}, feedCursor' = q.answer.cursor,
           NEW last \in BOOLEAN, last <=> ~(q.answer.has_more /\ q.answer.cursor # 0),
           DOMAIN page' = {"view", "cards", "marks", "sentinels"},
           page'.view = page.view, page'.sentinels \subseteq Nat \ {0},
           ~crossed => /\ page'.cards = page.cards \o q.answer.posts
                       /\ "caught up" \in page'.marks <=> last
                       /\ observer' = 0 <=> last
    PROVE  FeedInv'
<1>1. RowsOK' /\ GraphOK' /\ renders' = renders /\ crossed' = crossed
  BY ElsewhereFrame, Zenon
<1>2. ~crossed => apiCalls' = {} /\ CallAt(q)
  BY OnlyCall, Zenon DEF FeedInv
<1>3. ClientOK'
  <2>1. ~crossed => page'.view # "other"
    BY <1>2, Zenon DEF CallAt
  <2>2. page.view \in {"feed", "other"} /\ renders \in Nat /\ crossed \in BOOLEAN /\ \A r \in apiCalls : IsCall(r)
    BY Zenon DEF FeedInv, ClientOK
  <2> QED
    BY <1>1, <1>2, <2>1, <2>2, Zenon DEF ClientOK
<1>4. CoverOK'
  <2> SUFFICES ASSUME OnFeed', ~(unlocked' /\ thinned') PROVE CoverOK'
    BY Zenon DEF CoverOK
  <2>1. /\ OnFeed /\ ~(unlocked /\ thinned) /\ CoverOK /\ steady' = steady /\ ~crossed
        /\ unlocked' = unlocked
    <3>1. unlocked' = unlocked /\ crossed' = crossed /\ mixed' = mixed /\ thinned' = thinned
          /\ steady' = steady
      BY ElsewhereFrame, Zenon
    <3> QED
      BY <3>1, Zenon DEF OnFeed, FeedInv
  <2> PICK cards : cards = page.cards
    BY Zenon
  <2> PICK cells : cells = q.answer.posts
    BY Zenon
  <2>2. cards \in Seq(FeedPosts) /\ RunsOn(q.answer)
    BY <2>1, Zenon DEF CoverOK
  <2>3. cells \in Seq(FeedPosts) /\ q.answer.cursor \in Nat
    BY <2>2, Zenon DEF RunsOn
  <2>4. /\ cards \o cells \in Seq(FeedPosts)
        /\ \A p : In(p, cards) \/ In(p, cells) => In(p, cards \o cells)
    BY <2>2, <2>3, Appended, Zenon
  <2>5. page'.cards = cards \o cells
    BY <2>1, Zenon
  <2>6. \A p : Served(p) \/ (\E i \in DOMAIN cells : cells[i] = p) => Served(p)'
    <3>1. \A p : Tied(p)' <=> Tied(p)
      BY ElsewhereFrame, Zenon
    <3>2. \A p : In(p, cards) \/ In(p, cells) => In(p, page'.cards)
      BY <2>4, <2>5, Zenon
    <3> QED
      BY <2>1, <3>1, <3>2, Zenon DEF Served, In
  <2>7. \A p \in steady' : Served(p)' \/ (~last /\ Ahead(p, feedCursor)')
    <3>1. \A p, c : Ahead(p, c)' <=> Ahead(p, c)
      BY ElsewhereFrame, Zenon
    <3>2. \A p : Ahead(p, q.answer.cursor) => Ahead(p, feedCursor)'
      BY <3>1, Zenon DEF Ahead
    <3>3. \A p \in steady : \/ Served(p) \/ \E i \in DOMAIN cells : cells[i] = p
                            \/ ~last /\ Ahead(p, q.answer.cursor)
      BY <2>2, Zenon DEF RunsOn
    <3> QED
      BY <2>1, <2>6, <3>2, <3>3, Zenon
  <2>8. page'.cards \in Seq(FeedPosts) /\ feedCursor' \in Nat
    BY <2>3, <2>4, <2>5, Zenon
  <2>9. apiCalls' = {}
    BY <1>2, <2>1, Zenon
  <2> QED
    BY <2>1, <2>7, <2>8, <2>9, Zenon DEF CoverOK
<1> QED
  BY <1>1, <1>3, <1>4, Zenon DEF FeedInv

\* An answer, or a failure, is applied.
LEMMA ApplyStep ==
    ASSUME FeedInv, NEW q \in apiCalls, ShowFirst(q) \/ ShowError(q) \/ ShowMore(q) \/ MoreFails(q)
    PROVE  FeedInv'
<1>1. Elsewhere /\ apiCalls' = apiCalls \ {q}
  BY Zenon DEF ShowFirst, ShowError, ShowMore, MoreFails, Apply, Elsewhere
<1>2. /\ DOMAIN page = {"view", "cards", "marks", "sentinels"} /\ page.sentinels \subseteq Nat \ {0}
      /\ q.id \in Nat \ {0}
  BY Zenon DEF FeedInv, ClientOK, IsCall
<1>3. ~crossed => CallAt(q)
  BY OnlyCall, Zenon DEF FeedInv
<1>4. CASE ShowError(q) \/ MoreFails(q)
  <2>1. feedCursor' = feedCursor /\ observer' = observer
    BY <1>4, Zenon DEF ShowError, MoreFails
  <2>2. page' = page \/ \E mark \in {"empty", "error"} : page' = [page EXCEPT !.marks = @ \cup {mark}]
    BY <1>4, Zenon DEF ShowError, MoreFails
  <2> QED
    BY <1>1, <2>1, <2>2, BareStep, Zenon
<1>5. CASE ShowFirst(q)
  <2>1. CASE q.answer.posts = <<>>
    <3>1. feedCursor' = feedCursor /\ observer' = observer
      BY <1>5, <2>1, Zenon DEF ShowFirst
    <3>2. \E mark \in {"empty", "error"} : page' = [page EXCEPT !.marks = @ \cup {mark}]
      BY <1>5, <2>1, Zenon DEF ShowFirst
    <3> QED
      BY <1>1, <3>1, <3>2, BareStep, Zenon
  <2>2. CASE q.answer.posts # <<>>
    <3> PICK more \in BOOLEAN : more <=> q.answer.has_more /\ q.answer.cursor # 0
      BY Zenon
    <3>1. /\ feedCursor' = q.answer.cursor /\ q.state = "ok" /\ q.kind = "first"
          /\ page' = [page EXCEPT !.cards = @ \o q.answer.posts,
                        !.marks = IF more THEN @ ELSE @ \cup {"caught up"},
                        !.sentinels = IF more THEN @ \cup {q.id} ELSE @]
          /\ observer' = IF more THEN q.id ELSE observer
      BY <1>5, <2>2, Zenon DEF ShowFirst
    <3>2. /\ DOMAIN page' = {"view", "cards", "marks", "sentinels"}
          /\ page'.view = page.view /\ page'.cards = page.cards \o q.answer.posts
          /\ page'.marks = IF more THEN page.marks ELSE page.marks \cup {"caught up"}
          /\ page'.sentinels = IF more THEN page.sentinels \cup {q.id} ELSE page.sentinels
      BY <1>2, <3>1
    <3>3. page'.sentinels \subseteq Nat \ {0}
      BY <1>2, <3>2, Zenon
    <3>4. ~crossed => "caught up" \notin page.marks /\ observer = 0
      BY <1>3, <3>1, Zenon DEF CallAt
    <3>5. q.id # 0
      BY <1>2
    <3>6. ~crossed => ("caught up" \in page'.marks <=> ~more) /\ (observer' = 0 <=> ~more)
      BY <3>1, <3>2, <3>4, <3>5, Zenon
    <3> QED
      BY <1>1, <3>1, <3>2, <3>3, <3>6, CardsStep, Zenon
  <2> QED
    BY <2>1, <2>2, Zenon
<1>6. CASE ShowMore(q)
  <2> PICK last \in BOOLEAN : last <=> ~(q.answer.has_more /\ q.answer.cursor # 0)
    BY Zenon
  <2> PICK lost \in BOOLEAN : lost <=> q.answer.posts # <<>> /\ q.id \notin page.sentinels
    BY Zenon
  <2>1. /\ feedCursor' = q.answer.cursor /\ q.state = "ok" /\ q.kind = "more"
        /\ page' = IF lost THEN page
                   ELSE [page EXCEPT !.cards = @ \o q.answer.posts,
                           !.marks = IF last THEN @ \cup {"caught up"} ELSE @,
                           !.sentinels = IF last THEN @ \ {q.id} ELSE @]
        /\ observer' = IF last /\ ~lost THEN 0 ELSE observer
    BY <1>6, Zenon DEF ShowMore
  <2>2. /\ DOMAIN page' = {"view", "cards", "marks", "sentinels"}
        /\ page'.view = page.view
        /\ ~lost => /\ page'.cards = page.cards \o q.answer.posts
                    /\ page'.marks = IF last THEN page.marks \cup {"caught up"} ELSE page.marks
        /\ page'.sentinels \subseteq page.sentinels
    BY <1>2, <2>1, Zenon
  <2>3. page'.sentinels \subseteq Nat \ {0}
    BY <1>2, <2>2, Zenon
  <2>4. ~crossed => ~lost /\ "caught up" \notin page.marks /\ observer # 0
    BY <1>3, <2>1, Zenon DEF CallAt
  <2>5. ~crossed => /\ page'.cards = page.cards \o q.answer.posts
                    /\ "caught up" \in page'.marks <=> last
                    /\ observer' = 0 <=> last
    BY <2>1, <2>2, <2>4, Zenon
  <2> QED
    BY <1>1, <2>1, <2>2, <2>3, <2>5, CardsStep, Zenon
<1> QED
  BY <1>4, <1>5, <1>6, Zenon

\* At the start there is nothing to show.
LEMMA FeedInitInv == FeedInit => FeedInv
<1> SUFFICES ASSUME FeedInit PROVE FeedInv
  OBVIOUS
<1>1. RowsOK
  BY FS_EmptySet, Zenon DEF FeedInit, RowsOK
<1>2. GraphOK
  BY Zenon DEF FeedInit, GraphOK
<1>3. /\ DOMAIN page = {"view", "cards", "marks", "sentinels"} /\ page.view = "other"
      /\ page.marks = {} /\ page.sentinels = {} /\ 0 \in Nat
  BY DEF FeedInit, Blank
<1>4. ClientOK
  BY <1>3, Zenon DEF FeedInit, ClientOK
<1>5. CoverOK
  <2>1. page.view # "feed"
    BY <1>3, Zenon
  <2> QED
    BY <2>1, Zenon DEF CoverOK, OnFeed
<1> QED
  BY <1>1, <1>2, <1>4, <1>5, Zenon DEF FeedInv

\* Every step keeps the invariant of the feed.
LEMMA FeedStepInv == FeedInv /\ [FeedNext]_feedVars => FeedInv'
<1> SUFFICES ASSUME FeedInv, [FeedNext]_feedVars PROVE FeedInv'
  OBVIOUS
<1>1. CASE FeedNext
  BY <1>1, NodeStepFeed, ViewStep, LoadStep, AnswerStep, ApplyStep, Zenon DEF FeedNext
<1>2. CASE UNCHANGED feedVars
  <2>1. /\ Elsewhere /\ page' = page /\ feedCursor' = feedCursor /\ isLoadingMore' = isLoadingMore
        /\ observer' = observer /\ apiCalls' = apiCalls
    BY <1>2, Zenon DEF feedVars, clientVars, Elsewhere
  <2>2. /\ RowsOK' /\ GraphOK' /\ unlocked' = unlocked /\ renders' = renders /\ crossed' = crossed
        /\ mixed' = mixed /\ thinned' = thinned /\ steady' = steady
        /\ \A p : Served(p) => Served(p)'
        /\ \A a : RunsOn(a) => RunsOn(a)'
    BY <2>1, ElsewhereFrame, PageStays, Zenon
  <2>3. \A p : Ahead(p, feedCursor) => Ahead(p, feedCursor)'
    <3>1. \A p, c : Ahead(p, c) => Ahead(p, c)'
      BY <2>1, ElsewhereFrame, Zenon
    <3> QED
      BY <2>1, <3>1, Zenon DEF Ahead
  <2>4. ClientOK'
    BY <2>1, <2>2, Zenon DEF FeedInv, ClientOK, CallAt
  <2>5. CoverOK'
    BY <2>1, <2>2, <2>3, Zenon DEF FeedInv, CoverOK, OnFeed
  <2> QED
    BY <2>2, <2>4, <2>5, Zenon DEF FeedInv
<1> QED
  BY <1>1, <1>2, Zenon

\* For any posts, authors, page size and order of answers: when the client says that
\* the reader has caught up, every post that the feed was to show since it was rendered
\* has a card, with the exceptions that the property names.
THEOREM NothingMissed == FeedSpec => []CaughtUpIsComplete
<1>1. FeedInv => CaughtUpIsComplete
  BY Zenon DEF FeedInv, CoverOK, Served, Tied, CaughtUpIsComplete
<1> QED
  BY <1>1, FeedInitInv, FeedStepInv, PTL DEF FeedSpec
=============================================================================
