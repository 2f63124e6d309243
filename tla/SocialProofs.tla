---------------------------- MODULE SocialProofs ----------------------------
(***************************************************************************)
(* Proofs for Contacts, Groups and Spaces, for any set of people, rooms,   *)
(* circles and posts and any number of calls in flight.                    *)
(***************************************************************************)
EXTENDS Contacts, Groups, Spaces, FiniteSetTheorems, WellFoundedInduction, TLAPS

-----------------------------------------------------------------------------
(* Contacts. *)

\* Nobody has a row that is an own request or a connection without wanting
\* it. While everything is orderly, a row that answers the other side, and an
\* envelope on its way, tell what the row on the other side is.
Answers(a, b) ==
    /\ row[a][b] = "in" => row[b][a] \in {"out", "conn"}
    /\ <<"request", b, a>> \in mail => row[b][a] \in {"out", "conn"}
    /\ <<"accepted", a, b>> \in mail =>
          row[a][b] = "conn" /\ row[b][a] \in {"out", "conn"}
    /\ row[a][b] = "conn" =>
          \/ row[b][a] = "conn"
          \/ row[b][a] = "out" /\ <<"accepted", a, b>> \in mail

Handshake == \A a, b \in People : a # b => Answers(a, b)

ContactsInv ==
    /\ ContactsTypeOK
    /\ \A a, b \in People : row[a][b] \in {"out", "conn"} => <<a, b>> \in want \/ a = b
    /\ orderly => Handshake

\* No rows and no mail: the invariant holds at the start.
LEMMA ContactsInitInv == ContactsInit => ContactsInv
  BY DEF ContactsInit, ContactsInv, ContactsTypeOK, Handshake, Answers

\* What a step on one row does to the others.
LEMMA RowStep ==
  ASSUME row \in [People -> [People -> {"none", "out", "in", "conn"}]],
         NEW a \in People, NEW b \in People,
         NEW s \in {"none", "out", "in", "conn"},
         row' = [row EXCEPT ![a][b] = s]
  PROVE  /\ row' \in [People -> [People -> {"none", "out", "in", "conn"}]]
         /\ row'[a][b] = s
         /\ \A x, y \in People : <<x, y>> # <<a, b>> => row'[x][y] = row[x][y]
  BY Zenon

\* Every step of the contact handshake keeps the invariant.
LEMMA ContactsStep ==
  ASSUME ContactsInv, [ContactsNext]_contactVars
  PROVE  /\ ContactsInv'
         /\ \A p \in Pairs : row[p[1]][p[2]] = "conn" => row'[p[1]][p[2]] # "in"
<1> USE DEF ContactsInv, ContactsTypeOK
<1> DEFINE Good == /\ ContactsInv'
                   /\ \A p \in Pairs :
                        row[p[1]][p[2]] = "conn" => row'[p[1]][p[2]] # "in"
<1>1. ASSUME NEW a \in People, NEW b \in People, a # b, Connect(a, b) \/ Follow(a, b)
      PROVE  Good
  <2>1. /\ row[a][b] = "none"
        /\ row' = [row EXCEPT ![a][b] = "out"]
        /\ want' = want \cup {<<a, b>>}
        /\ UNCHANGED <<blocked, orderly, resending>>
        /\ mail' = mail \/ mail' = mail \cup {<<"request", a, b>>}
    BY <1>1, Zenon DEF Connect, Follow, StoreRequest
  <2>2. /\ row' \in [People -> [People -> {"none", "out", "in", "conn"}]]
        /\ row'[a][b] = "out"
        /\ \A x, y \in People : <<x, y>> # <<a, b>> => row'[x][y] = row[x][y]
    BY <2>1, RowStep, Zenon
  <2>3. ContactsTypeOK'
    BY <2>1, <2>2
  <2>4. \A x, y \in People : row'[x][y] \in {"out", "conn"} => <<x, y>> \in want' \/ x = y
    BY <2>1, <2>2, Zenon
  <2>5. orderly' => Handshake'
    BY <1>1, <2>1, <2>2 DEF Handshake, Answers
  <2> QED  BY <2>1, <2>2, <2>3, <2>4, <2>5 DEF Pairs
<1>2. ASSUME NEW a \in People, NEW b \in People, a # b, AcceptContact(a, b)
      PROVE  Good
  <2>1. /\ want' = want \cup {<<a, b>>}
        /\ UNCHANGED <<blocked, resending>>
        /\ mail' = mail \cup {<<"accepted", a, b>>}
        /\ orderly' = (orderly /\ row[a][b] = "in")
        /\ row' = IF row[a][b] = "none" THEN row ELSE [row EXCEPT ![a][b] = "conn"]
    BY <1>2, ZenonT(30) DEF AcceptContact, StoreAccept
  <2>2. /\ row' \in [People -> [People -> {"none", "out", "in", "conn"}]]
        /\ row'[a][b] = IF row[a][b] = "none" THEN "none" ELSE "conn"
        /\ \A x, y \in People : <<x, y>> # <<a, b>> => row'[x][y] = row[x][y]
    BY <2>1, RowStep
  <2>3. ContactsTypeOK'
    BY <2>1, <2>2
  <2>4. \A x, y \in People : row'[x][y] \in {"out", "conn"} => <<x, y>> \in want' \/ x = y
    BY <2>1, <2>2, Zenon
  <2>5. orderly' => Handshake'
    <3> SUFFICES ASSUME orderly', NEW x \in People, NEW y \in People, x # y
                 PROVE  Answers(x, y)'
      BY Zenon DEF Handshake
    <3>1. orderly /\ Answers(x, y) /\ Answers(y, x)
      BY <2>1, Zenon DEF Handshake
    <3>2. CASE x = a /\ y = b
      BY <3>1, <3>2, <1>2, <2>1, <2>2, Zenon DEF Answers
    <3>3. CASE x = b /\ y = a
      BY <3>1, <3>3, <1>2, <2>1, <2>2, Zenon DEF Answers
    <3>4. CASE <<x, y>> # <<a, b>> /\ <<x, y>> # <<b, a>>
      BY <3>1, <3>4, <1>2, <2>1, <2>2, Zenon DEF Answers
    <3> QED  BY <3>2, <3>3, <3>4, Zenon
  <2> QED  BY <2>1, <2>2, <2>3, <2>4, <2>5 DEF Pairs
<1>3. ASSUME NEW a \in People, NEW b \in People, a # b,
             Drop(a, b) \/ Block(a, b) \/ ResendDelete(a, b)
      PROVE  Good
  <2>1. /\ row' = [row EXCEPT ![a][b] = "none"]
        /\ want' = want \ {<<a, b>>}
        /\ mail' = mail /\ orderly' = FALSE
        /\ blocked' = blocked \/ blocked' = blocked \cup {<<a, b>>}
        /\ resending' = resending \/ resending' = resending \cup {<<a, b>>}
    BY <1>3, Zenon DEF Drop, Block, ResendDelete, StoreDelete
  <2>2. /\ row' \in [People -> [People -> {"none", "out", "in", "conn"}]]
        /\ row'[a][b] = "none"
        /\ \A x, y \in People : <<x, y>> # <<a, b>> => row'[x][y] = row[x][y]
    BY <2>1, RowStep, Zenon
  <2>3. ContactsTypeOK'
    <3>1. orderly' \in BOOLEAN
      BY <2>1, Zenon
    <3> QED  BY <1>3, <2>1, <2>2, <3>1 DEF Pairs
  <2>4. \A x, y \in People : row'[x][y] \in {"out", "conn"} => <<x, y>> \in want' \/ x = y
    BY <2>1, <2>2, Zenon
  <2> QED  BY <2>1, <2>2, <2>3, <2>4 DEF Pairs
<1>4. ASSUME NEW a \in People, NEW b \in People, a # b, ResendRequest(a, b)
      PROVE  Good
  <2>1. CASE row[a][b] # "none"
    <3>1. UNCHANGED <<row, want, mail, blocked, orderly>> /\ resending' = resending \ {<<a, b>>}
      BY <1>4, <2>1, Zenon DEF ResendRequest, StoreRequest
    <3> QED  BY <3>1, Zenon DEF Pairs, Handshake, Answers
  <2>2. CASE row[a][b] = "none"
    <3>1. /\ row' = [row EXCEPT ![a][b] = "out"]
          /\ want' = want \cup {<<a, b>>}
          /\ mail' = mail \cup {<<"request", a, b>>}
          /\ UNCHANGED <<blocked, orderly>> /\ resending' = resending \ {<<a, b>>}
      BY <1>4, <2>2, Zenon DEF ResendRequest, StoreRequest
    <3>2. /\ row' \in [People -> [People -> {"none", "out", "in", "conn"}]]
          /\ row'[a][b] = "out"
          /\ \A x, y \in People : <<x, y>> # <<a, b>> => row'[x][y] = row[x][y]
      BY <3>1, RowStep, Zenon
    <3>3. ContactsTypeOK'
      BY <3>1, <3>2
    <3>4. \A x, y \in People : row'[x][y] \in {"out", "conn"} => <<x, y>> \in want' \/ x = y
      BY <3>1, <3>2, Zenon
    <3>5. orderly' => Handshake'
      BY <1>4, <2>2, <3>1, <3>2 DEF Handshake, Answers
    <3> QED  BY <2>2, <3>1, <3>2, <3>3, <3>4, <3>5 DEF Pairs
  <2> QED  BY <2>1, <2>2, Zenon
<1>5. ASSUME NEW a \in People, NEW b \in People, a # b, Unblock(a, b)
      PROVE  Good
  BY <1>5, Zenon DEF Unblock, Pairs, Handshake, Answers
<1>6. ASSUME NEW a \in People, NEW b \in People, a # b, IngestRequest(a, b)
      PROVE  Good
  <2>1. /\ <<"request", b, a>> \in mail
        /\ mail' = mail \ {<<"request", b, a>>}
        /\ row' = IF row[a][b] = "none" THEN [row EXCEPT ![a][b] = "in"] ELSE row
        /\ UNCHANGED <<blocked, want, orderly, resending>>
    BY <1>6, ZenonT(30) DEF IngestRequest
  <2>2. /\ row' \in [People -> [People -> {"none", "out", "in", "conn"}]]
        /\ row'[a][b] = IF row[a][b] = "none" THEN "in" ELSE row[a][b]
        /\ \A x, y \in People : <<x, y>> # <<a, b>> => row'[x][y] = row[x][y]
    BY <2>1, RowStep
  <2>3. ContactsTypeOK'
    BY <2>1, <2>2, Zenon
  <2>4. \A x, y \in People : row'[x][y] \in {"out", "conn"} => <<x, y>> \in want' \/ x = y
    BY <2>1, <2>2
  <2>5. orderly' => Handshake'
    BY <1>6, <2>1, <2>2 DEF Handshake, Answers
  <2> QED  BY <2>1, <2>2, <2>3, <2>4, <2>5 DEF Pairs
<1>7. ASSUME NEW a \in People, NEW b \in People, a # b, IngestAccepted(a, b)
      PROVE  Good
  <2>1. /\ <<"accepted", b, a>> \in mail
        /\ mail' = mail \ {<<"accepted", b, a>>}
        /\ row' = IF row[a][b] = "out" THEN [row EXCEPT ![a][b] = "conn"] ELSE row
        /\ UNCHANGED <<blocked, want, orderly, resending>>
    BY <1>7, ZenonT(30) DEF IngestAccepted
  <2>2. /\ row' \in [People -> [People -> {"none", "out", "in", "conn"}]]
        /\ row'[a][b] = IF row[a][b] = "out" THEN "conn" ELSE row[a][b]
        /\ \A x, y \in People : <<x, y>> # <<a, b>> => row'[x][y] = row[x][y]
    BY <2>1, RowStep
  <2>3. ContactsTypeOK'
    BY <2>1, <2>2, Zenon
  <2>4. \A x, y \in People : row'[x][y] \in {"out", "conn"} => <<x, y>> \in want' \/ x = y
    BY <2>1, <2>2
  <2>5. orderly' => Handshake'
    <3> SUFFICES ASSUME orderly', NEW x \in People, NEW y \in People, x # y
                 PROVE  Answers(x, y)'
      BY Zenon DEF Handshake
    <3>1. orderly /\ Answers(x, y) /\ Answers(y, x)
      BY <2>1, Zenon DEF Handshake
    <3>2. CASE x = a /\ y = b
      BY <3>1, <3>2, <1>7, <2>1, <2>2, Zenon DEF Answers
    <3>3. CASE x = b /\ y = a
      BY <3>1, <3>3, <1>7, <2>1, <2>2, Zenon DEF Answers
    <3>4. CASE <<x, y>> # <<a, b>> /\ <<x, y>> # <<b, a>>
      BY <3>1, <3>4, <1>7, <2>1, <2>2 DEF Answers
    <3> QED  BY <3>2, <3>3, <3>4, Zenon
  <2> QED  BY <2>1, <2>2, <2>3, <2>4, <2>5 DEF Pairs
<1>8. ASSUME NEW e \in mail, LoseMail(e)
      PROVE  Good
  BY <1>8, Zenon DEF LoseMail, Pairs
<1>9. ASSUME UNCHANGED contactVars
      PROVE  Good
  BY <1>9, Zenon DEF contactVars, Pairs, Handshake, Answers
<1> HIDE DEF Good
<1>10. \A p \in Pairs : p = <<p[1], p[2]>> /\ p[1] \in People /\ p[2] \in People /\ p[1] # p[2]
  BY DEF Pairs
<1>11. ASSUME NEW p \in Pairs,
              \/ Connect(p[1], p[2]) \/ Follow(p[1], p[2])
              \/ AcceptContact(p[1], p[2]) \/ Drop(p[1], p[2])
              \/ ResendDelete(p[1], p[2]) \/ ResendRequest(p[1], p[2])
              \/ Block(p[1], p[2]) \/ Unblock(p[1], p[2])
              \/ IngestRequest(p[1], p[2]) \/ IngestAccepted(p[1], p[2])
       PROVE  Good
  BY <1>1, <1>2, <1>3, <1>4, <1>5, <1>6, <1>7, <1>10, <1>11, Zenon
<1>12. Good
  <2>1. CASE ContactsNext
    BY <2>1, <1>8, <1>11, Zenon DEF ContactsNext, SocialApi
  <2> QED  BY <2>1, <1>9, Zenon
<1> QED  BY <1>12, Zenon DEF Good

\* The three facts about contacts follow from the invariant.
LEMMA ContactsConsequences == ContactsInv => LocalConsent /\ OrderlyIsMutual
<1> SUFFICES ASSUME ContactsInv
             PROVE  LocalConsent /\ OrderlyIsMutual
  BY Zenon
<1>1. \A p \in Pairs : p = <<p[1], p[2]>> /\ p[1] \in People /\ p[2] \in People /\ p[1] # p[2]
  BY DEF Pairs
<1>2. LocalConsent
  BY <1>1, Zenon DEF ContactsInv, LocalConsent
<1>3. OrderlyIsMutual
  BY <1>1, Zenon DEF ContactsInv, OrderlyIsMutual, Handshake, Answers
<1> QED  BY <1>2, <1>3, Zenon

\* Nobody is ever connected, in their own table, to a person whom they last
\* rejected, cancelled, disconnected or blocked, however late the envelopes
\* that message_ingest_loop reads.
THEOREM LocalConsentAlways == ContactsSpec => []LocalConsent
<1>1. ContactsInv /\ [ContactsNext]_contactVars => ContactsInv'
  BY ContactsStep, Zenon
<1> QED  BY ContactsInitInv, <1>1, ContactsConsequences, PTL DEF ContactsSpec

\* In an orderly history without losses, a handshake at rest is mutual,
\* crossing requests included.
THEOREM MutualAtRest == ContactsSpec => []OrderlyIsMutual
<1>1. ContactsInv /\ [ContactsNext]_contactVars => ContactsInv'
  BY ContactsStep, Zenon
<1> QED  BY ContactsInitInv, <1>1, ContactsConsequences, PTL DEF ContactsSpec

\* No step turns a connection into a request to be answered.
THEOREM NeverDowngraded == ContactsSpec => NotDowngraded
<1>1. ContactsInv /\ [ContactsNext]_contactVars => ContactsInv'
  BY ContactsStep, Zenon
<1>2. ContactsInv /\ [ContactsNext]_contactVars =>
        [\A p \in Pairs : row[p[1]][p[2]] = "conn" => row'[p[1]][p[2]] # "in"]_contactVars
  BY ContactsStep, Zenon
<1> QED  BY ContactsInitInv, <1>1, <1>2, PTL DEF ContactsSpec, NotDowngraded

-----------------------------------------------------------------------------
(* Groups. *)

\* A call that is alone between its check and its store finds the group, its
\* caller and the role of its caller as the check found them. No call in
\* flight hands out the ownership as a role.
Alone ==
    ~overlap =>
       /\ ~ghost
       /\ \A c, d \in calls : c = d
       /\ \A c \in calls : /\ visibility # "none"
                           /\ c.op = "transfer" => role[c.by] = "owner"

GroupsInv ==
    /\ GroupsTypeOK
    /\ \A c \in calls : c.op = "role" => c.to # "owner"
    /\ Alone
    /\ BannedStayOut
    /\ NothingLeftBehind
    /\ OneOwner

\* Without groups the invariant holds.
LEMMA GroupsInitInv == GroupsInit => GroupsInv
  BY Zenon DEF GroupsInit, GroupsInv, GroupsTypeOK, Alone, BannedStayOut,
         NothingLeftBehind, OneOwner, Owners, IsMember

\* Authorize changes no table.
LEMMA AuthorizeKeeps ==
  ASSUME GroupsInv, NEW c \in Calls, Authorize(c)
  PROVE  GroupsInv'
<1>1. /\ calls' = calls \cup {c}
      /\ overlap' = (overlap \/ calls # {})
      /\ UNCHANGED <<visibility, handle, role, banned, posts, removed, linked, ghost>>
      /\ IsMember(c.by)
  BY Zenon DEF Authorize, groupRow, content
<1>2. c.by \in Users /\ c.to \in Roles
  BY Zenon DEF Calls, Call
<1>3. c.op = "role" => c.to # "owner"
  <2> SUFFICES ASSUME c.op = "role", c.to = "owner"
               PROVE  FALSE
    BY Zenon
  <2>1. Rank[role[c.by]] < Rank["owner"]
    BY Zenon DEF Authorize, MaySetRole, CanSetRole
  <2>2. role[c.by] \in Roles
    BY <1>1, <1>2, Zenon DEF GroupsInv, GroupsTypeOK, IsMember
  <2>3. Rank["owner"] = 0 /\ Rank[role[c.by]] \in 0 .. 3
    BY <2>2 DEF Rank, Roles
  <2> QED  BY <2>1, <2>3
<1>4. c.op = "transfer" => role[c.by] = "owner"
  BY Zenon DEF Authorize, MayTransfer, CanDeleteGroup
<1>5. GroupsTypeOK'
  <2>1. overlap' \in BOOLEAN
    BY <1>1, Zenon
  <2> QED  BY <1>1, <2>1, Zenon DEF GroupsInv, GroupsTypeOK
<1>6. Alone'
  BY <1>1, <1>2, <1>4, Zenon DEF GroupsInv, GroupsTypeOK, Alone, NothingLeftBehind, IsMember
<1>7. BannedStayOut' /\ NothingLeftBehind'
  BY <1>1, Zenon DEF GroupsInv, BannedStayOut, NothingLeftBehind, IsMember
<1>8. OneOwner'
  BY <1>1, Zenon DEF GroupsInv, OneOwner, Owners
<1> QED  BY <1>1, <1>3, <1>5, <1>6, <1>7, <1>8, Zenon DEF GroupsInv

\* kick_member looks at the target: no table changes, and the call goes on or ends.
LEMMA CheckTargetKeeps ==
  ASSUME GroupsInv, NEW c \in calls, CheckTarget(c)
  PROVE  GroupsInv'
<1> DEFINE kick == [c EXCEPT !.op = "kick", !.to = "member"]
<1>1. /\ c.op = "kicking"
      /\ calls' = calls \ {c} \/ calls' = (calls \ {c}) \cup {kick}
      /\ UNCHANGED <<visibility, handle, role, banned, posts, removed, linked, overlap, ghost>>
  BY DEF CheckTarget, groupRow, content
<1>2. c \in Call
  BY Zenon DEF GroupsInv, GroupsTypeOK, Calls
<1>3. kick.op = "kick" /\ kick \in Calls
  BY <1>1, <1>2, Zenon DEF Calls, Call, Roles
<1> HIDE DEF kick
<1>4. GroupsTypeOK'
  BY <1>1, <1>3, Zenon DEF GroupsInv, GroupsTypeOK
<1>5. (\A d \in calls : d.op = "role" => d.to # "owner")'
  BY <1>1, <1>3, Zenon DEF GroupsInv
<1>6. Alone'
  BY <1>1, <1>3, Zenon DEF GroupsInv, Alone
<1>7. BannedStayOut' /\ NothingLeftBehind'
  BY <1>1, Zenon DEF GroupsInv, BannedStayOut, NothingLeftBehind, IsMember
<1>8. OneOwner'
  BY <1>1, Zenon DEF GroupsInv, OneOwner, Owners
<1> QED  BY <1>4, <1>5, <1>6, <1>7, <1>8, Zenon DEF GroupsInv

\* The calls that check and change under one lock.
LEMMA DirectKeeps ==
  ASSUME GroupsInv,
         \/ \E u \in Users, v \in Visibilities : CreateGroup(u, v)
         \/ \E u \in Users : JoinGroup(u) \/ LeaveGroup(u)
         \/ CreateLinkedChat
  PROVE  GroupsInv'
<1> USE DEF GroupsInv, Meanwhile, groupRow, content
<1>1. overlap' = (overlap \/ calls # {}) /\ UNCHANGED <<calls, ghost>>
  BY Zenon DEF CreateGroup, JoinGroup, LeaveGroup, CreateLinkedChat
<1>2. overlap' \in BOOLEAN
  BY <1>1, Zenon
<1>3. (\A c \in calls : c.op = "role" => c.to # "owner")'
  BY <1>1, Zenon
<1>4. Alone'
  BY <1>1, Zenon DEF Alone, GroupsTypeOK
<1>5. ~overlap' => ~overlap /\ ~ghost
  BY <1>1, Zenon DEF Alone
<1>6. ASSUME NEW u \in Users, NEW v \in Visibilities, CreateGroup(u, v)
      PROVE  GroupsInv'
  <2>1. GroupsTypeOK'
    BY <1>1, <1>2, <1>6, Zenon DEF GroupsTypeOK, CreateGroup, Roles
  <2>2. BannedStayOut' /\ NothingLeftBehind'
    BY <1>1, <1>6 DEF GroupsTypeOK, CreateGroup, BannedStayOut, NothingLeftBehind,
                      IsMember, Visibilities
  <2>3. OneOwner'
    BY <1>1, <1>5, <1>6, Zenon DEF GroupsTypeOK, CreateGroup, OneOwner, Owners,
                            NothingLeftBehind, IsMember
  <2> QED  BY <1>3, <1>4, <2>1, <2>2, <2>3, Zenon
<1>7. ASSUME NEW u \in Users, JoinGroup(u)
      PROVE  GroupsInv'
  <2>1. GroupsTypeOK'
    BY <1>1, <1>2, <1>7, Zenon DEF GroupsTypeOK, JoinGroup, Roles
  <2>2. BannedStayOut' /\ NothingLeftBehind'
    BY <1>1, <1>7 DEF GroupsTypeOK, JoinGroup, BannedStayOut, NothingLeftBehind, IsMember
  <2>3. OneOwner'
    BY <1>1, <1>5, <1>7, Zenon DEF GroupsTypeOK, JoinGroup, OneOwner, Owners
  <2> QED  BY <1>3, <1>4, <2>1, <2>2, <2>3, Zenon
<1>8. ASSUME NEW u \in Users, LeaveGroup(u)
      PROVE  GroupsInv'
  <2>1. GroupsTypeOK'
    BY <1>1, <1>2, <1>8, Zenon DEF GroupsTypeOK, LeaveGroup
  <2>2. BannedStayOut' /\ NothingLeftBehind'
    BY <1>1, <1>8 DEF GroupsTypeOK, LeaveGroup, BannedStayOut, NothingLeftBehind, IsMember
  <2>3. OneOwner'
    BY <1>1, <1>5, <1>8, Zenon DEF GroupsTypeOK, LeaveGroup, OneOwner, Owners
  <2> QED  BY <1>3, <1>4, <2>1, <2>2, <2>3, Zenon
<1>9. ASSUME CreateLinkedChat
      PROVE  GroupsInv'
  <2>1. GroupsTypeOK'
    BY <1>1, <1>2, <1>9, Zenon DEF GroupsTypeOK, CreateLinkedChat
  <2>2. BannedStayOut' /\ NothingLeftBehind'
    BY <1>1, <1>9 DEF CreateLinkedChat, BannedStayOut, NothingLeftBehind, IsMember
  <2>3. OneOwner'
    BY <1>1, <1>5, <1>9, Zenon DEF CreateLinkedChat, OneOwner, Owners
  <2> QED  BY <1>3, <1>4, <2>1, <2>2, <2>3, Zenon
<1> QED  BY <1>6, <1>7, <1>8, <1>9, Zenon

\* The second half of a call. Its bookkeeping is the same for all.
LEMMA ExecuteKeeps ==
  ASSUME GroupsInv, NEW c \in calls, Execute(c)
  PROVE  GroupsInv'
<1> USE DEF GroupsInv, groupRow, content
<1>1. /\ calls' = calls \ {c}
      /\ ghost' = (ghost \/ visibility = "none")
      /\ overlap' = overlap
  BY Zenon DEF Execute
<1>2. c \in Call /\ c.by \in Users /\ c.target \in Users /\ c.to \in Roles
  BY Zenon DEF GroupsTypeOK, Calls, Call
<1>3. ghost' \in BOOLEAN /\ overlap' \in BOOLEAN /\ calls' \subseteq Calls
  BY <1>1, Zenon DEF GroupsTypeOK
<1>4. (\A d \in calls : d.op = "role" => d.to # "owner")'
  BY <1>1, Zenon
<1>5. ~overlap' => ~overlap /\ ~ghost /\ visibility # "none" /\ calls' = {}
  BY <1>1, Zenon DEF Alone
<1>6. Alone'
  BY <1>1, <1>5, Zenon DEF Alone
<1>7. ~ghost' => ~ghost /\ visibility # "none"
  BY <1>1, Zenon
<1>8. CASE c.op = "handle"
  <2>1. RegisterGroupHandle(c)
    BY <1>8, Zenon DEF Execute
  <2>2. GroupsTypeOK'
    BY <1>3, <2>1, Zenon DEF RegisterGroupHandle, GroupsTypeOK
  <2>3. BannedStayOut' /\ NothingLeftBehind'
    BY <1>7, <2>1, Zenon DEF RegisterGroupHandle, BannedStayOut, NothingLeftBehind, IsMember
  <2>4. OneOwner'
    BY <1>5, <2>1, Zenon DEF RegisterGroupHandle, OneOwner, Owners
  <2> QED  BY <1>4, <1>6, <2>2, <2>3, <2>4, Zenon
<1>9. CASE c.op = "invite"
  <2>1. InviteToGroup(c)
    BY <1>9, Zenon DEF Execute
  <2>2. GroupsTypeOK'
    BY <1>2, <1>3, <2>1, Zenon DEF InviteToGroup, GroupsTypeOK, Roles
  <2>3. BannedStayOut' /\ NothingLeftBehind'
    BY <1>2, <1>7, <2>1, Zenon DEF InviteToGroup, GroupsTypeOK, BannedStayOut, NothingLeftBehind, IsMember
  <2>4. OneOwner'
    BY <1>2, <1>5, <2>1, Zenon DEF InviteToGroup, GroupsTypeOK, OneOwner, Owners
  <2> QED  BY <1>4, <1>6, <2>2, <2>3, <2>4, Zenon
<1>10. CASE c.op = "role"
  <2>1. SetGroupRole(c) /\ c.to # "owner" /\ c.to # "none"
    BY <1>2, <1>10, Zenon DEF Execute, Roles
  <2>2. GroupsTypeOK'
    BY <1>2, <1>3, <2>1, Zenon DEF SetGroupRole, GroupsTypeOK, Roles
  <2>3. BannedStayOut' /\ NothingLeftBehind'
    BY <1>2, <1>7, <2>1, Zenon DEF SetGroupRole, GroupsTypeOK, BannedStayOut, NothingLeftBehind, IsMember
  <2>4. OneOwner'
    BY <1>2, <1>5, <2>1, Zenon DEF SetGroupRole, GroupsTypeOK, OneOwner, Owners
  <2> QED  BY <1>4, <1>6, <2>2, <2>3, <2>4, Zenon
<1>11. CASE c.op \in {"kick", "ban"}
  <2>1. /\ role' = [role EXCEPT ![c.target] = "none"]
        /\ banned' = banned \/ banned' = banned \cup {c.target}
        /\ UNCHANGED <<visibility, handle, posts, removed, linked>>
    BY <1>11, Zenon DEF Execute, KickMember, BanMember
  <2>2. GroupsTypeOK'
    BY <1>2, <1>3, <2>1, Zenon DEF GroupsTypeOK
  <2>3. BannedStayOut' /\ NothingLeftBehind'
    BY <1>2, <1>7, <2>1, Zenon DEF GroupsTypeOK, BannedStayOut, NothingLeftBehind, IsMember
  <2>4. OneOwner'
    BY <1>2, <1>5, <2>1, Zenon DEF GroupsTypeOK, OneOwner, Owners
  <2> QED  BY <1>4, <1>6, <2>2, <2>3, <2>4, Zenon
<1>12. CASE c.op \in {"post", "unpost"}
  <2>1. PostToGroup(c) \/ DeleteGroupPost(c)
    BY <1>12, Zenon DEF Execute
  <2>2. GroupsTypeOK'
    BY <1>2, <1>3, <2>1 DEF PostToGroup, DeleteGroupPost, GroupsTypeOK, HashForms, ToWire
  <2>3. BannedStayOut' /\ NothingLeftBehind'
    BY <1>7, <2>1, Zenon DEF PostToGroup, DeleteGroupPost, BannedStayOut, NothingLeftBehind, IsMember
  <2>4. OneOwner'
    BY <1>5, <2>1, Zenon DEF PostToGroup, DeleteGroupPost, OneOwner, Owners
  <2> QED  BY <1>4, <1>6, <2>2, <2>3, <2>4, Zenon
<1>13. CASE c.op = "transfer"
  <2>1. TransferOwnership(c)
    BY <1>13, Zenon DEF Execute
  <2>2. /\ role' \in [Users -> Roles \cup {"none"}]
        /\ \A u \in Users : role'[u] # "none" <=> role[u] # "none"
    BY <1>2, <2>1, Zenon DEF TransferOwnership, GroupsTypeOK, IsMember, Roles
  <2>3. GroupsTypeOK'
    BY <1>3, <2>1, <2>2, Zenon DEF TransferOwnership, GroupsTypeOK
  <2>4. BannedStayOut' /\ NothingLeftBehind'
    BY <1>7, <2>1, <2>2, Zenon DEF TransferOwnership, GroupsTypeOK, BannedStayOut,
                            NothingLeftBehind, IsMember
  <2>5. OneOwner'
    <3> SUFFICES ASSUME ~overlap'
                 PROVE  \A u, v \in Owners' : u = v
      BY Zenon DEF OneOwner
    <3>1. role[c.by] = "owner" /\ \A u \in Users : role[u] = "owner" => u = c.by
      BY <1>1, <1>2, <1>13, Zenon DEF Alone, OneOwner, Owners
    <3> QED  BY <1>2, <2>1, <3>1, Zenon DEF TransferOwnership, GroupsTypeOK, Owners, IsMember
  <2> QED  BY <1>4, <1>6, <2>3, <2>4, <2>5, Zenon
<1>14. CASE c.op = "delete"
  <2>1. DeleteGroup(c)
    BY <1>14, Zenon DEF Execute
  <2>2. GroupsTypeOK'
    BY <1>3, <2>1, Zenon DEF DeleteGroup, GroupsTypeOK
  <2>3. BannedStayOut' /\ NothingLeftBehind' /\ OneOwner'
    BY <2>1, Zenon DEF DeleteGroup, BannedStayOut, NothingLeftBehind, OneOwner, Owners, IsMember
  <2> QED  BY <1>4, <1>6, <2>2, <2>3, Zenon
<1>15. c.op # "kicking"
  BY Zenon DEF Execute
<1> QED  BY <1>2, <1>8, <1>9, <1>10, <1>11, <1>12, <1>13, <1>14, <1>15, Zenon DEF Call

\* Every step of the group service keeps the invariant.
LEMMA GroupsStep == GroupsInv /\ [GroupsNext]_groupVars => GroupsInv'
<1>1. GroupsInv /\ UNCHANGED groupVars => GroupsInv'
  BY DEF GroupsInv, groupVars, GroupsTypeOK, Alone, BannedStayOut, NothingLeftBehind,
         OneOwner, Owners, IsMember
<1>2. GroupsInv /\ GroupsNext => GroupsInv'
  BY AuthorizeKeeps, CheckTargetKeeps, ExecuteKeeps, DirectKeeps, Zenon DEF GroupsNext, GroupsApi
<1> QED  BY <1>1, <1>2, Zenon

\* Nobody is a member and banned, unless a ban was stored after the group was
\* deleted, for any number of users and of calls between their check and
\* their store.
THEOREM BansHold == GroupsSpec => []BannedStayOut
<1>1. GroupsInv => BannedStayOut
  BY Zenon DEF GroupsInv
<1> QED  BY GroupsInitInv, GroupsStep, <1>1, PTL DEF GroupsSpec

\* transfer_ownership, create_group and set_group_role never make a second
\* owner, unless calls overlap.
THEOREM SingleOwner == GroupsSpec => []OneOwner
<1>1. GroupsInv => OneOwner
  BY Zenon DEF GroupsInv
<1> QED  BY GroupsInitInv, GroupsStep, <1>1, PTL DEF GroupsSpec

\* delete_group leaves nothing of the group, unless a call was carried out
\* after the deletion.
THEOREM DeletionComplete == GroupsSpec => []NothingLeftBehind
<1>1. GroupsInv => NothingLeftBehind
  BY Zenon DEF GroupsInv
<1> QED  BY GroupsInitInv, GroupsStep, <1>1, PTL DEF GroupsSpec

-----------------------------------------------------------------------------
(* Spaces. *)

PageRows == [post : Notes, created : Nat]

Readers ==
    [place : Places \cup {NoCursor}, limit : Nat, cursor : Nat \cup {NoCursor},
     shown : SUBSET PageRows, state : {"closed", "open", "done"},
     since : SUBSET PageRows, ever : SUBSET PageRows]

TablesOK ==
    /\ moment \in Nat
    /\ noteRows \subseteq [post : Notes, tomb : BOOLEAN] /\ IsFiniteSet(noteRows)
    /\ placed \subseteq [place : Places, post : Notes, created : Nat] /\ IsFiniteSet(placed)

Shares(r, rows) == \E w \in rows \ {r} : w.created = r.created

\* Every row that the reader must see is shown, shares its second with another, or
\* is still to come: in the pages after the cursor.
ReadSoFar(x) ==
    \A r \in x.since :
       \/ r \in x.shown \/ Shares(r, x.ever)
       \/ x.state = "open" /\ (x.cursor = NoCursor \/ r.created < x.cursor)

ReaderOK(x, rows) ==
    /\ x \in Readers
    /\ x.state # "closed" =>
          /\ x.place \in Places
          /\ x.since \subseteq rows /\ rows \subseteq x.ever
          /\ x.limit \in 1 .. PageCap => ReadSoFar(x)

ReadInv == TablesOK /\ ReaderOK(reader, Visible(reader.place))

\* A set of numbers that is not empty has a least one.
LEMMA LeastSecond ==
    ASSUME NEW T \in SUBSET Nat, T # {}
    PROVE  \E x \in T : \A y \in T : x <= y
<1> DEFINE R == {p \in Nat \X Nat : p[1] < p[2]}
<1>1. IsWellFoundedOn(R, Nat)
  BY NatLessThanWellFounded, Zenon DEF OpToRel
<1>2. \E x \in T : \A y \in T : ~(<<y, x>> \in R)
  BY <1>1, WFMin, Zenon
<1>3. PICK x \in T : \A y \in T : ~(<<y, x>> \in R)
  BY <1>2, Zenon
<1>4. \A y \in T : x <= y
  <2> TAKE y \in T
  <2>1. x \in Nat /\ y \in Nat /\ ~(<<y, x>> \in R)
    BY <1>3, Zenon
  <2>2. ~(y < x)
    BY <2>1, Zenon
  <2> QED
    BY <2>1, <2>2
<1> QED
  BY <1>4, Zenon

\* items.last() of a page in descending order is of its oldest second.
LEMMA LastIsOldest ==
    ASSUME NEW items \in SUBSET PageRows, items # {}
    PROVE  /\ LastSecond(items) \in {r.created : r \in items} /\ LastSecond(items) \in Nat
           /\ \A r \in items : LastSecond(items) <= r.created
<1> DEFINE T == {r.created : r \in items}
<1>1. T \in SUBSET Nat /\ T # {}
  BY Zenon DEF PageRows
<1>2. PICK k \in T : \A y \in T : k <= y
  BY <1>1, LeastSecond, Zenon
<1>3. \E j \in T : \A r \in items : j <= r.created
  BY <1>2, Zenon
<1>4. LastSecond(items) \in T /\ \A r \in items : LastSecond(items) <= r.created
  BY <1>3, Zenon DEF LastSecond
<1> QED
  BY <1>1, <1>4, Zenon

\* The rows of a place are finitely many and well formed.
LEMMA RowsFinite ==
    ASSUME NEW rows, NEW links, NEW pl \in Places,
           rows \subseteq [post : Notes, tomb : BOOLEAN], IsFiniteSet(rows),
           links \subseteq [place : Places, post : Notes, created : Nat], IsFiniteSet(links)
    PROVE  RowsOf(pl, rows, links) \subseteq PageRows /\ IsFiniteSet(RowsOf(pl, rows, links))
<1>1. RowsOf(pl, rows, links) \subseteq PageRows
  BY SpacesAssumption DEF RowsOf, TopicRows, GroupRows, ProfileRows, LiveNotes, Row, PageRows
<1>2. IsFiniteSet(TopicRows(pl, rows, links))
  <2> DEFINE L == {k \in links : k.place = pl /\ k.post \in LiveNotes(rows)}
             f == [l \in L |-> Row(l.post, l.created)]
  <2>1. IsFiniteSet(L)
    BY FS_Subset, Zenon
  <2>2. f \in Surjection(L, TopicRows(pl, rows, links))
    BY Zenon DEF Surjection, TopicRows
  <2> HIDE DEF L, f
  <2> QED
    BY <2>1, <2>2, FS_Surjection, Zenon
<1>3. IsFiniteSet(GroupRows(pl, links))
  <2> DEFINE L == {k \in links : k.place = pl}
             f == [l \in L |-> Row(l.post, l.created)]
  <2>1. IsFiniteSet(L)
    BY FS_Subset, Zenon
  <2>2. f \in Surjection(L, GroupRows(pl, links))
    BY Zenon DEF Surjection, GroupRows
  <2> HIDE DEF L, f
  <2> QED
    BY <2>1, <2>2, FS_Surjection, Zenon
<1>4. IsFiniteSet(ProfileRows(pl, rows))
  <2> DEFINE L == {k \in rows : ~k.tomb /\ WrittenBy[k.post] = pl}
             f == [l \in L |-> Row(l.post, StampedAt[l.post])]
  <2>1. IsFiniteSet(L)
    BY FS_Subset, Zenon
  <2>2. f \in Surjection(L, ProfileRows(pl, rows))
    BY Zenon DEF Surjection, ProfileRows, LiveNotes
  <2> HIDE DEF L, f
  <2> QED
    BY <2>1, <2>2, FS_Surjection, Zenon
<1> QED
  BY <1>1, <1>2, <1>3, <1>4, Zenon DEF RowsOf

\* A page with a next_cursor: what is left out of it is older than the cursor, or of
\* its second.
LEMMA PageWithCursor ==
    ASSUME NEW rows \in SUBSET PageRows, IsFiniteSet(rows), NEW limit \in 1 .. PageCap,
           NEW fetched \in Newest(rows, limit + 1), Cardinality(fetched) > limit,
           NEW items \in Newest(fetched, limit)
    PROVE  /\ items # {} /\ items \subseteq rows
           /\ LastSecond(items) \in Nat
           /\ \A r \in rows \ items :
                 r.created < LastSecond(items) \/ \E w \in items : w.created = r.created
<1>1. fetched \subseteq rows /\ items \subseteq fetched
  BY Zenon DEF Newest
<1>2. IsFiniteSet(fetched) /\ IsFiniteSet(items) /\ Cardinality(fetched) \in Nat /\ limit \in Nat
  BY <1>1, FS_Subset, FS_CardinalityType, SpacesAssumption
<1>3. items # {}
  <2>1. Cardinality(items) <= limit /\ (items = fetched \/ Cardinality(items) = limit)
    BY Zenon DEF Newest
  <2>2. Cardinality(items) = limit
    BY <1>2, <2>1
  <2> QED
    BY <1>2, <2>2, FS_EmptySet
<1>4. /\ LastSecond(items) \in {r.created : r \in items} /\ LastSecond(items) \in Nat
      /\ \A r \in items : LastSecond(items) <= r.created
  BY <1>1, <1>3, LastIsOldest, Zenon
<1>7. PICK w \in items : w.created = LastSecond(items)
  BY <1>4, Zenon
<1>8. ASSUME NEW r \in rows \ items
      PROVE  r.created <= w.created
  <2>1. CASE r \in fetched
    BY <2>1, <1>7, Zenon DEF Newest
  <2>2. CASE r \notin fetched
    BY <2>2, <1>1, <1>7, Zenon DEF Newest
  <2> QED
    BY <2>1, <2>2, Zenon
<1>9. \A r \in rows : r.created \in Nat
  BY Zenon DEF PageRows
<1> QED
  BY <1>1, <1>3, <1>4, <1>7, <1>8, <1>9

\* A page without next_cursor shows all there is.
LEMMA LastPage ==
    ASSUME NEW rows \in SUBSET PageRows, IsFiniteSet(rows), NEW limit \in 1 .. PageCap,
           NEW fetched \in Newest(rows, limit + 1), ~(Cardinality(fetched) > limit)
    PROVE  fetched = rows
<1>1. fetched = rows \/ Cardinality(fetched) = limit + 1
  BY Zenon DEF Newest
<1> QED
  BY <1>1, SpacesAssumption

\* A reader keeps what it knows when rows come and go.
LEMMA NotedKeeps ==
    ASSUME ReadInv, TablesOK', Noted
    PROVE  ReadInv'
<1>1. CASE reader.state = "closed"
  <2>1. reader' = reader
    BY <1>1, Zenon DEF Noted
  <2> QED
    BY <1>1, <2>1, Zenon DEF ReadInv, ReaderOK
<1>2. CASE reader.state # "closed"
  <2> DEFINE now == RowsOf(reader.place, noteRows', placed')
  <2>1. reader' = [reader EXCEPT !.since = @ \cap now, !.ever = @ \cup now]
    BY <1>2, Zenon DEF Noted
  <2>2. /\ reader'.place = reader.place /\ reader'.limit = reader.limit
        /\ reader'.cursor = reader.cursor /\ reader'.shown = reader.shown
        /\ reader'.state = reader.state
        /\ reader'.since = reader.since \cap now /\ reader'.ever = reader.ever \cup now
    BY <2>1, Zenon DEF ReadInv, ReaderOK, Readers
  <2>3. now = Visible(reader.place)'
    BY <2>2, Zenon DEF Visible
  <2>4. now \subseteq PageRows
    BY <1>2, RowsFinite, Zenon DEF TablesOK, ReadInv, ReaderOK
  <2>5. reader' \in Readers
    BY <2>1, <2>4, Zenon DEF ReadInv, ReaderOK, Readers
  <2>6. ASSUME ReadSoFar(reader) PROVE ReadSoFar(reader')
    BY <2>2, <2>6, Zenon DEF ReadSoFar, Shares
  <2> HIDE DEF now
  <2> QED
    BY <1>2, <2>2, <2>3, <2>5, <2>6, Zenon DEF ReadInv, ReaderOK
<1> QED
  BY <1>1, <1>2, Zenon

\* The next page keeps what the reader knows: a row is on the page, comes after the
\* cursor, or shares its second with the last row.
LEMMA ReadPageKeeps ==
    ASSUME ReadInv, ReadPage
    PROVE  ReadInv'
<1> DEFINE seen == Visible(reader.place)
           rows == Older(seen, reader.cursor)
<1>1. /\ reader \in Readers /\ reader.place \in Places /\ reader.since \subseteq seen /\ seen \subseteq reader.ever
      /\ reader.limit \in 1 .. PageCap => ReadSoFar(reader)
      /\ reader.state = "open"
  BY Zenon DEF ReadInv, ReaderOK, ReadPage
<1>2. seen \subseteq PageRows /\ IsFiniteSet(seen)
  BY <1>1, RowsFinite, Zenon DEF ReadInv, TablesOK, Visible
<1>3. rows \subseteq seen /\ rows \in SUBSET PageRows /\ IsFiniteSet(rows)
  BY <1>2, FS_Subset, Zenon DEF Older
<1>4. PICK fetched \in Newest(rows, FetchLimit(reader.limit)) :
        \E page \in Pages(fetched, reader.limit) :
           reader' = [reader EXCEPT !.shown = @ \cup page.items, !.cursor = page.next_cursor,
                        !.state = IF page.next_cursor = NoCursor THEN "done" ELSE "open"]
  BY Zenon DEF ReadPage
<1>5. PICK page \in Pages(fetched, reader.limit) :
         reader' = [reader EXCEPT !.shown = @ \cup page.items, !.cursor = page.next_cursor,
                      !.state = IF page.next_cursor = NoCursor THEN "done" ELSE "open"]
  BY <1>4, Zenon
<1>6. /\ reader'.place = reader.place /\ reader'.limit = reader.limit
      /\ reader'.cursor = page.next_cursor /\ reader'.shown = reader.shown \cup page.items
      /\ reader'.state = (IF page.next_cursor = NoCursor THEN "done" ELSE "open")
      /\ reader'.since = reader.since /\ reader'.ever = reader.ever
  BY <1>1, <1>5, Zenon DEF Readers
<1>7. TablesOK' /\ Visible(reader.place)' = seen
  BY <1>6, Zenon DEF ReadPage, spaceTables, ReadInv, TablesOK, Visible
<1>8. ASSUME reader.limit \in 1 .. PageCap
      PROVE  /\ page.items \subseteq rows /\ page.next_cursor \in Nat \cup {NoCursor}
             /\ ReadSoFar(reader')
  <2>1. FetchLimit(reader.limit) = reader.limit + 1
    BY <1>8, SpacesAssumption, SMTT(30) DEF FetchLimit
  <2>2. CASE Cardinality(fetched) > reader.limit
    <3>1. PICK s \in Newest(fetched, reader.limit) :
             page = [items |-> s, next_cursor |-> IF s = {} THEN NoCursor ELSE LastSecond(s)]
      BY <2>2, Zenon DEF Pages
    <3>2. /\ s # {} /\ s \subseteq rows /\ LastSecond(s) \in Nat
          /\ \A r \in rows \ s :
                r.created < LastSecond(s) \/ \E w \in s : w.created = r.created
      BY <1>3, <1>8, <2>1, <2>2, <3>1, PageWithCursor, Zenon
    <3>3. page.items = s /\ page.next_cursor = LastSecond(s) /\ reader'.state = "open"
      BY <1>6, <3>1, <3>2, SpacesAssumption
    <3>4. ASSUME NEW r \in reader.since
          PROVE  \/ r \in reader'.shown \/ Shares(r, reader.ever)
                 \/ r.created < LastSecond(s)
      <4>1. CASE r \in rows
        BY <1>1, <1>3, <1>6, <3>2, <3>3, <4>1, Zenon DEF Shares
      <4>2. CASE r \notin rows
        BY <1>1, <1>6, <1>8, <4>2, Zenon DEF ReadSoFar, Older
      <4> QED
        BY <4>1, <4>2, Zenon
    <3> QED
      BY <1>6, <3>2, <3>3, <3>4, Zenon DEF ReadSoFar
  <2>3. CASE ~(Cardinality(fetched) > reader.limit)
    <3>1. page = [items |-> fetched, next_cursor |-> NoCursor] /\ fetched = rows
      BY <1>3, <1>8, <2>1, <2>3, LastPage, Zenon DEF Pages
    <3>2. ASSUME NEW r \in reader.since
          PROVE  r \in reader'.shown \/ Shares(r, reader.ever)
      <4>1. CASE r \in rows
        BY <1>6, <3>1, <4>1, Zenon
      <4>2. CASE r \notin rows
        BY <1>1, <1>6, <1>8, <4>2, Zenon DEF ReadSoFar, Older
      <4> QED
        BY <4>1, <4>2, Zenon
    <3> QED
      BY <1>6, <3>1, <3>2, Zenon DEF ReadSoFar
  <2> QED
    BY <2>2, <2>3, Zenon
<1>9. page.items \subseteq PageRows /\ page.next_cursor \in Nat \cup {NoCursor}
  <2>1. fetched \subseteq PageRows
    BY <1>3, Zenon DEF Newest
  <2>2. ASSUME NEW s \in Newest(fetched, reader.limit), s # {} PROVE LastSecond(s) \in Nat
    <3>1. s \in SUBSET PageRows
      BY <2>1, Zenon DEF Newest
    <3> QED
      BY <2>2, <3>1, LastIsOldest, Zenon
  <2> QED
    BY <2>1, <2>2 DEF Pages, Newest
<1>10. reader' \in Readers
  <2>1. /\ reader.shown \cup page.items \in SUBSET PageRows
        /\ (IF page.next_cursor = NoCursor THEN "done" ELSE "open") \in {"closed", "open", "done"}
    BY <1>1, <1>9, Zenon DEF Readers
  <2> QED
    BY <1>1, <1>5, <1>9, <2>1, Zenon DEF Readers
<1> HIDE DEF seen, rows
<1> QED
  BY <1>1, <1>6, <1>7, <1>8, <1>10, Zenon DEF ReadInv, ReaderOK

\* The tables stay well formed and finite.
LEMMA TablesKept ==
    ASSUME TablesOK, SpacesNext PROVE TablesOK'
<1>1. ASSUME NEW pl \in Places, NEW p \in Notes, Placing(pl, p) PROVE TablesOK'
  <2>1. IsFiniteSet(placed \cup {[place |-> pl, post |-> p, created |-> moment]})
    BY FS_AddElement, Zenon DEF TablesOK
  <2> QED
    BY <1>1, <2>1 DEF Placing, TablesOK
<1>2. ASSUME NEW t \in Rooms, NEW p \in Notes, PostToTopic(t, p) PROVE TablesOK'
  BY <1>1, <1>2, Zenon DEF PostToTopic, Places
<1>3. ASSUME NEW g \in Circles, NEW p \in Notes, PostToCircle(g, p) PROVE TablesOK'
  BY <1>1, <1>3, Zenon DEF PostToCircle, Places
<1>4. ASSUME NEW g \in Circles, DeleteCircle(g) PROVE TablesOK'
  BY <1>4, FS_Subset, Zenon DEF DeleteCircle, TablesOK
<1>5. ASSUME NEW p \in Notes, StoreNote(p) PROVE TablesOK'
  <2>1. IsFiniteSet(noteRows \cup {[post |-> p, tomb |-> FALSE]})
    BY FS_AddElement, Zenon DEF TablesOK
  <2>2. [post |-> p, tomb |-> FALSE] \in [post : Notes, tomb : BOOLEAN]
    BY Zenon
  <2>3. noteRows' = noteRows \cup {[post |-> p, tomb |-> FALSE]} /\ UNCHANGED <<moment, placed>>
    BY <1>5, Zenon DEF StoreNote
  <2> QED
    BY <2>1, <2>2, <2>3, Zenon DEF TablesOK
<1>6. ASSUME NEW n \in noteRows, HideNote(n) PROVE TablesOK'
  <2>1. IsFiniteSet((noteRows \ {n}) \cup {[n EXCEPT !.tomb = TRUE]})
    BY FS_AddElement, FS_RemoveElement, Zenon DEF TablesOK
  <2>2. [n EXCEPT !.tomb = TRUE] \in [post : Notes, tomb : BOOLEAN]
    BY Zenon DEF TablesOK
  <2> QED
    BY <1>6, <2>1, <2>2, Zenon DEF HideNote, TablesOK
<1>7. ASSUME NEW n \in noteRows, PurgeNote(n) PROVE TablesOK'
  BY <1>7, FS_RemoveElement, Zenon DEF PurgeNote, TablesOK
<1>8. ASSUME MomentPasses PROVE TablesOK'
  BY <1>8 DEF MomentPasses, TablesOK
<1>9. ASSUME UNCHANGED <<moment, noteRows, placed>> PROVE TablesOK'
  BY <1>9, Zenon DEF TablesOK
<1>10. ASSUME NEW u \in Fans, NEW t \in Rooms, CreateTopic(u, t) \/ JoinTopic(u, t) \/ LeaveTopic(u, t)
       PROVE  TablesOK'
  BY <1>9, <1>10, Zenon DEF CreateTopic, JoinTopic, LeaveTopic
<1>11. ASSUME ReactionsApi PROVE TablesOK'
  BY <1>9, <1>11, Zenon DEF ReactionsApi, React, Unreact
<1>12. ASSUME NEW p \in Notes, NEW u \in Fans, StoreMention(p, u) PROVE TablesOK'
  BY <1>9, <1>12, Zenon DEF StoreMention
<1>13. ASSUME ReadPage \/ \E pl \in Places : \E limit \in Limits : OpenPlace(pl, limit)
       PROVE  TablesOK'
  BY <1>9, <1>13, Zenon DEF ReadPage, OpenPlace, spaceTables
<1> QED
  BY <1>2, <1>3, <1>4, <1>5, <1>6, <1>7, <1>8, <1>10, <1>11, <1>12, <1>13, Zenon DEF SpacesNext, TopicsApi

\* Every step keeps what the reader knows.
LEMMA ReadStepInv == ReadInv /\ [SpacesNext]_spaceVars => ReadInv'
<1> SUFFICES ASSUME ReadInv, [SpacesNext]_spaceVars PROVE ReadInv'
  BY Zenon
<1>1. CASE UNCHANGED spaceVars
  BY <1>1, Zenon DEF spaceVars, spaceTables, ReadInv, TablesOK, Visible
<1>2. CASE SpacesNext
  <2>1. TablesOK'
    BY <1>2, TablesKept, Zenon DEF ReadInv
  <2>2. ASSUME Noted PROVE ReadInv'
    BY <2>1, <2>2, NotedKeeps, Zenon
  <2>3. ASSUME UNCHANGED <<noteRows, placed, reader>> PROVE ReadInv'
    BY <2>1, <2>3, Zenon DEF ReadInv, Visible
  <2>4. ASSUME NEW pl \in Places, NEW limit \in Limits, OpenPlace(pl, limit) PROVE ReadInv'
    <3>1. /\ reader'.place = pl /\ reader'.cursor = NoCursor /\ reader'.state = "open"
          /\ reader'.since = Visible(pl) /\ reader'.ever = Visible(pl)
          /\ Visible(pl)' = Visible(pl)
      BY <2>4, Zenon DEF OpenPlace, NoReader, spaceTables, Visible
    <3>2. Visible(pl) \subseteq PageRows
      BY RowsFinite, Zenon DEF ReadInv, TablesOK, Visible
    <3>3. reader' \in Readers
      BY <2>4, <3>2, SpacesAssumption, Zenon DEF OpenPlace, NoReader, Readers
    <3>4. ReadSoFar(reader')
      BY <3>1, Zenon DEF ReadSoFar
    <3> QED
      BY <2>1, <3>1, <3>3, <3>4, Zenon DEF ReadInv, ReaderOK
  <2>5. ASSUME ReadPage PROVE ReadInv'
    BY <2>5, ReadPageKeeps, Zenon
  <2>6. ASSUME TopicsApi PROVE ReadInv'
    BY <2>2, <2>3, <2>6, Zenon DEF TopicsApi, CreateTopic, JoinTopic, LeaveTopic, PostToTopic, Placing
  <2>7. ASSUME ReactionsApi PROVE ReadInv'
    BY <2>3, <2>7, Zenon DEF ReactionsApi, React, Unreact
  <2>8. ASSUME NEW g \in Circles, NEW p \in Notes, DeleteCircle(g) \/ PostToCircle(g, p) PROVE ReadInv'
    BY <2>2, <2>8, Zenon DEF DeleteCircle, PostToCircle, Placing
  <2>9. ASSUME NEW g \in Circles, DeleteCircle(g) PROVE ReadInv'
    BY <2>2, <2>9, Zenon DEF DeleteCircle
  <2>10. ASSUME NEW p \in Notes, NEW u \in Fans, StoreMention(p, u) PROVE ReadInv'
    BY <2>3, <2>10, Zenon DEF StoreMention
  <2>11. ASSUME NEW p \in Notes, StoreNote(p) PROVE ReadInv'
    BY <2>2, <2>11, Zenon DEF StoreNote
  <2>12. ASSUME NEW n \in noteRows, HideNote(n) \/ PurgeNote(n) PROVE ReadInv'
    BY <2>2, <2>12, Zenon DEF HideNote, PurgeNote
  <2>13. ASSUME MomentPasses PROVE ReadInv'
    BY <2>3, <2>13, Zenon DEF MomentPasses
  <2> QED
    BY <1>2, <2>4, <2>5, <2>6, <2>7, <2>8, <2>9, <2>10, <2>11, <2>12, <2>13, Zenon DEF SpacesNext
<1> QED
  BY <1>1, <1>2, Zenon

\* No rows and no reader: the invariant holds at the start.
LEMMA ReadInitInv == SpacesInit => ReadInv
<1> SUFFICES ASSUME SpacesInit PROVE ReadInv
  BY Zenon
<1>1. NoReader \in Readers /\ NoReader.state = "closed"
  BY Zenon DEF NoReader, Readers
<1> QED
  BY <1>1, FS_EmptySet, Zenon DEF SpacesInit, ReadInv, TablesOK, ReaderOK

\* For any posts, rooms, groups and users and any cap on the size of a page: a reader
\* of a topic, group or profile feed who has come to the last page has missed no
\* row that was there all the time, but for rows that share their second.
THEOREM PagesAlwaysComplete == SpacesSpec => []PagesComplete
<1>1. ReadInv => PagesComplete
  BY Zenon DEF ReadInv, ReaderOK, ReadSoFar, Shares, PagesComplete
<1> QED
  BY <1>1, ReadInitInv, ReadStepInv, PTL DEF SpacesSpec

\* The primary key (post_hash, reactor_pubkey).
OnePerUser == \A r, s \in reactions : r.post = s.post /\ r.by = s.by => r = s

\* One user never has two reactions to a post, whatever the order of reactions,
\* changes and removals, for any posts, users and emojis.
THEOREM NeverTwoReactions == SpacesSpec => []OneReaction
<1>1. SpacesInit => OnePerUser
  BY Zenon DEF SpacesInit, OnePerUser
<1>2. OnePerUser /\ [SpacesNext]_spaceVars => OnePerUser'
  <2> SUFFICES ASSUME OnePerUser, [SpacesNext]_spaceVars PROVE OnePerUser'
    BY Zenon
  <2>1. ASSUME UNCHANGED reactions PROVE OnePerUser'
    BY <2>1, Zenon DEF OnePerUser
  <2>2. ASSUME NEW u, NEW p, NEW e, React(u, p, e) PROVE OnePerUser'
    BY <2>2 DEF OnePerUser, React
  <2>3. ASSUME NEW u, NEW p, Unreact(u, p) PROVE OnePerUser'
    BY <2>3, Zenon DEF OnePerUser, Unreact
  <2>4. CASE ReactionsApi
    BY <2>2, <2>3, <2>4, Zenon DEF ReactionsApi
  <2>5. CASE TopicsApi
    BY <2>1, <2>5, Zenon DEF TopicsApi, CreateTopic, JoinTopic, LeaveTopic, PostToTopic, Placing
  <2> QED
    BY <2>1, <2>4, <2>5, Zenon DEF SpacesNext, spaceVars, spaceTables, PostToCircle, Placing, DeleteCircle,
       StoreMention, StoreNote, HideNote, PurgeNote, MomentPasses, OpenPlace, ReadPage
<1>3. OnePerUser => OneReaction
  BY Zenon DEF OnePerUser, OneReaction, GetReactions
<1> QED
  BY <1>1, <1>2, <1>3, PTL DEF SpacesSpec

\* Subscriptions and mentions never refer to a room or a post that is gone, for any
\* rooms, posts and users.
THEOREM ReferencesHold == SpacesSpec => []NoOrphans
<1> DEFINE Held == /\ \A s \in subscriptions : s[1] \in rooms
                   /\ \A m \in mentions : \E n \in noteRows : n.post = m[1]
                   /\ noteRows \subseteq [post : Notes, tomb : BOOLEAN]
<1>1. SpacesInit => Held
  BY Zenon DEF SpacesInit
<1>2. Held /\ [SpacesNext]_spaceVars => Held'
  <2> SUFFICES ASSUME Held, [SpacesNext]_spaceVars PROVE Held'
    BY Zenon
  <2>1. ASSUME UNCHANGED <<subscriptions, rooms, mentions, noteRows>> PROVE Held'
    BY <2>1, Zenon
  <2>2. ASSUME NEW u \in Fans, NEW t \in Rooms, CreateTopic(u, t) \/ JoinTopic(u, t) \/ LeaveTopic(u, t)
        PROVE  Held'
    BY <2>2 DEF CreateTopic, JoinTopic, LeaveTopic
  <2>3. ASSUME NEW p \in Notes, NEW u \in Fans, StoreMention(p, u) PROVE Held'
    BY <2>3 DEF StoreMention
  <2>4. ASSUME NEW p \in Notes, StoreNote(p) PROVE Held'
    <3>1. [post |-> p, tomb |-> FALSE] \in [post : Notes, tomb : BOOLEAN]
      BY Zenon
    <3>2. /\ noteRows' = noteRows \cup {[post |-> p, tomb |-> FALSE]}
          /\ UNCHANGED <<subscriptions, rooms, mentions>>
      BY <2>4, Zenon DEF StoreNote
    <3> QED
      BY <3>1, <3>2, Zenon
  <2>5. ASSUME NEW n \in noteRows, HideNote(n) PROVE Held'
    <3>1. /\ [n EXCEPT !.tomb = TRUE] \in [post : Notes, tomb : BOOLEAN]
          /\ [n EXCEPT !.tomb = TRUE].post = n.post
      BY Zenon
    <3> QED
      BY <2>5, <3>1, Zenon DEF HideNote
  <2>6. ASSUME NEW n \in noteRows, PurgeNote(n) PROVE Held'
    BY <2>6, Zenon DEF PurgeNote
  <2>7. CASE TopicsApi
    BY <2>1, <2>2, <2>7, Zenon DEF TopicsApi, PostToTopic, Placing
  <2> HIDE DEF Held
  <2> QED
    BY <2>1, <2>3, <2>4, <2>5, <2>6, <2>7, Zenon DEF SpacesNext, spaceVars, spaceTables, PostToCircle, Placing,
       DeleteCircle, ReactionsApi, React, Unreact, MomentPasses, OpenPlace, ReadPage
<1>3. Held => NoOrphans
  BY Zenon DEF NoOrphans, GetPostMentions, ListTopics
<1> QED
  BY <1>1, <1>2, <1>3, PTL DEF SpacesSpec
=============================================================================
