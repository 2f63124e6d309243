------------------------------- MODULE Groups -------------------------------
(***************************************************************************)
(* One group (its identifier is the hash of its name) in the tables of a   *)
(* node, and the chat linked to it. The callers are the identities of the  *)
(* node. A call that needs a role reads it first and lets go of the        *)
(* database, and only then changes the tables: Authorize and Execute. A    *)
(* kick reads the role of its target in between: CheckTarget. Join, leave  *)
(* and create check and change under one lock.                             *)
(***************************************************************************)
EXTENDS Integers, FiniteSets

CONSTANTS
    Users,      \* identities
    Handles,    \* group handles
    Taken,      \* handles that other groups have
    Posters,    \* bound: the users who post
    MaxCalls    \* calls in flight

VARIABLES
    visibility, \* "none" when there is no row in groups
    handle,     \* of the group
    role,       \* role[u], or "none" for a user who is not a member
    banned,
    posts,      \* <<form, author>>: the keys of the rows of group_posts
    removed,    \* history: posts that were deleted, and not posted again
    linked,     \* the linked chat: "none", or the set of its chat members
    calls,      \* calls that passed the check of the role
    overlap,    \* history: two calls were in flight together
    ghost       \* history: a call was carried out after the group was deleted

groupVars == <<visibility, handle, role, banned, posts, removed, linked, calls, overlap, ghost>>
groupRow == <<visibility, handle>>
content == <<posts, removed, linked>>

Visibilities == {"public", "private"} \* "secret" differs in listings only
Roles == {"owner", "admin", "moderator", "member"}
Rank == [r \in Roles |-> CASE r = "owner" -> 0 [] r = "admin" -> 1
                           [] r = "moderator" -> 2 [] OTHER -> 3]
NoHandle == "no_handle"
NoChat == {"no_chat"}

IsMember(u) == role[u] # "none"
Owners == {u \in Users : role[u] = "owner"}

GroupsInit ==
    /\ visibility = "none" /\ handle = NoHandle
    /\ role = [u \in Users |-> "none"]
    /\ banned = {} /\ posts = {} /\ removed = {} /\ linked = NoChat
    /\ calls = {} /\ overlap = FALSE /\ ghost = FALSE

-----------------------------------------------------------------------------
(* Roles: GroupRole in group.rs. *)

CanEditInfo(r) == r \in {"owner", "admin"}
CanBan(r) == r \in {"owner", "admin"}
CanKick(r) == r \in {"owner", "admin", "moderator"}
CanInvite(r) == r \in {"owner", "admin", "moderator"}
CanDeletePosts(r) == r \in {"owner", "admin", "moderator"}
CanDeleteGroup(r) == r = "owner"
CanSetRole(r, target) == Rank[r] < Rank[target]

-----------------------------------------------------------------------------
(* The checks that the services make before the call to the store. Kicking *)
(* is the only one that compares with the role of the target.              *)

MayRegisterHandle(c) == CanEditInfo(role[c.by])
MayInvite(c) == CanInvite(role[c.by])
MaySetRole(c) == CanSetRole(role[c.by], c.to)
MayKick(c) == CanKick(role[c.by]) /\ c.to = role[c.by]
MayBan(c) == CanBan(role[c.by])
MayPost(c) == TRUE
MayDeletePost(c) == CanDeletePosts(role[c.by])

MayTransfer(c) == CanDeleteGroup(role[c.by])
MayDelete(c) == CanDeleteGroup(role[c.by])

Call == [op : {"handle", "invite", "role", "kicking", "kick", "ban", "post", "unpost",
               "transfer", "delete"},
         by : Users, target : Users, to : Roles]

\* The calls that differ in what they do: the unused fields are fixed. A kick that
\* has not looked at its target has the role that its caller had.
Calls ==
    {c \in Call :
       /\ c.op \notin {"role", "kicking"} => c.to = "member"
       /\ c.op \in {"handle", "post", "delete"} => c.target = c.by
       /\ c.op \in {"post", "unpost"} => c.target \in Posters}

Authorize(c) ==
    /\ Cardinality(calls) < MaxCalls /\ c \notin calls
    /\ IsMember(c.by) /\ c.op # "kick"
    /\ CASE c.op = "handle" -> MayRegisterHandle(c)
         [] c.op = "invite" -> MayInvite(c)
         [] c.op = "role" -> MaySetRole(c)
         [] c.op = "kicking" -> MayKick(c)
         [] c.op = "ban" -> MayBan(c)
         [] c.op = "post" -> MayPost(c)
         [] c.op = "unpost" -> MayDeletePost(c)
         [] c.op = "transfer" -> MayTransfer(c)
         [] c.op = "delete" -> MayDelete(c)
    /\ calls' = calls \cup {c}
    /\ overlap' = (overlap \/ calls # {})
    /\ UNCHANGED <<groupRow, role, banned, content, ghost>>

\* kick_member, between the role of its caller and the store.
CheckTarget(c) ==
    LET target == IF IsMember(c.target) THEN role[c.target] ELSE "member"
        kick == [c EXCEPT !.op = "kick", !.to = "member"]
    IN
    /\ c \in calls /\ c.op = "kicking" /\ kick \notin calls
    /\ calls' = (calls \ {c}) \cup {k \in {kick} : Rank[target] > Rank[c.to]}
    /\ UNCHANGED <<groupRow, role, banned, content, overlap, ghost>>

-----------------------------------------------------------------------------
(* The store: store/group.rs. *)

\* A call that is made while another one is between its check and its store.
Meanwhile ==
    /\ overlap' = (overlap \/ calls # {})
    /\ UNCHANGED <<calls, ghost>>

CreateGroup(u, v) ==
    /\ visibility = "none"
    /\ visibility' = v
    \* a row left by an earlier group makes the second INSERT fail
    /\ role' = IF IsMember(u) THEN role ELSE [role EXCEPT ![u] = "owner"]
    /\ Meanwhile
    /\ UNCHANGED <<handle, banned, content>>

\* Mutant: the ban is not looked up.
JoinGroupUnchecked(u) ==
    /\ visibility = "public"
    /\ role' = IF IsMember(u) THEN role ELSE [role EXCEPT ![u] = "member"]
    /\ Meanwhile
    /\ UNCHANGED <<groupRow, banned, content>>

JoinGroup(u) ==
    /\ visibility = "public"
    /\ u \notin banned
    /\ role' = IF IsMember(u) THEN role ELSE [role EXCEPT ![u] = "member"]
    /\ Meanwhile
    /\ UNCHANGED <<groupRow, banned, content>>

LeaveGroup(u) ==
    /\ role[u] # "owner"
    /\ role' = [role EXCEPT ![u] = "none"]
    /\ Meanwhile
    /\ UNCHANGED <<groupRow, banned, content>>

\* The linked chat is made without members.
CreateLinkedChat ==
    /\ visibility # "none"
    /\ linked' = IF linked = NoChat THEN {} ELSE linked
    /\ Meanwhile
    /\ UNCHANGED <<groupRow, role, banned, posts, removed>>

RegisterGroupHandle(c) ==
    /\ \E h \in Handles :
          handle' = IF visibility = "none" \/ h \in Taken THEN handle ELSE h
    /\ UNCHANGED <<visibility, role, banned, content>>

InviteToGroup(c) ==
    /\ role' = IF c.target \in banned \/ IsMember(c.target) THEN role
               ELSE [role EXCEPT ![c.target] = "member"]
    /\ UNCHANGED <<groupRow, banned, content>>

SetGroupRole(c) ==
    /\ role' = IF IsMember(c.target) THEN [role EXCEPT ![c.target] = c.to] ELSE role
    /\ UNCHANGED <<groupRow, banned, content>>

KickMember(c) ==
    /\ role' = [role EXCEPT ![c.target] = "none"]
    /\ UNCHANGED <<groupRow, banned, content>>

BanMember(c) ==
    /\ role' = [role EXCEPT ![c.target] = "none"]
    /\ banned' = banned \cup {c.target}
    /\ UNCHANGED <<groupRow, content>>

\* The hash comes as 32 bytes or in the wire form, with the version byte.
HashForms == {"raw", "wire"}
ToWire(f) == "wire"

PostToGroup(c) ==
    /\ \E f \in HashForms : posts' = posts \cup {<<ToWire(f), c.by>>}
    /\ removed' = removed \ {c.by}
    /\ UNCHANGED <<groupRow, role, banned, linked>>

\* The hash is used as it comes: the 32 bytes that the feed shows match no row.
DeleteGroupPost(c) ==
    /\ \E f \in HashForms : posts' = posts \ {<<f, c.target>>}
    /\ removed' = removed \cup {c.target}
    /\ UNCHANGED <<groupRow, role, banned, linked>>

\* The caller becomes an admin and the target the owner, in this order.
TransferOwnership(c) ==
    /\ role' = IF ~IsMember(c.target) THEN role
               ELSE [u \in Users |->
                       CASE u = c.target -> "owner"
                         [] u = c.by /\ u # c.target /\ IsMember(u) -> "admin"
                         [] OTHER -> role[u]]
    /\ UNCHANGED <<groupRow, banned, content>>

DeleteGroup(c) ==
    /\ visibility' = "none" /\ handle' = NoHandle
    /\ role' = [u \in Users |-> "none"]
    /\ banned' = {} /\ posts' = {} /\ removed' = {} /\ linked' = NoChat

Execute(c) ==
    /\ c \in calls /\ c.op # "kicking"
    /\ calls' = calls \ {c}
    /\ ghost' = (ghost \/ visibility = "none")
    /\ UNCHANGED overlap
    /\ CASE c.op = "handle" -> RegisterGroupHandle(c)
         [] c.op = "invite" -> InviteToGroup(c)
         [] c.op = "role" -> SetGroupRole(c)
         [] c.op = "kick" -> KickMember(c)
         [] c.op = "ban" -> BanMember(c)
         [] c.op = "post" -> PostToGroup(c)
         [] c.op = "unpost" -> DeleteGroupPost(c)
         [] c.op = "transfer" -> TransferOwnership(c)
         [] c.op = "delete" -> DeleteGroup(c)

\* groups.*: create, join and leave check under the lock of the change; the other
\* calls are authorized first and executed under the next lock. The remaining
\* handlers read.
GroupsApi ==
    \/ \E c \in Calls : Authorize(c)
    \/ \E c \in calls : CheckTarget(c) \/ Execute(c)
    \/ \E u \in Users, v \in Visibilities : CreateGroup(u, v)
    \/ \E u \in Users : JoinGroup(u) \/ LeaveGroup(u)

GroupsNext == GroupsApi \/ CreateLinkedChat

GroupsSpec == GroupsInit /\ [][GroupsNext]_groupVars

-----------------------------------------------------------------------------
(* Properties. *)

GroupsTypeOK ==
    /\ visibility \in Visibilities \cup {"none"}
    /\ handle \in Handles \cup {NoHandle}
    /\ role \in [Users -> Roles \cup {"none"}]
    /\ banned \subseteq Users /\ removed \subseteq Users
    /\ posts \subseteq HashForms \X Users
    /\ linked \in {{}, NoChat}
    /\ calls \subseteq Calls
    /\ overlap \in BOOLEAN /\ ghost \in BOOLEAN

\* Nobody is a member and banned, whatever was in flight when the ban came:
\* an invitation that passed its check looks the ban up again in the store.
\* A ban that is stored after the group was deleted is the exception.
BannedStayOut == ~ghost => \A u \in banned : ~IsMember(u)

\* "The current owner is demoted to admin; the target is promoted to owner":
\* as long as calls do not overlap, there are never two owners.
OneOwner == ~overlap => \A u, v \in Owners : u = v

\* A deleted group leaves no member, ban, post or chat behind for the next
\* group of that name, unless a call was carried out after the deletion.
NothingLeftBehind ==
    (~ghost /\ visibility = "none") =>
        /\ \A u \in Users : ~IsMember(u)
        /\ banned = {} /\ posts = {} /\ linked = NoChat /\ handle = NoHandle

\* services/social.rs, delete_group_post: "Delete a post from a group".
DeletedPostsGone == \A u \in removed : <<"wire", u>> \notin posts
=============================================================================
