----------------------------- MODULE GroupChats -----------------------------
(***************************************************************************)
(* Private group chats in the tables of a node: any member adds others or  *)
(* leaves, and nobody owns the chat. A chat is identified by its creator   *)
(* and the second of its creation. Every call holds the database lock from *)
(* its checks to its writes.                                               *)
(***************************************************************************)
EXTENDS Integers, FiniteSets

CONSTANTS
    ChatUsers,
    Creators,        \* bound: the users who create chats
    Seconds,         \* in which chats are created
    MaxChatMembers   \* MAX_PRIVATE_CHAT_MEMBERS

ASSUME ChatAssumption ==
    IsFiniteSet(ChatUsers) /\ Creators \subseteq ChatUsers /\ MaxChatMembers \in Nat

ChatIds == Creators \X Seconds

VARIABLES
    chats,      \* rows of group_chats
    inChat,     \* <<chat, user>>: rows of group_chat_members
    said,       \* <<chat, user>>: user has sent a message to chat
    blocks      \* <<u, v>>: u has blocked v, a row of blocks

chatVars == <<chats, inChat, said, blocks>>

MembersOf(k) == {u \in ChatUsers : <<k, u>> \in inChat}

GroupChatsInit == chats = {} /\ inChat = {} /\ said = {} /\ blocks = {}

\* The length of the list of members is checked, with the creator once more.
CreatePrivateChat(k, others) ==
    /\ Cardinality(others) + 1 <= MaxChatMembers
    /\ k \notin chats
    /\ chats' = chats \cup {k}
    /\ inChat' = inChat \cup {<<k, u>> : u \in others \cup {k[1]}}
    /\ UNCHANGED <<said, blocks>>

\* Mutant: whoever knows the chat may add.
AddChatMemberFromOutside(k, adder, u) ==
    /\ <<u, adder>> \notin blocks
    /\ Cardinality(MembersOf(k)) < MaxChatMembers
    /\ inChat' = inChat \cup {<<k, u>>}
    /\ UNCHANGED <<chats, said, blocks>>

AddChatMember(k, adder, u) ==
    /\ <<k, adder>> \in inChat
    /\ <<u, adder>> \notin blocks
    /\ Cardinality(MembersOf(k)) < MaxChatMembers
    /\ inChat' = inChat \cup {<<k, u>>}
    /\ UNCHANGED <<chats, said, blocks>>

LeaveChat(k, u) ==
    /\ inChat' = inChat \ {<<k, u>>}
    /\ UNCHANGED <<chats, said, blocks>>

SendGroupChatMessage(k, u) ==
    /\ <<k, u>> \in inChat
    /\ said' = said \cup {<<k, u>>}
    /\ UNCHANGED <<chats, inChat, blocks>>

\* BlockService::block and unblock
SetBlock(u, v) ==
    /\ blocks' = IF <<u, v>> \in blocks THEN blocks \ {<<u, v>>}
                 ELSE blocks \cup {<<u, v>>}
    /\ UNCHANGED <<chats, inChat, said>>

\* group_chats.*, but for create_linked and the two handlers that read.
GroupChatsApi ==
    \/ \E k \in ChatIds, others \in SUBSET ChatUsers : CreatePrivateChat(k, others)
    \/ \E k \in ChatIds, u, v \in ChatUsers : AddChatMember(k, u, v)
    \/ \E k \in ChatIds, u \in ChatUsers :
          LeaveChat(k, u) \/ SendGroupChatMessage(k, u)

GroupChatsNext ==
    \/ GroupChatsApi
    \/ \E u, v \in ChatUsers : u # v /\ SetBlock(u, v)

GroupChatsSpec == GroupChatsInit /\ [][GroupChatsNext]_chatVars

-----------------------------------------------------------------------------
(* Properties. *)

GroupChatsTypeOK ==
    /\ chats \subseteq ChatIds
    /\ inChat \subseteq chats \X ChatUsers
    /\ said \subseteq chats \X ChatUsers
    /\ blocks \subseteq ChatUsers \X ChatUsers

\* The creation and the additions together never exceed the 50 members of
\* MAX_PRIVATE_CHAT_MEMBERS.
ChatWithinLimit ==
    \A k \in ChatIds : Cardinality(MembersOf(k)) <= MaxChatMembers

\* "Only current members can add people": a chat that everyone has left is
\* never entered again, not even by its creator.
LeftForGood ==
    [][\A k \in chats : MembersOf(k) = {} => (MembersOf(k) = {})']_chatVars
=============================================================================
