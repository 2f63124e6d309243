------------------------------ MODULE MCSocial ------------------------------
(***************************************************************************)
(* The social components of a node for TLC, one at a time: the initial     *)
(* state chooses the part that moves. The parts share no state.            *)
(***************************************************************************)
EXTENDS Contacts, Groups, GroupChats, DirectMessages, Spaces, TLC

CONSTANTS
    s1, s2, s3, f1, \* posts and the user of Spaces
    Parts           \* the parts that the run explores

VARIABLE part

vars == <<part, contactVars, groupVars, chatVars, dmVars, spaceVars>>

MCWrittenBy == [n \in Notes |-> f1]
MCStampedAt == s1 :> 1 @@ s2 :> 2 @@ s3 :> 2

Init ==
    /\ part \in Parts
    /\ ContactsInit /\ GroupsInit /\ GroupChatsInit /\ DmInit /\ SpacesInit

ContactsStep ==
    /\ part = "contacts" /\ ContactsNext
    /\ UNCHANGED <<part, groupVars, chatVars, dmVars, spaceVars>>

GroupsStep ==
    /\ part = "groups" /\ GroupsNext
    /\ UNCHANGED <<part, contactVars, chatVars, dmVars, spaceVars>>

GroupChatsStep ==
    /\ part = "chats" /\ GroupChatsNext
    /\ UNCHANGED <<part, contactVars, groupVars, dmVars, spaceVars>>

DmStep ==
    /\ part = "messages" /\ DmNext
    /\ UNCHANGED <<part, contactVars, groupVars, chatVars, spaceVars>>

SpacesStep ==
    /\ part = "spaces" /\ SpacesNext
    /\ UNCHANGED <<part, contactVars, groupVars, chatVars, dmVars>>

Next == ContactsStep \/ GroupsStep \/ GroupChatsStep \/ DmStep \/ SpacesStep

Spec == Init /\ [][Next]_vars

\* Bound: once both histories are true, nothing more is claimed of the group.
GroupStillJudged == ~(overlap /\ ghost)

\* Bound: the tables that no page shows stay small, and are filled apart from the
\* links, which are all of the place that is read; the reader stops at the end.
FewMarks ==
    /\ Cardinality(reactions) + Cardinality(mentions) + Cardinality(subscriptions)
          <= IF reader = NoReader /\ placed = {} /\ moment = 0 THEN 2 ELSE 0
    /\ \A l, k \in placed : l.place = k.place
    /\ reader.state # "done"
    /\ reader = NoReader \/ \A l \in placed : l.place = reader.place

\* Bound: rows are counted and read apart from the dead drops, which leave them
\* alone, and who receives nothing has nothing to read.
CountedApart ==
    \/ \A p \in Peers :
          storing[p] = {} /\ reading[p] = {} /\ \A q \in Peers : unread[p][q] = 0
    \/ \A p \in Peers :
          /\ fetched[p] = Idle
          /\ IF p \in Senders THEN reading[p] = {}
             ELSE drops[p] = {} /\ \A q \in Peers : box[p][q] = Nothing

Bounded == GroupStillJudged /\ FewMarks /\ CountedApart
=============================================================================
