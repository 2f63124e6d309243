------------------------------- MODULE OrSet --------------------------------
(***************************************************************************)
(* The observed-remove set, replicated like GCounter: every actor adds to  *)
(* and removes from its own replica, and whole snapshots are merged in any *)
(* order, any number of times. Beside the code's state every replica       *)
(* carries what a textbook OR-Set is defined by: the tags it knows were    *)
(* added and the tags it knows were removed.                               *)
(***************************************************************************)
EXTENDS Integers, FiniteSets, Replicas

CONSTANTS
    Elements,
    MaxAdds,     \* bound: adds per actor
    MaxSnapshots \* bound: distinct snapshots sent

ASSUME SetConstants == MaxAdds \in Nat /\ MaxSnapshots \in Nat

VARIABLES
    entries,  \* entries[a][v]: the live tags of v at the replica of a
    counters, \* counters[a][b]: the last sequence number of b known to a
    added,    \* history: added[a], the tags whose add a knows of
    removed,  \* history: removed[a], the tags whose removal a knows of
    setWire      \* snapshots on their way

setVars == <<entries, counters, added, removed, setWire>>

\* A UniqueTag: the actor that added, and its sequence number.
Tag == Replicas \X Nat

SetInit ==
    /\ entries = [a \in Replicas |-> [v \in Elements |-> {}]]
    /\ counters = [a \in Replicas |-> [b \in Replicas |-> 0]]
    /\ added = [a \in Replicas |-> {}]
    /\ removed = [a \in Replicas |-> {}]
    /\ setWire = {}

\* Mutant: the element's tags are replaced by the new one.
AddReplaces(a, v) ==
    LET tag == <<a, counters[a][a] + 1>> IN
    /\ counters[a][a] < MaxAdds
    /\ counters' = [counters EXCEPT ![a][a] = @ + 1]
    /\ entries' = [entries EXCEPT ![a][v] = {tag}]
    /\ added' = [added EXCEPT ![a] = @ \cup {tag}]
    /\ UNCHANGED <<removed, setWire>>

\* add
Add(a, v) ==
    LET tag == <<a, counters[a][a] + 1>> IN
    /\ counters[a][a] < MaxAdds
    /\ counters' = [counters EXCEPT ![a][a] = @ + 1]
    /\ entries' = [entries EXCEPT ![a][v] = @ \cup {tag}]
    /\ added' = [added EXCEPT ![a] = @ \cup {tag}]
    /\ UNCHANGED <<removed, setWire>>

\* remove: the tags observed here go.
Remove(a, v) ==
    /\ entries[a][v] # {}
    /\ removed' = [removed EXCEPT ![a] = @ \cup entries[a][v]]
    /\ entries' = [entries EXCEPT ![a][v] = {}]
    /\ UNCHANGED <<counters, added, setWire>>

SetSend(a) ==
    /\ Cardinality(setWire) < MaxSnapshots
    /\ setWire' = setWire \cup {[entries |-> entries[a], counters |-> counters[a],
                           added |-> added[a], removed |-> removed[a]]}
    /\ UNCHANGED <<entries, counters, added, removed>>

\* merge, on the counters: the maximum per actor.
MergedCounters(c, d) == [b \in Replicas |-> IF c[b] < d[b] THEN d[b] ELSE c[b]]

\* merge, on the tags: the union per value.
MergedEntries(e, f) == [v \in Elements |-> e[v] \cup f[v]]

SetMerge(a, m) ==
    /\ m \in setWire
    /\ entries' = [entries EXCEPT ![a] = MergedEntries(@, m.entries)]
    /\ counters' = [counters EXCEPT ![a] = MergedCounters(@, m.counters)]
    /\ added' = [added EXCEPT ![a] = @ \cup m.added]
    /\ removed' = [removed EXCEPT ![a] = @ \cup m.removed]
    /\ UNCHANGED setWire

SetNext ==
    \/ \E a \in Replicas, v \in Elements : Add(a, v) \/ Remove(a, v)
    \/ \E a \in Replicas : SetSend(a)
    \/ \E a \in Replicas : \E m \in setWire : SetMerge(a, m)

SetSpec == SetInit /\ [][SetNext]_setVars

-----------------------------------------------------------------------------
(* Properties. *)

SetSnapshot == [entries : [Elements -> SUBSET Tag], counters : [Replicas -> Nat],
             added : SUBSET Tag, removed : SUBSET Tag]

SetTypeOK ==
    /\ entries \in [Replicas -> [Elements -> SUBSET Tag]]
    /\ counters \in [Replicas -> [Replicas -> Nat]]
    /\ added \in [Replicas -> SUBSET Tag]
    /\ removed \in [Replicas -> SUBSET Tag]
    /\ setWire \subseteq SetSnapshot

\* Globally unique tags, "without coordination": a tag never stands for two
\* values, at one replica or at two.
TagsUnique ==
    \A a, b \in Replicas, v, w \in Elements :
       v # w => entries[a][v] \cap entries[b][w] = {}

\* Adds win: a replica that knows of an add, and of no removal that observed
\* it, has the element.
AddWins ==
    \A a \in Replicas : \A t \in added[a] \ removed[a] : \E v \in Elements : t \in entries[a][v]

\* orset.rs:100 "Tags removed on one side (absent from that side) will not be
\* present": a removal a replica knows of stays done.
RemovedStaysRemoved ==
    \A a \in Replicas, v \in Elements : entries[a][v] \cap removed[a] = {}

=============================================================================
