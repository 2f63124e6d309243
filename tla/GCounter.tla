------------------------------ MODULE GCounter ------------------------------
(***************************************************************************)
(* The grow-only counter, replicated. Every actor increments its own slot  *)
(* of its own replica; replicas travel as whole snapshots, which arrive    *)
(* late, repeatedly, out of order or never, and are merged slot by slot.   *)
(***************************************************************************)
EXTENDS Integers, Sequences, Replicas

CONSTANTS
    Amounts,      \* what increment may be called with
    MaxCount,     \* u64::MAX
    MaxIncrements \* bound: increments per actor

ASSUME CounterConstants ==
    MaxCount \in Nat /\ Amounts \subseteq Nat /\ MaxIncrements \in Nat

VARIABLES
    counts, \* counts[a][b]: the slot of b in the replica of a
    past,   \* history: past[b], the values the slot of b went through
    reflected,   \* history: reflected[a][b], how many of them the replica of a reflects
    counterWire    \* snapshots on their way, with what they reflect

counterVars == <<counts, past, reflected, counterWire>>

Slots    == [Replicas -> 0..MaxCount]
Versions == [Replicas -> Nat]

CounterInit ==
    /\ counts = [a \in Replicas |-> [b \in Replicas |-> 0]]
    /\ past = [b \in Replicas |-> <<0>>]
    /\ reflected = [a \in Replicas |-> [b \in Replicas |-> 1]]
    /\ counterWire = {}

\* saturating_add
SatAdd(x, y) == IF x + y > MaxCount THEN MaxCount ELSE x + y

\* increment(actor, amount)
Increment(a, amount) ==
    /\ Len(past[a]) <= MaxIncrements
    /\ counts' = [counts EXCEPT ![a][a] = SatAdd(@, amount)]
    /\ past' = [past EXCEPT ![a] = Append(@, SatAdd(counts[a][a], amount))]
    /\ reflected' = [reflected EXCEPT ![a][a] = @ + 1]
    /\ UNCHANGED counterWire

\* A snapshot of the replica of a leaves for the others.
CounterSend(a) ==
    /\ counterWire' = counterWire \cup {[counts |-> counts[a], reflected |-> reflected[a]]}
    /\ UNCHANGED <<counts, past, reflected>>

\* Mutant: the slots of the incoming snapshot replace the local ones.
MergedReplaces(c, d) == [b \in Replicas |-> d[b]]

\* merge, on the slots: the pointwise maximum.
Merged(c, d) == [b \in Replicas |-> Larger(c[b], d[b])]

CounterMerge(a, m) ==
    /\ m \in counterWire
    /\ counts' = [counts EXCEPT ![a] = Merged(@, m.counts)]
    /\ reflected' = [reflected EXCEPT ![a] = [b \in Replicas |-> Larger(@[b], m.reflected[b])]]
    /\ UNCHANGED <<past, counterWire>>

CounterNext ==
    \/ \E a \in Replicas, n \in Amounts : Increment(a, n)
    \/ \E a \in Replicas : CounterSend(a)
    \/ \E a \in Replicas : \E m \in counterWire : CounterMerge(a, m)

CounterSpec == CounterInit /\ [][CounterNext]_counterVars

-----------------------------------------------------------------------------
(* Properties. *)

CounterTypeOK ==
    /\ counts \in [Replicas -> Slots]
    /\ past \in [Replicas -> Seq(0..MaxCount)]
    /\ reflected \in [Replicas -> Versions]
    /\ counterWire \subseteq [counts : Slots, reflected : Versions]

\* Strong eventual consistency: two replicas that reflect the same
\* increments are equal, whatever snapshots they merged, in whatever order
\* and however often.
SameIncrementsSameCounts ==
    \A a, b \in Replicas : reflected[a] = reflected[b] => counts[a] = counts[b]

\* Nothing is counted twice and nothing is lost: a slot shows exactly what
\* its owner had counted after the increments the replica reflects.
NoDoubleCount ==
    \A a, b \in Replicas :
       /\ reflected[a][b] \in DOMAIN past[b]
       /\ counts[a][b] = past[b][reflected[a][b]]

\* Grow-only: no replica ever shows less of any actor than it did.
GrowOnly == [][\A a, b \in Replicas : counts[a][b] <= counts'[a][b]]_counterVars

=============================================================================
