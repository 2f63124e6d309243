------------------------------ MODULE MCHandles ------------------------------
(* Five systems that share no variable, one at a time, for TLC: the handle    *)
(* registry, of two identities that have a node of their own each; the feed;  *)
(* and the three replicated data types, on two replicas.  part says which one *)
(* runs; the others stay in an initial state.                                 *)
EXTENDS HandleRegistry, Feed, GCounter, OrSet, LwwRegister, TLC

CONSTANTS
    k1, k2, o1, o2, n1, n2, \* nodes, identities, names
    m1, x1, x2,             \* posts
    r1, r2, e1, e2, v0,     \* replicas, elements, a value
    Parts,                  \* the systems this run is about
    MaxRecords,             \* bound: records ever registered or renewed
    MaxOffers,              \* bound: records ever handed over
    MaxWrites               \* bound: writes to the register

VARIABLE part

MCHome == o1 :> k1 @@ o2 :> k2
MCKeyRank == o1 :> 1 @@ o2 :> 2
MCAuthorOf == m1 :> "me" @@ x1 :> "bob" @@ x2 :> "bob"
MCCreatedAt == m1 :> 2 @@ x1 :> 1 @@ x2 :> 3

HandlesInit ==
    /\ part \in Parts
    /\ Init /\ FeedInit /\ CounterInit /\ SetInit /\ RegInit

HandleStep ==
    /\ part = "handles" /\ Next
    /\ UNCHANGED <<part, feedVars, counterVars, setVars, regVars>>
FeedStep ==
    /\ part = "feed" /\ FeedNext
    /\ UNCHANGED <<part, vars, counterVars, setVars, regVars>>
CounterStep ==
    /\ part = "counter" /\ CounterNext
    /\ UNCHANGED <<part, vars, feedVars, setVars, regVars>>
SetStep ==
    /\ part = "set" /\ SetNext
    /\ UNCHANGED <<part, vars, feedVars, counterVars, regVars>>
RegStep ==
    /\ part = "register" /\ RegNext
    /\ UNCHANGED <<part, vars, feedVars, counterVars, setVars>>

HandlesSpec ==
    /\ HandlesInit
    /\ [][HandleStep \/ FeedStep \/ CounterStep \/ SetStep \/ RegStep]_<<part,
         vars, feedVars, counterVars, setVars, regVars>>

\* Replicas are alike, and so are the elements of the set.
Alike == Permutations({r1, r2}) \cup Permutations({e1, e2})

\* Bounds: records ever registered and handed over, posts hidden from the feed,
\* writes to the register and its snapshots.
FewSteps ==
    /\ Cardinality({m \in UNION {seen[k] : k \in Nodes} : m[2].owner # NoName}) <= MaxRecords
    /\ Cardinality(wire) <= MaxOffers
    /\ Cardinality(table \ Live) <= 1
    /\ Cardinality(UNION {seenWrites[r] : r \in Replicas}) <= MaxWrites
    /\ Cardinality(regWire) <= MaxSnapshots
==============================================================================
