------------------------------ MODULE MCNetwork ------------------------------
(***************************************************************************)
(* The network of a few nodes for TLC: either the gossip service, on a     *)
(* full mesh of three nodes two of which publish, or the DHT of two nodes  *)
(* with a profile each and room for one record, or the PlumTree engine of  *)
(* one node. The initial state chooses; the parts share no state.          *)
(***************************************************************************)
EXTENDS Gossip, Dht, PlumTree, TLC

CONSTANTS
    n1, n2, n3, m1, m2,
    Parts \* the parts that the run explores

VARIABLE part

Mesh == {<<a, b>> \in Nodes \X Nodes : a # b}
TwoAuthors == (m1 :> n1) @@ (m2 :> n2)

NetInit ==
    /\ part \in Parts
    /\ Init /\ DhtInit /\ TreeInit

GossipStep == part = "gossip" /\ Next /\ UNCHANGED <<part, dhtVars, treeVars>>

DhtStep == part = "dht" /\ DhtNext /\ UNCHANGED <<part, vars, treeVars>>

TreeStep == part = "tree" /\ TreeNext /\ UNCHANGED <<part, vars, dhtVars>>

\* The loops of a node run: what arrives is handled, what is announced is
\* followed up. Nobody is obliged to publish, consume or subscribe.
GossipFairness ==
    \A n \in Nodes :
       /\ WF_vars(part = "gossip" /\ \E e \in wire : e.to = n /\ Receive(e))
       /\ WF_vars(part = "gossip" /\ \E q \in pending : q[1] = n /\ LazyTimeout(q))

\* The DHT's loops run as well, and a locked node is unlocked some day. Nobody
\* is obliged to update a profile or to look for one.
DhtFairness ==
    /\ \A k \in Owners : /\ WF_dhtVars(part = "dht" /\ ReadOwnRow(k))
                         /\ WF_dhtVars(part = "dht" /\ Republish(k))
                         /\ WF_dhtVars(part = "dht" /\ \E d \in edits : d.by = k /\ PublishEdit(d))
    /\ \A n \in Hosts :
          /\ WF_dhtVars(part = "dht" /\ SweepExpired(n))
          /\ WF_dhtVars(part = "dht" /\ \E e \in letters : e.to = n /\ Ingest(e))
          /\ WF_dhtVars(part = "dht" /\ \E p \in BOOLEAN : UnlockNode(n, p))

FairSpec ==
    /\ NetInit
    /\ [][GossipStep \/ DhtStep \/ TreeStep]_<<part, vars, dhtVars, treeVars>>
    /\ GossipFairness /\ DhtFairness
=============================================================================
