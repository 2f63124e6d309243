------------------------------- MODULE MCKeys -------------------------------
(* The epoch key manager by itself, the identity service of a node with its  *)
(* manager, the ratchet sessions of two peers, or their sealed messages and  *)
(* message requests: which of them runs is chosen in the initial state.      *)
EXTENDS EpochKeys, NodeIdentity, RatchetSessions, MessageRequests

CONSTANTS c1, c2, p1, p2, m0, alice, bob,
    Parts \* the parts that the run explores

VARIABLE part

ClockSkew == [n \in Writers |-> IF n = bob THEN 1 ELSE 0]

vars == <<part, keyVars, idVars, ratchetVars, requestVars>>

Init ==
    /\ part \in Parts
    /\ KeysInit /\ IdInit /\ RatchetInit /\ RequestsInit

ManagerStep ==
    part = "manager" /\ KeysNext /\ UNCHANGED <<part, idVars, ratchetVars, requestVars>>

NodeStep ==
    part = "node" /\ IdNext /\ UNCHANGED <<part, keyVars, ratchetVars, requestVars>>

SessionStep ==
    part = "session" /\ RatchetNext /\ UNCHANGED <<part, keyVars, idVars, requestVars>>

RequestStep ==
    part = "request" /\ RequestsNext /\ UNCHANGED <<part, keyVars, idVars, ratchetVars>>

Next == ManagerStep \/ NodeStep \/ SessionStep \/ RequestStep

Spec == Init /\ [][Next]_vars
=============================================================================
