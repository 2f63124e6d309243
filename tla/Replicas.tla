------------------------------ MODULE Replicas ------------------------------
(* What the three replicated data types share: their replicas, and maximum. *)
EXTENDS Integers

CONSTANT Replicas

Larger(x, y) == IF x < y THEN y ELSE x
=============================================================================
