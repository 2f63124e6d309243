---------------------------- MODULE EpochManager ----------------------------
(***************************************************************************)
(* EpochKeyManager as a value: the master secret the keys are derived      *)
(* from, the epochs whose key is cached and the epochs whose key was       *)
(* destroyed. Derivation is deterministic, so a cached key is its epoch.   *)
(***************************************************************************)
EXTENDS Integers

CONSTANT Retention \* MAX_EPOCH_KEY_AGE_SECS / EPOCH_DURATION_SECS, in epochs

ASSUME RetentionAssumption == Retention \in Nat

NewManager(m) == [master |-> m, keys |-> {}, destroyed |-> {}]

\* ensure_key succeeds: the key of epoch e is cached or may be derived.
Available(g, e) == e \in g.keys \/ e \notin g.destroyed

\* ensure_key, on the manager: it caches what it derives.
Ensured(g, e) == IF Available(g, e) THEN [g EXCEPT !.keys = @ \cup {e}] ELSE g

\* Mutant: the last retained epoch goes too.
ExpiredInclusive(g, today) ==
    IF today > Retention THEN {e \in g.keys : e <= today - Retention} ELSE {}

\* destroy_expired_keys_at: the cached keys older than the retention.
Expired(g, today) ==
    IF today > Retention THEN {e \in g.keys : e < today - Retention} ELSE {}

\* Keys removed and their epochs remembered, never to be derived again.
Destroyed(g, gone) ==
    [g EXCEPT !.keys = @ \ gone, !.destroyed = @ \cup gone]
=============================================================================
