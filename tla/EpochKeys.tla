------------------------------ MODULE EpochKeys -----------------------------
(***************************************************************************)
(* One EpochKeyManager through its life: content is sealed under the key   *)
(* of the day, read back, and shredded by destroying keys.                 *)
(***************************************************************************)
EXTENDS EpochManager

CONSTANTS Master,
          MaxDay  \* bound: the last day modelled

ASSUME MaxDayAssumption == MaxDay \in Nat

VARIABLES
    today,    \* current_epoch_id()
    manager,  \* the EpochKeyManager
    sealed,   \* history: the epochs under whose key content was sealed
    dropped,  \* history: the epochs whose key was taken out of the cache
    manual,   \* history: the epochs destroy_key was called for
    swept     \* history: the day of the last destroy_expired_keys, or -1

keyVars == <<today, manager, sealed, dropped, manual, swept>>

KeysInit ==
    /\ today = 0
    /\ manager = NewManager(Master)
    /\ sealed = {} /\ dropped = {} /\ manual = {}
    /\ swept = -1

DayPasses ==
    /\ today < MaxDay
    /\ today' = today + 1
    /\ UNCHANGED <<manager, sealed, dropped, manual, swept>>

\* encrypt_with_current_epoch; it fails when the key of the day is destroyed.
Encrypt ==
    /\ manager' = Ensured(manager, today)
    /\ sealed' = IF Available(manager, today) THEN sealed \cup {today} ELSE sealed
    /\ UNCHANGED <<today, dropped, manual, swept>>

\* decrypt_with_epoch_key, epoch_key_for: None for a destroyed epoch.
Decrypt(e) ==
    /\ e \notin manager.destroyed
    /\ manager' = Ensured(manager, e)
    /\ UNCHANGED <<today, sealed, dropped, manual, swept>>

\* rotate: only the key of the day is ensured; marking changes nothing.
Rotate ==
    /\ manager' = Ensured(manager, today)
    /\ UNCHANGED <<today, sealed, dropped, manual, swept>>

\* destroy_expired_keys
DestroyExpired ==
    LET gone == Expired(manager, today) IN
    /\ manager' = Destroyed(manager, gone)
    /\ dropped' = dropped \cup gone
    /\ swept' = today
    /\ UNCHANGED <<today, sealed, manual>>

\* destroy_key
DestroyKey(e) ==
    /\ manager' = Destroyed(manager, {e})
    /\ dropped' = dropped \cup (manager.keys \cap {e})
    /\ manual' = manual \cup {e}
    /\ UNCHANGED <<today, sealed, swept>>

KeysNext ==
    \/ DayPasses \/ Encrypt \/ Rotate \/ DestroyExpired
    \/ \E e \in 0..MaxDay : Decrypt(e) \/ DestroyKey(e)

KeysSpec == KeysInit /\ [][KeysNext]_keyVars

-----------------------------------------------------------------------------
(* Properties. *)

Readable(e) == Available(manager, e)

KeysTypeOK ==
    /\ today \in Nat
    /\ manager \in [master : {Master}, keys : SUBSET Nat, destroyed : SUBSET Nat]
    /\ sealed \subseteq Nat /\ dropped \subseteq Nat /\ manual \subseteq Nat
    /\ swept \in Nat \cup {-1}

\* A destroyed key is never derived again: once out of the cache, the key of
\* an epoch does not return to it, whoever asks for it (epoch.rs, ensure_key).
NeverRederived == dropped \cap manager.keys = {}

\* Content within the retention stays readable: destroy_expired_keys destroys
\* no key younger than the retention, so only a call of destroy_key for that
\* epoch makes it unreadable.
RetainedReadable ==
    \A e \in sealed \ manual : e >= today - Retention => Readable(e)

\* Shredding is complete: after a destroy_expired_keys nothing sealed before
\* the retention can be read through this manager, although destruction only
\* looks at cached keys.
ShredComplete ==
    \A e \in sealed : e < swept - Retention => ~Readable(e)
=============================================================================
