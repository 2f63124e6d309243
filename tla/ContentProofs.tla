---------------------------- MODULE ContentProofs ----------------------------
(***************************************************************************)
(* Proofs about what stands around the posts, for all values of the        *)
(* constants.  Of EpochKeys: the life of the keys that seal the blobs.  Of *)
(* BlobStore: no reader meets a torn blob, and a put fails only when its   *)
(* directory was emptied.  Of Moderation: posts are hidden by enough       *)
(* reporters and by no fewer.  Of Admission: the rate of an author is      *)
(* bounded over every interval, and near twins are refused.                *)
(***************************************************************************)
EXTENDS EpochKeys, BlobStore, Moderation, Admission, FiniteSetTheorems, TLAPS

-----------------------------------------------------------------------------
\* EpochKeys.  The invariant adds to the properties what makes them inductive: the
\* cache and the destroyed epochs are disjoint, every key that left the cache is
\* recorded as destroyed, every sealed epoch is in one of the two, and destruction
\* reached only what is old or was asked for.

Disjoint == manager.keys \cap manager.destroyed = {}

DroppedRecorded == dropped \subseteq manager.destroyed

SealedTracked == sealed \subseteq manager.keys \cup manager.destroyed

DestroyedIsOldOrManual ==
    \A e \in manager.destroyed : e \in manual \/ e < today - Retention

SweptPast == swept <= today

\* What a sweep leaves cached and sealed is young, or was sealed since.
SealedSweptGone ==
    \A e \in sealed : e < swept - Retention => e \in manager.destroyed

KeysInv ==
    /\ KeysTypeOK /\ Disjoint /\ DroppedRecorded /\ SealedTracked
    /\ DestroyedIsOldOrManual /\ SweptPast /\ SealedSweptGone

\* The invariant implies what the runs check (NeverRederived, RetainedReadable
\* and ShredComplete of the epoch key manager).
LEMMA KeysInvImplies ==
    KeysInv => NeverRederived /\ RetainedReadable /\ ShredComplete
  <1> SUFFICES ASSUME KeysInv PROVE NeverRederived /\ RetainedReadable /\ ShredComplete
      BY Zenon
  <1>1. NeverRederived
      BY Zenon DEF KeysInv, Disjoint, DroppedRecorded, NeverRederived
  <1>2. RetainedReadable
      BY RetentionAssumption DEF KeysInv, KeysTypeOK, DestroyedIsOldOrManual,
         RetainedReadable, Readable, Available
  <1>3. ShredComplete
      BY Zenon DEF KeysInv, Disjoint, SealedSweptGone, ShredComplete, Readable, Available
  <1> QED BY <1>1, <1>2, <1>3, Zenon

\* A new manager satisfies the invariant (EpochKeyManager::new).
LEMMA KeysInitInv == KeysInit => KeysInv
  BY RetentionAssumption DEF KeysInit, NewManager, KeysInv, KeysTypeOK, Disjoint,
     DroppedRecorded, SealedTracked, DestroyedIsOldOrManual, SweptPast, SealedSweptGone

\* ensure_key preserves what relates the cache to the destroyed epochs: it
\* adds the epoch it was asked for, unless that one is destroyed.
LEMMA EnsuredManager ==
    ASSUME KeysInv, NEW e \in Nat
    PROVE  /\ Ensured(manager, e) \in
                [master : {Master}, keys : SUBSET Nat, destroyed : SUBSET Nat]
           /\ Ensured(manager, e).keys \cap Ensured(manager, e).destroyed = {}
           /\ Ensured(manager, e).destroyed = manager.destroyed
           /\ manager.keys \subseteq Ensured(manager, e).keys
           /\ Available(manager, e) => e \in Ensured(manager, e).keys
  <1> DEFINE g == manager
  <1>1. g \in [master : {Master}, keys : SUBSET Nat, destroyed : SUBSET Nat]
        /\ g.keys \cap g.destroyed = {}
      BY Zenon DEF KeysInv, KeysTypeOK, Disjoint
  <1>2. CASE Available(g, e)
    <2>1. Ensured(g, e) = [g EXCEPT !.keys = g.keys \cup {e}]
        BY <1>2, Zenon DEF Ensured
    <2>2. e \notin g.destroyed
        BY <1>1, <1>2, Zenon DEF Available
    <2> QED BY <1>1, <2>1, <2>2
  <1>3. CASE ~Available(g, e)
      BY <1>1, <1>3, Zenon DEF Ensured
  <1> QED BY <1>2, <1>3, Zenon

\* Every step of the manager preserves the invariant.
LEMMA KeysNextInv == KeysInv /\ [KeysNext]_keyVars => KeysInv'
  <1> SUFFICES ASSUME KeysInv, [KeysNext]_keyVars PROVE KeysInv'
      BY Zenon
  <1> USE RetentionAssumption, MaxDayAssumption
  <1>0. /\ today \in Nat
        /\ manager \in [master : {Master}, keys : SUBSET Nat, destroyed : SUBSET Nat]
        /\ sealed \subseteq Nat /\ dropped \subseteq Nat /\ manual \subseteq Nat
        /\ swept \in Nat \cup {-1}
      BY Zenon DEF KeysInv, KeysTypeOK
  <1>1. CASE DayPasses
    <2>1. today' = today + 1 /\ UNCHANGED <<manager, sealed, dropped, manual, swept>>
        BY <1>1, Zenon DEF DayPasses
    <2>2. KeysTypeOK' /\ SweptPast'
        BY <1>0, <2>1 DEF KeysInv, KeysTypeOK, SweptPast
    <2>3. DestroyedIsOldOrManual'
        BY <1>0, <2>1 DEF KeysInv, DestroyedIsOldOrManual
    <2> QED BY <2>1, <2>2, <2>3, Zenon DEF KeysInv, Disjoint, DroppedRecorded,
            SealedTracked, SealedSweptGone
  <1>2. CASE Encrypt
    <2>1. manager' = Ensured(manager, today) /\ UNCHANGED <<today, dropped, manual, swept>>
          /\ sealed' = IF Available(manager, today) THEN sealed \cup {today} ELSE sealed
        BY <1>2, Zenon DEF Encrypt
    <2>2. /\ manager' \in [master : {Master}, keys : SUBSET Nat, destroyed : SUBSET Nat]
          /\ manager'.keys \cap manager'.destroyed = {}
          /\ manager'.destroyed = manager.destroyed
          /\ manager.keys \subseteq manager'.keys
          /\ Available(manager, today) => today \in manager'.keys
        BY <1>0, <2>1, EnsuredManager, Zenon
    <2>3. KeysTypeOK' /\ Disjoint' /\ DroppedRecorded' /\ DestroyedIsOldOrManual'
          /\ SweptPast'
        BY <1>0, <2>1, <2>2, Zenon DEF KeysInv, KeysTypeOK, Disjoint, DroppedRecorded,
           DestroyedIsOldOrManual, SweptPast
    <2>4. SealedTracked'
        BY <2>1, <2>2, Zenon DEF KeysInv, SealedTracked
    <2>5. SealedSweptGone'
        BY <1>0, <2>1, <2>2 DEF KeysInv, SealedSweptGone, SweptPast
    <2> QED BY <2>3, <2>4, <2>5, Zenon DEF KeysInv
  <1>3. ASSUME NEW e \in Nat, manager' = Ensured(manager, e),
               UNCHANGED <<today, sealed, dropped, manual, swept>>
        PROVE  KeysInv'
    <2>1. /\ manager' \in [master : {Master}, keys : SUBSET Nat, destroyed : SUBSET Nat]
          /\ manager'.keys \cap manager'.destroyed = {}
          /\ manager'.destroyed = manager.destroyed
          /\ manager.keys \subseteq manager'.keys
        BY <1>3, EnsuredManager, Zenon
    <2> QED BY <1>0, <1>3, <2>1, Zenon DEF KeysInv, KeysTypeOK, Disjoint, DroppedRecorded,
            SealedTracked, DestroyedIsOldOrManual, SweptPast, SealedSweptGone
  <1>4. CASE Rotate
      BY <1>0, <1>3, <1>4, Zenon DEF Rotate
  <1>5. ASSUME NEW e \in 0..MaxDay, Decrypt(e) PROVE KeysInv'
      BY <1>3, <1>5 DEF Decrypt
  <1>6. CASE DestroyExpired
    <2> DEFINE gone == Expired(manager, today)
    <2>1. /\ manager' = [manager EXCEPT !.keys = manager.keys \ gone,
                                        !.destroyed = manager.destroyed \cup gone]
          /\ dropped' = dropped \cup gone /\ swept' = today
          /\ UNCHANGED <<today, sealed, manual>>
        BY <1>6, Zenon DEF DestroyExpired, Destroyed
    <2>2. gone \subseteq manager.keys /\ \A e \in gone : e < today - Retention
        BY <1>0, Zenon DEF Expired
    <2>3. \A e \in manager.keys : e < today - Retention => e \in gone
        BY <1>0 DEF Expired
    <2> HIDE DEF gone
    <2>4. /\ manager'.keys = manager.keys \ gone
          /\ manager'.destroyed = manager.destroyed \cup gone
          /\ manager' \in [master : {Master}, keys : SUBSET Nat, destroyed : SUBSET Nat]
        BY <1>0, <2>1, <2>2, Zenon
    <2>5. KeysTypeOK' /\ SweptPast'
        BY <1>0, <2>1, <2>2, <2>4 DEF KeysTypeOK, SweptPast
    <2>6. Disjoint' /\ DroppedRecorded' /\ SealedTracked'
        BY <2>1, <2>2, <2>4, Zenon DEF KeysInv, Disjoint, DroppedRecorded, SealedTracked
    <2>7. DestroyedIsOldOrManual'
        BY <2>1, <2>2, <2>4, Zenon DEF KeysInv, DestroyedIsOldOrManual
    <2>8. SealedSweptGone'
        BY <2>1, <2>3, <2>4, Zenon DEF KeysInv, SealedSweptGone, SealedTracked
    <2> QED BY <2>5, <2>6, <2>7, <2>8, Zenon DEF KeysInv
  <1>7. ASSUME NEW e \in 0..MaxDay, DestroyKey(e) PROVE KeysInv'
    <2>1. /\ manager' = [manager EXCEPT !.keys = manager.keys \ {e},
                                        !.destroyed = manager.destroyed \cup {e}]
          /\ dropped' = dropped \cup (manager.keys \cap {e})
          /\ manual' = manual \cup {e}
          /\ UNCHANGED <<today, sealed, swept>>
        BY <1>7, Zenon DEF DestroyKey, Destroyed
    <2> DEFINE one == {e}
    <2>0. one \subseteq Nat
        OBVIOUS
    <2>a. manager' = [manager EXCEPT !.keys = manager.keys \ one,
                                     !.destroyed = manager.destroyed \cup one]
        BY <2>1, Zenon
    <2> HIDE DEF one
    <2>2. /\ manager'.keys = manager.keys \ one
          /\ manager'.destroyed = manager.destroyed \cup one
          /\ manager' \in [master : {Master}, keys : SUBSET Nat, destroyed : SUBSET Nat]
        BY <1>0, <2>0, <2>a, Zenon
    <2>3. KeysTypeOK' /\ SweptPast'
        BY <1>0, <2>1, <2>2, Zenon DEF one, KeysInv, KeysTypeOK, SweptPast
    <2>4. Disjoint' /\ DroppedRecorded' /\ SealedTracked'
        BY <2>1, <2>2, Zenon DEF one, KeysInv, Disjoint, DroppedRecorded, SealedTracked
    <2>5. DestroyedIsOldOrManual'
        BY <2>1, <2>2, Zenon DEF one, KeysInv, DestroyedIsOldOrManual
    <2>6. SealedSweptGone'
        BY <2>1, <2>2, Zenon DEF one, KeysInv, SealedSweptGone
    <2> QED BY <2>3, <2>4, <2>5, <2>6, Zenon DEF KeysInv
  <1>8. CASE UNCHANGED keyVars
      BY <1>8, Zenon DEF keyVars, KeysInv, KeysTypeOK, Disjoint, DroppedRecorded,
         SealedTracked, DestroyedIsOldOrManual, SweptPast, SealedSweptGone
  <1> QED BY <1>1, <1>2, <1>4, <1>5, <1>6, <1>7, <1>8, Zenon DEF KeysNext

\* The invariant holds throughout the life of a manager.
THEOREM KeysInvariance == KeysSpec => []KeysInv
  BY KeysInitInv, KeysNextInv, PTL DEF KeysSpec

\* A key that was destroyed, by age or by hand, is never derived again
\* (NeverRederived).
THEOREM DestroyedForGood == KeysSpec => []NeverRederived
  BY KeysInvariance, KeysInvImplies, PTL

\* Content within the retention stays readable (RetainedReadable).
THEOREM RetentionKept == KeysSpec => []RetainedReadable
  BY KeysInvariance, KeysInvImplies, PTL

\* A sweep shreds everything the manager sealed before the retention
\* (ShredComplete).
THEOREM ShreddingComplete == KeysSpec => []ShredComplete
  BY KeysInvariance, KeysInvImplies, PTL

-----------------------------------------------------------------------------
\* BlobStore.

TaskStates == [op : {"idle", "write", "fill", "rename", "remove", "rmdir"},
               blob : Blobs \cup {NoBlob}, tmp : Nat]
TempFiles == [name : Nat, blob : Blobs, state : {"half", "whole"}]

Holding == {t \in Tasks : task[t].op \in {"fill", "rename"}}

\* A temporary file belongs to one task. While a task has it, it is there, and it
\* is whole before it is renamed; a task about to create one has its directory,
\* unless that was emptied.
StoreInv ==
    /\ nextTmp \in Nat
    /\ files \in [Blobs -> {"none", "whole"}]
    /\ temps \subseteq TempFiles
    /\ task \in [Tasks -> TaskStates]
    /\ \A f \in temps : f.name < nextTmp
    /\ \A t \in Tasks : task[t].op # "idle" => task[t].blob \in Blobs
    /\ \A t \in Holding : task[t].tmp < nextTmp /\ Mine(t) # {}
    /\ \A t, u \in Holding : t # u => task[t].tmp # task[u].tmp
    /\ \A t \in Holding : task[t].op = "rename" => \A f \in Mine(t) : f.state = "whole"
    /\ \A t \in Tasks : task[t].op = "write" => dir \/ t \in emptied
    /\ failedPuts \subseteq emptied

\* An empty store.
LEMMA StoreInitInv == StoreInit => StoreInv
  BY DEF StoreInit, StoreInv, TaskStates, Holding, Idle, Mine

\* Every step keeps the invariant.
LEMMA StoreStepInv == StoreInv /\ [StoreNext]_storeVars => StoreInv'
<1> SUFFICES ASSUME StoreInv, [StoreNext]_storeVars PROVE StoreInv'
  BY Zenon
<1> USE DEF StoreInv, TaskStates, TempFiles
<1>1. CASE UNCHANGED storeVars
  BY <1>1 DEF storeVars, storeHistory, Holding, Mine
<1>2. ASSUME NEW t \in Tasks, NEW h \in Blobs, PutBegin(t, h) PROVE StoreInv'
  <2>1. CASE UNCHANGED <<task, dir>>
    BY <1>2, <2>1 DEF PutBegin, Idle, Holding, Mine
  <2>2. CASE ~UNCHANGED <<task, dir>>
    <3> DEFINE new == [Idle EXCEPT !.op = "write", !.blob = h]
    <3>1. new \in TaskStates /\ new.op = "write" /\ new.blob \in Blobs
      BY Zenon DEF Idle
    <3>2. /\ task[t].op = "idle" /\ task' = [task EXCEPT ![t] = new]
          /\ UNCHANGED <<files, temps, nextTmp>>
      BY <1>2, <2>2 DEF PutBegin, Idle
    <3>3. dir' /\ emptied' = emptied \ {t} /\ failedPuts' = failedPuts \ {t}
      BY <1>2, <2>2, Zenon DEF PutBegin
    <3> HIDE DEF new
    <3>4. /\ task'[t] = new /\ task' \in [Tasks -> TaskStates]
          /\ \A u \in Tasks : u # t => task'[u] = task[u]
      BY <3>1, <3>2, Zenon
    <3>5. Holding' = Holding /\ \A u \in Holding : task'[u] = task[u] /\ Mine(u)' = Mine(u)
      BY <3>1, <3>2, <3>4 DEF Holding, Mine
    <3>6. \A u \in Tasks : /\ task'[u].op # "idle" => task'[u].blob \in Blobs
                           /\ task'[u].op = "write" => dir' \/ u \in emptied'
      BY <3>1, <3>3, <3>4, Zenon
    <3>7. failedPuts' \subseteq emptied'
      BY <3>3, Zenon
    <3> HIDE DEF TempFiles, TaskStates
    <3> QED
      BY <3>2, <3>4, <3>5, <3>6, <3>7
  <2> QED
    BY <2>1, <2>2, Zenon
<1>3. ASSUME NEW t \in Tasks, NEW h \in Blobs, DeleteBegin(t, h) PROVE StoreInv'
  <2>1. CASE UNCHANGED <<task, dir>>
    BY <1>3, <2>1 DEF DeleteBegin, Idle, Holding, Mine
  <2>2. CASE ~UNCHANGED <<task, dir>>
    <3> DEFINE new == [Idle EXCEPT !.op = "remove", !.blob = h]
    <3>1. new \in TaskStates /\ new.op = "remove" /\ new.blob \in Blobs
      BY Zenon DEF Idle
    <3>2. /\ task[t].op = "idle" /\ task' = [task EXCEPT ![t] = new]
          /\ UNCHANGED <<files, temps, nextTmp>>
      BY <1>3, <2>2 DEF DeleteBegin, Idle
    <3>3. UNCHANGED <<dir, emptied, failedPuts>>
      BY <1>3, <2>2, Zenon DEF DeleteBegin
    <3> HIDE DEF new
    <3>4. /\ task'[t] = new /\ task' \in [Tasks -> TaskStates]
          /\ \A u \in Tasks : u # t => task'[u] = task[u]
      BY <3>1, <3>2, Zenon
    <3>5. Holding' = Holding /\ \A u \in Holding : task'[u] = task[u] /\ Mine(u)' = Mine(u)
      BY <3>1, <3>2, <3>4 DEF Holding, Mine
    <3>6. \A u \in Tasks : /\ task'[u].op # "idle" => task'[u].blob \in Blobs
                           /\ task'[u].op = "write" => dir' \/ u \in emptied'
      BY <3>1, <3>3, <3>4, Zenon
    <3>7. failedPuts' \subseteq emptied'
      BY <3>3, Zenon
    <3> HIDE DEF TempFiles, TaskStates
    <3> QED
      BY <3>2, <3>4, <3>5, <3>6, <3>7
  <2> QED
    BY <2>1, <2>2, Zenon
<1>4. ASSUME NEW t \in Tasks, PutCreate(t) PROVE StoreInv'
  <2>1. CASE ~dir
    <3>1. /\ task' = [task EXCEPT ![t] = Idle] /\ failedPuts' = failedPuts \cup {t} /\ t \in emptied
          /\ UNCHANGED <<temps, nextTmp, files, dir, emptied>>
      BY <1>4, <2>1, Zenon DEF PutCreate, Ends
    <3> QED
      BY <3>1 DEF Idle, Holding, Mine
  <2>2. CASE dir
    <3> DEFINE file == [name |-> nextTmp, blob |-> task[t].blob, state |-> "half"]
    <3>1. task[t].op = "write" /\ task[t].blob \in Blobs
      BY <1>4, Zenon DEF PutCreate
    <3>2. /\ temps' = temps \cup {file}
          /\ task' = [task EXCEPT ![t].op = "fill", ![t].tmp = nextTmp]
          /\ nextTmp' = nextTmp + 1
          /\ UNCHANGED <<failedPuts, files, dir, emptied>>
      BY <1>4, <2>2 DEF PutCreate, UniqueTmpPath
    <3>3. file \in TempFiles /\ file.name = nextTmp /\ file.blob = task[t].blob
      BY <3>1, Zenon
    <3>4. /\ task'[t].op = "fill" /\ task'[t].tmp = nextTmp /\ task'[t].blob = task[t].blob
          /\ task' \in [Tasks -> TaskStates]
          /\ \A u \in Tasks : u # t => task'[u] = task[u]
      BY <3>2, Zenon
    <3> HIDE DEF file
    <3>5. Mine(t)' # {}
      BY <3>2, <3>3, <3>4 DEF Mine
    <3>6. \A u \in Holding : u # t /\ Mine(u)' = Mine(u)
      BY <3>1, <3>2, <3>3, <3>4 DEF Mine, Holding
    <3>7. Holding' = Holding \cup {t}
      BY <3>4, Zenon DEF Holding
    <3>8. \A f \in temps' : f.name < nextTmp' /\ f \in TempFiles
      BY <3>2, <3>3
    <3>9. \A u \in Holding' : task'[u].tmp < nextTmp' /\ Mine(u)' # {}
      BY <3>2, <3>4, <3>5, <3>6, <3>7 DEF Holding
    <3>10. \A u, v \in Holding' : u # v => task'[u].tmp # task'[v].tmp
      BY <3>4, <3>6, <3>7 DEF Holding
    <3>11. \A u \in Holding' : task'[u].op = "rename" => \A f \in Mine(u)' : f.state = "whole"
      BY <3>4, <3>6, <3>7 DEF Holding
    <3>12. \A u \in Tasks : task'[u].op # "idle" => task'[u].blob \in Blobs
      BY <3>1, <3>4, Zenon
    <3>13. \A u \in Tasks : task'[u].op = "write" => dir' \/ u \in emptied'
      BY <3>2, <3>4, Zenon
    <3>14. temps' \subseteq TempFiles /\ nextTmp' \in Nat
      BY <3>2, <3>8
    <3> HIDE DEF TempFiles, TaskStates
    <3> QED
      BY <3>2, <3>4, <3>8, <3>9, <3>10, <3>11, <3>12, <3>13, <3>14, Zenon
  <2> QED
    BY <2>1, <2>2, Zenon
<1>5. ASSUME NEW t \in Tasks, PutFill(t) PROVE StoreInv'
  <2> DEFINE filled == {[f EXCEPT !.state = "whole"] : f \in Mine(t)}
  <2>1. /\ task[t].op = "fill" /\ temps' = (temps \ Mine(t)) \cup filled
        /\ task' = [task EXCEPT ![t].op = "rename"]
        /\ UNCHANGED <<files, dir, nextTmp, failedPuts, emptied>>
    BY <1>5, Zenon DEF PutFill, Goes, storeHistory
  <2>2. \A f \in Mine(t) : /\ f \in temps /\ f.name = task[t].tmp /\ f.blob = task[t].blob
    BY Zenon DEF Mine
  <2>3. \A f \in filled : /\ f \in TempFiles /\ f.state = "whole" /\ f.name = task[t].tmp
                          /\ f.blob = task[t].blob
    BY <2>2
  <2>4. t \in Holding /\ filled # {}
    <3>1. t \in Holding
      BY <2>1, Zenon DEF Holding
    <3>2. PICK f \in Mine(t) : TRUE
      BY <3>1, Zenon
    <3>3. [f EXCEPT !.state = "whole"] \in filled
      BY <3>2, Zenon
    <3> QED
      BY <3>1, <3>3, Zenon
  <2> HIDE DEF filled
  <2>5. /\ task'[t].op = "rename" /\ task'[t].tmp = task[t].tmp /\ task'[t].blob = task[t].blob
        /\ task' \in [Tasks -> TaskStates]
        /\ \A u \in Tasks : u # t => task'[u] = task[u]
    BY <2>1, Zenon
  <2>6. Holding' = Holding
    BY <2>1, <2>5 DEF Holding
  <2>7. Mine(t)' = filled
    BY <2>1, <2>3, <2>5 DEF Mine
  <2>8. \A u \in Holding : u # t => Mine(u)' = Mine(u)
    BY <2>1, <2>2, <2>3, <2>4, <2>5 DEF Mine, Holding
  <2>9. \A f \in temps' : f \in TempFiles /\ f.name < nextTmp'
    BY <2>1, <2>3, <2>4, Zenon
  <2>10. \A u \in Holding' : task'[u].tmp < nextTmp' /\ Mine(u)' # {}
    BY <2>1, <2>4, <2>5, <2>6, <2>7, <2>8 DEF Holding
  <2>11. \A u, v \in Holding' : u # v => task'[u].tmp # task'[v].tmp
    BY <2>5, <2>6 DEF Holding
  <2>12. \A u \in Holding' : task'[u].op = "rename" => \A f \in Mine(u)' : f.state = "whole"
    BY <2>3, <2>5, <2>6, <2>7, <2>8 DEF Holding
  <2>13. \A u \in Tasks : task'[u].op # "idle" => task'[u].blob \in Blobs
    BY <2>1, <2>5, Zenon
  <2>14. \A u \in Tasks : task'[u].op = "write" => dir' \/ u \in emptied'
    BY <2>1, <2>5, Zenon
  <2> QED
    BY <2>1, <2>5, <2>9, <2>10, <2>11, <2>12, <2>13, <2>14, Zenon
<1>6. ASSUME NEW t \in Tasks, PutRename(t) PROVE StoreInv'
  <2>1. t \in Holding /\ task[t].op = "rename" /\ Mine(t) # {} /\ task[t].blob \in Blobs
    BY <1>6, Zenon DEF PutRename, Holding
  <2>2. (CHOOSE f \in Mine(t) : TRUE).state = "whole"
    BY <2>1, Zenon
  <2>3. /\ files' = [files EXCEPT ![task[t].blob] = "whole"] /\ temps' = temps \ Mine(t)
        /\ task' = [task EXCEPT ![t] = Idle]
        /\ UNCHANGED <<dir, nextTmp, emptied, failedPuts>>
    BY <1>6, <2>1, <2>2, Zenon DEF PutRename, Ends
  <2>4. /\ task'[t].op = "idle" /\ task' \in [Tasks -> TaskStates]
        /\ \A u \in Tasks : u # t => task'[u] = task[u]
    BY <2>3, Zenon DEF Idle
  <2>5. Holding' = Holding \ {t}
    BY <2>4, Zenon DEF Holding
  <2>6. \A u \in Holding' : u \in Holding /\ task'[u] = task[u] /\ Mine(u)' = Mine(u)
    BY <2>1, <2>3, <2>4, <2>5 DEF Mine, Holding
  <2>7. files' \in [Blobs -> {"none", "whole"}]
    BY <2>1, <2>3, Zenon
  <2>8. \A u \in Tasks : /\ task'[u].op # "idle" => task'[u].blob \in Blobs
                         /\ task'[u].op = "write" => dir' \/ u \in emptied'
    BY <2>3, <2>4, Zenon
  <2> QED
    BY <2>3, <2>4, <2>6, <2>7, <2>8
<1>7. ASSUME NEW t \in Tasks, DeleteFile(t) PROVE StoreInv'
  <2>1. CASE files[task[t].blob] = "none"
    BY <1>7, <2>1 DEF DeleteFile, Ends, Idle, Holding, Mine, storeHistory
  <2>2. CASE files[task[t].blob] # "none"
    <3>1. /\ task[t].op = "remove" /\ task[t].blob \in Blobs
          /\ files' = [files EXCEPT ![task[t].blob] = "none"]
          /\ task' = [task EXCEPT ![t].op = "rmdir"]
          /\ UNCHANGED <<temps, dir, nextTmp, failedPuts, emptied>>
      BY <1>7, <2>2, Zenon DEF DeleteFile, Goes, storeHistory
    <3>2. files' \in [Blobs -> {"none", "whole"}]
      BY <3>1, Zenon
    <3>3. /\ task'[t].op = "rmdir" /\ task'[t].blob = task[t].blob /\ task' \in [Tasks -> TaskStates]
          /\ \A u \in Tasks : u # t => task'[u] = task[u]
      BY <3>1, Zenon
    <3>4. Holding' = Holding /\ t \notin Holding /\ \A u \in Holding : Mine(u)' = Mine(u)
      BY <3>1, <3>3, Zenon DEF Holding, Mine
    <3> QED
      BY <3>1, <3>2, <3>3, <3>4 DEF Holding
  <2> QED
    BY <2>1, <2>2, Zenon
<1>8. ASSUME NEW t \in Tasks, DeleteDir(t) PROVE StoreInv'
  BY <1>8 DEF DeleteDir, Ends, Idle, Holding, Mine
<1>9. CASE StoreCrash
  BY <1>9, Zenon DEF StoreCrash, Idle, Holding, Mine
<1> QED
  BY <1>1, <1>2, <1>3, <1>4, <1>5, <1>6, <1>7, <1>8, <1>9, Zenon DEF StoreNext

\* get never meets a file that is not whole, however tasks overlap and whenever the
\* process ends (put, unique_tmp_path).
THEOREM BlobsNeverTorn == StoreSpec => []NeverTorn
<1>1. StoreInv => NeverTorn
  BY Zenon DEF StoreInv, NeverTorn, Get
<1> QED
  BY <1>1, StoreInitInv, StoreStepInv, PTL DEF StoreSpec

\* Without I/O errors put fails only when delete removed its directory meanwhile.
THEOREM PutsFailOnlyEmptied == StoreSpec => []PutFailsOnlyEmptied
<1>1. StoreInv => PutFailsOnlyEmptied
  BY Zenon DEF StoreInv, PutFailsOnlyEmptied
<1> QED
  BY <1>1, StoreInitInv, StoreStepInv, PTL DEF StoreSpec

-----------------------------------------------------------------------------
\* Moderation.

ReportStates ==
    {NoReport} \cup [pc : {"persist", "tombstone", "penalise"}, reporter : Reporters,
                     content : Contents, count : Nat]

\* A handler that is not idle has all its fields, and keeps them as it goes on.
LEMMA PendingReport ==
  ASSUME NEW s \in ReportStates, s.pc # "idle"
  PROVE  /\ s.pc \in {"persist", "tombstone", "penalise"} /\ s.reporter \in Reporters
         /\ s.content \in Contents /\ s.count \in Nat
         /\ \A p \in {"tombstone", "penalise"} :
               LET n == [s EXCEPT !.pc = p]
               IN  n \in ReportStates /\ n.pc = p /\ n.content = s.content /\ n.count = s.count
<1>0. NoReport.pc = "idle"
  BY Zenon DEF NoReport
<1>1. s # NoReport
  BY <1>0, Zenon
<1>2. s \in [pc : {"persist", "tombstone", "penalise"}, reporter : Reporters,
             content : Contents, count : Nat]
  BY <1>1, Zenon DEF ReportStates
<1> QED
  BY <1>2, Zenon DEF ReportStates

\* How many reporters a content has in a set of reports.
Accusers(reports, c) == Cardinality({x[1] : x \in ReportsOn(reports, c)})

\* A count was right when it was taken, and what is ever reported only grows; so a
\* handler that is past the threshold is so for good, whatever was forgotten.
ReportInv ==
    /\ filed \subseteq accused /\ accused \subseteq Reporters \X Contents
    /\ byReports \subseteq Contents
    /\ report \in [ReportCalls -> ReportStates]
    /\ \A h \in ReportCalls : report[h].pc # "idle" =>
          report[h].count <= Accusers(accused, report[h].content)
    /\ \A h \in ReportCalls : report[h].pc \in {"tombstone", "penalise"} => report[h].count >= Threshold
    /\ TombstoneJustified

\* More reports name at least as many reporters, and these are finitely many.
LEMMA MoreReports ==
  ASSUME NEW A \in SUBSET (Reporters \X Contents), NEW B \in SUBSET A, NEW c
  PROVE  LET S == {x[1] : x \in ReportsOn(A, c)}
             T == {x[1] : x \in ReportsOn(B, c)}
         IN  Cardinality(S) \in Nat /\ Cardinality(T) \in Nat /\ Cardinality(T) <= Cardinality(S)
<1> DEFINE S == {x[1] : x \in ReportsOn(A, c)}
           T == {x[1] : x \in ReportsOn(B, c)}
<1>1. S \subseteq Reporters /\ T \subseteq S
  BY Zenon DEF ReportsOn
<1>2. IsFiniteSet(S) /\ IsFiniteSet(T)
  BY <1>1, FS_Subset, ModerationAssumption, Zenon
<1> QED
  BY <1>1, <1>2, FS_Subset, FS_CardinalityType, Zenon

\* Nothing is reported yet.
LEMMA ReportInitInv == ModerationInit => ReportInv
<1> SUFFICES ASSUME ModerationInit PROVE ReportInv
  BY Zenon
<1>1. NoReport \in ReportStates /\ NoReport.pc = "idle"
  BY Zenon DEF ReportStates, NoReport
<1>2. report \in [ReportCalls -> ReportStates] /\ \A h \in ReportCalls : report[h].pc = "idle"
  BY <1>1, Zenon DEF ModerationInit
<1>3. TombstoneJustified
  BY Zenon DEF ModerationInit, TombstoneJustified
<1> QED
  BY <1>2, <1>3, Zenon DEF ModerationInit, ReportInv

\* Every step keeps the invariant.
LEMMA ReportStepInv == ReportInv /\ [ModerationNext]_moderationVars => ReportInv'
<1> SUFFICES ASSUME ReportInv, [ModerationNext]_moderationVars PROVE ReportInv'
  BY Zenon
<1> USE DEF ReportInv
<1>a. TombstoneJustified <=> \A c \in byReports : Accusers(accused, c) >= Threshold
  BY Zenon DEF TombstoneJustified, Accusers
<1>b. TombstoneJustified' <=> \A c \in byReports' : Accusers(accused', c) >= Threshold
  BY Zenon DEF TombstoneJustified, Accusers
<1>d. NoReport \in ReportStates /\ NoReport.pc = "idle"
  BY Zenon DEF ReportStates, NoReport
<1>1. CASE UNCHANGED moderationVars
  BY <1>1, Zenon DEF moderationVars, TombstoneJustified, Accusers
<1>2. ASSUME NEW h \in ReportCalls, NEW r \in Reporters, NEW c \in Contents, FileReport(h, r, c)
      PROVE  ReportInv'
  <2> DEFINE new == [pc |-> "persist", reporter |-> r, content |-> c, count |-> ReporterCount(filed', c)]
  <2>1. /\ filed' = filed \cup {<<r, c>>} /\ accused' = accused \cup {<<r, c>>}
        /\ report' = [report EXCEPT ![h] = new] /\ UNCHANGED byReports
    BY <1>2, Zenon DEF FileReport, CreateReport
  <2>2. filed' \subseteq accused' /\ accused \subseteq accused' /\ accused' \subseteq Reporters \X Contents
    BY <2>1
  <2>3. \A d : /\ Accusers(accused, d) \in Nat /\ Accusers(accused', d) \in Nat
               /\ Accusers(accused, d) <= Accusers(accused', d)
    BY <2>2, MoreReports, ZenonT(30) DEF Accusers
  <2>4. ReporterCount(filed', c) \in Nat /\ ReporterCount(filed', c) <= Accusers(accused', c)
    BY <2>2, MoreReports, Zenon DEF Accusers, ReporterCount
  <2>5. new \in ReportStates /\ new.pc = "persist" /\ new.content = c /\ new.count = ReporterCount(filed', c)
    BY <2>4, Zenon DEF ReportStates
  <2> HIDE DEF new
  <2>6. /\ report' \in [ReportCalls -> ReportStates] /\ report'[h] = new
        /\ \A g \in ReportCalls : g # h => report'[g] = report[g]
    BY <2>1, <2>5, Zenon
  <2>7. ASSUME NEW g \in ReportCalls, report'[g].pc # "idle"
        PROVE  report'[g].count <= Accusers(accused', report'[g].content)
    <3>1. CASE g = h
      BY <2>4, <2>5, <2>6, <3>1, Zenon
    <3>2. CASE g # h
      <4>1. report'[g] = report[g] /\ report[g] \in ReportStates
        BY <2>6, <3>2, Zenon
      <4>2. report[g].count <= Accusers(accused, report[g].content) /\ report[g].count \in Nat
        BY PendingReport, <2>7, <4>1, Zenon
      <4> QED
        BY <2>3, <4>1, <4>2
    <3> QED
      BY <3>1, <3>2, Zenon
  <2>8. \A g \in ReportCalls : report'[g].pc \in {"tombstone", "penalise"} => report'[g].count >= Threshold
    BY <2>5, <2>6, Zenon
  <2> HIDE DEF ReportInv
  <2>9. TombstoneJustified'
    <3>1. \A d \in byReports : Accusers(accused, d) >= Threshold
      BY <1>a, Zenon DEF ReportInv
    <3>2. \A d \in byReports : Accusers(accused', d) >= Threshold
      BY <2>3, <3>1, ModerationAssumption
    <3> QED
      BY <1>b, <2>1, <3>2, Zenon
  <2>10. \A g \in ReportCalls : (report[g].pc # "idle")' => (report[g].count <= Accusers(accused, report[g].content))'
    BY <2>7, Zenon
  <2> QED
    <3>1. byReports' \subseteq Contents
      BY <2>1, Zenon DEF ReportInv
    <3> QED
      BY <2>2, <2>6, <2>8, <2>9, <2>10, <3>1, Zenon DEF ReportInv
<1>3. ASSUME NEW h \in ReportCalls, Persist(h) PROVE ReportInv'
  <2> DEFINE next == IF report[h].count >= Threshold THEN [report[h] EXCEPT !.pc = "tombstone"] ELSE NoReport
  <2>1. /\ report[h].pc = "persist" /\ report' = [report EXCEPT ![h] = next]
        /\ UNCHANGED <<filed, accused, byReports>>
    BY <1>3, Zenon DEF Persist
  <2>2. /\ next \in ReportStates
        /\ next.pc # "idle" => /\ next.pc = "tombstone" /\ next.count = report[h].count
                               /\ next.content = report[h].content /\ report[h].count >= Threshold
    <3>1. report[h] \in ReportStates /\ report[h].pc # "idle"
      BY <2>1, Zenon
    <3> DEFINE n == [report[h] EXCEPT !.pc = "tombstone"]
    <3>2. n \in ReportStates /\ n.pc = "tombstone" /\ n.content = report[h].content /\ n.count = report[h].count
      BY <3>1, PendingReport, Zenon
    <3>3. CASE report[h].count >= Threshold
      BY <3>2, <3>3, Zenon
    <3>4. CASE ~(report[h].count >= Threshold)
      <4>1. next = NoReport
        BY <3>4, Zenon
      <4> QED
        BY <4>1, <1>d, Zenon
    <3> QED
      BY <3>3, <3>4, Zenon
  <2> HIDE DEF next
  <2>3. /\ report' \in [ReportCalls -> ReportStates] /\ report'[h] = next
        /\ \A g \in ReportCalls : g # h => report'[g] = report[g]
    BY <2>1, <2>2, Zenon
  <2>4. ASSUME NEW g \in ReportCalls, report'[g].pc # "idle"
        PROVE  /\ report'[g].count <= Accusers(accused, report'[g].content)
               /\ report'[g].pc \in {"tombstone", "penalise"} => report'[g].count >= Threshold
    <3>1. CASE g = h
      BY <2>1, <2>2, <2>3, <2>4, <3>1, Zenon
    <3>2. CASE g # h
      BY <2>3, <2>4, <3>2, Zenon
    <3> QED
      BY <3>1, <3>2, Zenon
  <2>5. TombstoneJustified'
    BY <1>a, <1>b, <2>1, Zenon
  <2>6. \A g \in ReportCalls : (report[g].pc # "idle")' => (report[g].count <= Accusers(accused, report[g].content))'
    BY <2>1, <2>4, Zenon
  <2> QED
    BY <2>1, <2>3, <2>4, <2>5, <2>6, Zenon
<1>4. ASSUME NEW h \in ReportCalls, TombstoneContent(h) PROVE ReportInv'
  <2> DEFINE next == [report[h] EXCEPT !.pc = "penalise"]
  <2>1. /\ report[h].pc = "tombstone" /\ report' = [report EXCEPT ![h] = next]
        /\ UNCHANGED <<filed, accused>>
        /\ byReports' \subseteq byReports \cup {report[h].content}
    BY <1>4, Zenon DEF TombstoneContent
  <2>2. /\ next \in ReportStates /\ next.pc = "penalise" /\ next.count = report[h].count
        /\ next.content = report[h].content /\ report[h].count >= Threshold
        /\ report[h].content \in Contents /\ report[h].count \in Nat
    <3>1. report[h] \in ReportStates /\ report[h].pc # "idle" /\ report[h].count >= Threshold
      BY <2>1, Zenon
    <3> QED
      BY <3>1, PendingReport, Zenon
  <2> HIDE DEF next
  <2>3. /\ report' \in [ReportCalls -> ReportStates] /\ report'[h] = next
        /\ \A g \in ReportCalls : g # h => report'[g] = report[g]
    BY <2>1, <2>2, Zenon
  <2>4. ASSUME NEW g \in ReportCalls, report'[g].pc # "idle"
        PROVE  /\ report'[g].count <= Accusers(accused, report'[g].content)
               /\ report'[g].pc \in {"tombstone", "penalise"} => report'[g].count >= Threshold
    <3>1. CASE g = h
      BY <2>1, <2>2, <2>3, <2>4, <3>1, Zenon
    <3>2. CASE g # h
      BY <2>3, <2>4, <3>2, Zenon
    <3> QED
      BY <3>1, <3>2, Zenon
  <2>5. TombstoneJustified'
    <3>1. report[h].count <= Accusers(accused, report[h].content)
      BY <2>1, Zenon
    <3>2. Accusers(accused, report[h].content) \in Nat
      BY MoreReports, Zenon DEF Accusers
    <3>3. Accusers(accused, report[h].content) >= Threshold
      BY <2>2, <3>1, <3>2, ModerationAssumption
    <3> QED
      BY <1>a, <1>b, <2>1, <3>3, Zenon
  <2>6. \A g \in ReportCalls : (report[g].pc # "idle")' => (report[g].count <= Accusers(accused, report[g].content))'
    BY <2>1, <2>4, Zenon
  <2> QED
    BY <2>1, <2>2, <2>3, <2>4, <2>5, <2>6, Zenon
<1>5. ASSUME NEW h \in ReportCalls, Penalise(h) PROVE ReportInv'
  <2>1. report' = [report EXCEPT ![h] = NoReport] /\ UNCHANGED <<filed, accused, byReports>>
    BY <1>5, Zenon DEF Penalise
  <2>2. /\ report' \in [ReportCalls -> ReportStates] /\ report'[h].pc = "idle"
        /\ \A g \in ReportCalls : g # h => report'[g] = report[g]
    BY <1>d, <2>1, Zenon
  <2>3. TombstoneJustified'
    BY <1>a, <1>b, <2>1, Zenon
  <2>4. \A g \in ReportCalls : (report[g].pc # "idle")' => (report[g].count <= Accusers(accused, report[g].content))'
    BY <2>1, <2>2, Zenon
  <2> QED
    BY <2>1, <2>2, <2>3, <2>4, Zenon
<1>6. ASSUME NEW c \in Contents, StoreContent(c) \/ PurgeContent(c) PROVE ReportInv'
  BY <1>6, Zenon DEF StoreContent, PurgeContent, TombstoneJustified, Accusers
<1>7. CASE Reboot
  <2>1. filed' = {} /\ report' = [h \in ReportCalls |-> NoReport] /\ UNCHANGED <<accused, byReports>>
    BY <1>7, Zenon DEF Reboot
  <2>2. TombstoneJustified'
    BY <1>a, <1>b, <2>1, Zenon
  <2> QED
    BY <1>d, <2>1, <2>2, Zenon
<1> QED
  BY <1>1, <1>2, <1>3, <1>4, <1>5, <1>6, <1>7, Zenon DEF ModerationNext

\* A post is hidden by reports only after Threshold different reporters have named
\* it, whatever calls overlap and however often the node forgets (report).
THEOREM TombstonesJustified == ModerationSpec => []TombstoneJustified
<1>1. ReportInv => TombstoneJustified
  BY Zenon DEF ReportInv
<1> QED
  BY <1>1, ReportInitInv, ReportStepInv, PTL DEF ModerationSpec

\* A handler that will mark content c.
Hiding(s, c) == s.pc \in {"persist", "tombstone"} /\ s.content = c /\ s.count >= Threshold

\* A post that enough reporters have named is off the feeds or a handler is on its way
\* to mark it; one without a row that reports never marked has not been named since it
\* could be.
HiddenInv ==
    /\ contentRow \in [Contents -> {"none", "live", "tomb"}]
    /\ \A c \in Contents : contentRow[c] = "tomb" => c \in byReports
    /\ \A c \in Contents \ (late \cup byReports) : contentRow[c] = "none" => ReportsOn(filed, c) = {}
    /\ \A c \in Contents \ late : Accusers(filed, c) >= Threshold =>
          contentRow[c] # "live" \/ \E h \in ReportCalls : Hiding(report[h], c)

\* No handler, no mark.
LEMMA IdleHidesNothing == \A c : ~Hiding(NoReport, c)
<1>1. NoReport.pc = "idle"
  BY Zenon DEF NoReport
<1> QED
  BY <1>1, Zenon DEF Hiding

\* Nobody's reports are too few.
LEMMA NoAccusers == ASSUME NEW R, NEW c, ReportsOn(R, c) = {} PROVE ~(Accusers(R, c) >= Threshold)
<1>1. {x[1] : x \in ReportsOn(R, c)} = {}
  BY Zenon
<1>2. Accusers(R, c) = 0
  BY <1>1, FS_EmptySet, Zenon DEF Accusers
<1> QED
  BY <1>2, ModerationAssumption

\* A step that leaves the reports and the handlers on their way alone.
LEMMA HiddenStays ==
    ASSUME HiddenInv, filed' = filed, late \subseteq late', byReports' = byReports, contentRow' = contentRow,
           \A c \in Contents \ late' : (\E h \in ReportCalls : Hiding(report[h], c)) =>
              \E h \in ReportCalls : Hiding(report'[h], c)
    PROVE  HiddenInv'
<1>1. \A c \in Contents \ late' : Accusers(filed', c) >= Threshold =>
         contentRow'[c] # "live" \/ \E h \in ReportCalls : Hiding(report'[h], c)
  BY Zenon DEF HiddenInv
<1>2. \A c \in Contents \ (late' \cup byReports') : contentRow'[c] = "none" => ReportsOn(filed', c) = {}
  BY Zenon DEF HiddenInv
<1> QED
  BY <1>1, <1>2, Zenon DEF HiddenInv, Hiding, Accusers, ReportsOn

\* Every step keeps the second invariant.
LEMMA HiddenStep == ReportInv /\ HiddenInv /\ [ModerationNext]_moderationVars => HiddenInv'
<1> SUFFICES ASSUME ReportInv, HiddenInv, [ModerationNext]_moderationVars PROVE HiddenInv'
  BY Zenon
<1>0. report \in [ReportCalls -> ReportStates] /\ byReports \subseteq Contents
  BY Zenon DEF ReportInv
<1>1. CASE UNCHANGED moderationVars
  BY <1>1, HiddenStays, Zenon DEF moderationVars
<1>2. ASSUME NEW h \in ReportCalls, NEW r \in Reporters, NEW c \in Contents, FileReport(h, r, c)
      PROVE  HiddenInv'
  <2> DEFINE new == [pc |-> "persist", reporter |-> r, content |-> c, count |-> ReporterCount(filed', c)]
  <2>1. /\ filed' = filed \cup {<<r, c>>} /\ report' = [report EXCEPT ![h] = new]
        /\ late' = IF contentRow[c] = "none" THEN late \cup {c} ELSE late
        /\ UNCHANGED <<contentRow, byReports>> /\ report[h] = NoReport
    BY <1>2, Zenon DEF FileReport, CreateReport
  <2>2. new.pc = "persist" /\ new.content = c /\ new.count = Accusers(filed', c)
    BY Zenon DEF ReporterCount, Accusers
  <2> HIDE DEF new
  <2>3. report'[h] = new /\ \A g \in ReportCalls : g # h => report'[g] = report[g]
    BY <1>0, <2>1, Zenon
  <2>4. \A d : ~Hiding(report[h], d)
    BY <2>1, IdleHidesNothing, Zenon
  <2>5. \A d : d # c => ReportsOn(filed', d) = ReportsOn(filed, d)
    BY <2>1 DEF ReportsOn
  <2>6. \A d \in Contents \ (late' \cup byReports') : contentRow'[d] = "none" => ReportsOn(filed', d) = {}
    BY <2>1, <2>5, Zenon DEF HiddenInv
  <2>7. ASSUME NEW d \in Contents \ late', Accusers(filed', d) >= Threshold
        PROVE  contentRow'[d] # "live" \/ \E g \in ReportCalls : Hiding(report'[g], d)
    <3>1. CASE d = c
      BY <2>2, <2>3, <2>7, <3>1, Zenon DEF Hiding
    <3>2. CASE d # c
      <4>1. Accusers(filed, d) >= Threshold /\ d \in Contents \ late
        BY <2>1, <2>5, <2>7, <3>2, Zenon DEF Accusers
      <4>2. contentRow[d] # "live" \/ \E g \in ReportCalls : Hiding(report[g], d)
        BY <4>1, Zenon DEF HiddenInv
      <4> QED
        BY <2>1, <2>3, <2>4, <4>2, Zenon
    <3> QED
      BY <3>1, <3>2, Zenon
  <2> QED
    BY <2>1, <2>6, <2>7, Zenon DEF HiddenInv, Hiding, Accusers, ReportsOn
<1>3. ASSUME NEW h \in ReportCalls, Persist(h) PROVE HiddenInv'
  <2> DEFINE next == IF report[h].count >= Threshold THEN [report[h] EXCEPT !.pc = "tombstone"] ELSE NoReport
  <2>1. /\ report[h].pc = "persist" /\ report' = [report EXCEPT ![h] = next]
        /\ UNCHANGED <<filed, contentRow, late, byReports>>
    BY <1>3, Zenon DEF Persist
  <2>2. report[h].count >= Threshold => /\ next.pc = "tombstone" /\ next.count = report[h].count
                                        /\ next.content = report[h].content
    BY PendingReport, <1>0, <2>1, Zenon
  <2> HIDE DEF next
  <2>3. report'[h] = next /\ \A g \in ReportCalls : g # h => report'[g] = report[g]
    BY <1>0, <2>1, Zenon
  <2>4. \A g \in ReportCalls : \A d : Hiding(report[g], d) => Hiding(report'[g], d)
    BY <2>2, <2>3, Zenon DEF Hiding
  <2> QED
    BY <2>1, <2>4, HiddenStays, Zenon
<1>4. ASSUME NEW h \in ReportCalls, TombstoneContent(h) PROVE HiddenInv'
  <2> DEFINE c == report[h].content
             next == [report[h] EXCEPT !.pc = "penalise"]
  <2>1. /\ report[h].pc = "tombstone" /\ report' = [report EXCEPT ![h] = next] /\ filed' = filed
        /\ \/ /\ contentRow' = [contentRow EXCEPT ![c] = IF @ = "none" THEN @ ELSE "tomb"]
              /\ byReports' = IF contentRow[c] = "none" THEN byReports ELSE byReports \cup {c}
              /\ late' = late
           \/ late' = late \cup {c} /\ UNCHANGED <<contentRow, byReports>>
    BY <1>4, Zenon DEF TombstoneContent
  <2>2. c \in Contents
    BY PendingReport, <1>0, <2>1, Zenon
  <2> HIDE DEF next
  <2>3. \A g \in ReportCalls : g # h => report'[g] = report[g]
    BY <1>0, <2>1, Zenon
  <2>4. \A g \in ReportCalls : \A d : d # c /\ Hiding(report[g], d) => Hiding(report'[g], d)
    BY <2>3, Zenon DEF Hiding
  <2> HIDE DEF c
  <2>5. CASE late' = late \cup {c} /\ UNCHANGED <<contentRow, byReports>>
    BY <2>1, <2>4, <2>5, HiddenStays, Zenon
  <2>6. CASE /\ contentRow' = [contentRow EXCEPT ![c] = IF @ = "none" THEN @ ELSE "tomb"]
             /\ byReports' = IF contentRow[c] = "none" THEN byReports ELSE byReports \cup {c}
             /\ late' = late
    <3>1. /\ contentRow' \in [Contents -> {"none", "live", "tomb"}] /\ contentRow'[c] # "live"
          /\ \A d \in Contents : d # c => contentRow'[d] = contentRow[d]
          /\ contentRow[c] = "none" => contentRow'[c] = "none"
          /\ contentRow[c] # "none" => contentRow'[c] = "tomb"
      BY <2>2, <2>6, Zenon DEF HiddenInv
    <3>2. \A d \in Contents : contentRow'[d] = "tomb" => d \in byReports'
      BY <2>6, <3>1, Zenon DEF HiddenInv
    <3>3. \A d \in Contents \ (late' \cup byReports') : contentRow'[d] = "none" => ReportsOn(filed, d) = {}
      BY <2>6, <3>1, Zenon DEF HiddenInv
    <3>4. \A d \in Contents \ late' : Accusers(filed, d) >= Threshold =>
             contentRow'[d] # "live" \/ \E g \in ReportCalls : Hiding(report'[g], d)
      BY <2>4, <2>6, <3>1, Zenon DEF HiddenInv
    <3> QED
      BY <2>1, <3>1, <3>2, <3>3, <3>4 DEF HiddenInv, Hiding, Accusers, ReportsOn
  <2> QED
    BY <2>1, <2>5, <2>6, Zenon DEF c
<1>5. ASSUME NEW h \in ReportCalls, Penalise(h) PROVE HiddenInv'
  <2>1. /\ report[h].pc = "penalise" /\ report' = [report EXCEPT ![h] = NoReport]
        /\ UNCHANGED <<filed, contentRow, late, byReports>>
    BY <1>5, Zenon DEF Penalise
  <2>2. \A g \in ReportCalls : g # h => report'[g] = report[g]
    BY <1>0, <2>1, Zenon
  <2>3. \A g \in ReportCalls : \A d : Hiding(report[g], d) => Hiding(report'[g], d)
    BY <2>1, <2>2, Zenon DEF Hiding
  <2> QED
    BY <2>1, <2>3, HiddenStays, Zenon
<1>6. ASSUME NEW c \in Contents, StoreContent(c) \/ PurgeContent(c) PROVE HiddenInv'
  <2>1. /\ \/ contentRow[c] = "none" /\ c \notin byReports /\ contentRow' = [contentRow EXCEPT ![c] = "live"]
           \/ contentRow[c] = "tomb" /\ contentRow' = [contentRow EXCEPT ![c] = "none"]
        /\ UNCHANGED <<filed, report, late, byReports>>
    BY <1>6, Zenon DEF StoreContent, PurgeContent
  <2>2. /\ contentRow' \in [Contents -> {"none", "live", "tomb"}] /\ contentRow'[c] # "tomb"
        /\ \A d \in Contents : d # c => contentRow'[d] = contentRow[d]
        /\ contentRow'[c] = "live" => contentRow[c] = "none" /\ c \notin byReports
        /\ contentRow'[c] = "none" => contentRow[c] = "tomb"
    BY <2>1, Zenon DEF HiddenInv
  <2>3. contentRow'[c] = "live" /\ c \notin late => ~(Accusers(filed, c) >= Threshold)
    BY <2>2, NoAccusers, Zenon DEF HiddenInv
  <2>4. \A d \in Contents : contentRow'[d] = "tomb" => d \in byReports
    BY <2>2, Zenon DEF HiddenInv
  <2>5. \A d \in Contents \ (late \cup byReports) : contentRow'[d] = "none" => ReportsOn(filed, d) = {}
    BY <2>2, Zenon DEF HiddenInv
  <2>6. \A d \in Contents \ late : Accusers(filed, d) >= Threshold =>
           contentRow'[d] # "live" \/ \E g \in ReportCalls : Hiding(report[g], d)
    BY <2>2, <2>3, Zenon DEF HiddenInv
  <2> QED
    BY <2>1, <2>2, <2>4, <2>5, <2>6 DEF HiddenInv, Hiding, Accusers, ReportsOn
<1>7. CASE Reboot
  <2>1. filed' = {} /\ UNCHANGED <<contentRow, late, byReports>>
    BY <1>7, Zenon DEF Reboot
  <2>2. \A d : ReportsOn(filed', d) = {}
    BY <2>1, Zenon DEF ReportsOn
  <2>3. \A d : ~(Accusers(filed', d) >= Threshold)
    BY <2>2, NoAccusers, Zenon
  <2> QED
    BY <2>1, <2>2, <2>3, Zenon DEF HiddenInv, Accusers, ReportsOn
<1> QED
  BY <1>1, <1>2, <1>3, <1>4, <1>5, <1>6, <1>7, Zenon DEF ModerationNext

\* Nothing is reported at first.
LEMMA HiddenInit == ModerationInit => HiddenInv
<1> SUFFICES ASSUME ModerationInit PROVE HiddenInv
  BY Zenon
<1>1. \A d : ReportsOn(filed, d) = {}
  BY Zenon DEF ModerationInit, ReportsOn
<1> QED
  BY <1>1, NoAccusers, Zenon DEF ModerationInit, HiddenInv

\* Once every call has ended nothing is on its way.
LEMMA HiddenImplies == HiddenInv => QuorumHides
<1> SUFFICES ASSUME HiddenInv, \A h \in ReportCalls : report[h] = NoReport,
                    NEW c \in Contents \ late, Accusers(filed, c) >= Threshold
             PROVE  contentRow[c] # "live"
  BY Zenon DEF QuorumHides, Accusers
<1>1. ~\E h \in ReportCalls : Hiding(report[h], c)
  BY IdleHidesNothing, Zenon
<1> QED
  BY <1>1, Zenon DEF HiddenInv

\* For any reporters, calls, contents and threshold: a post that a quorum has reported is
\* off the feeds once every call has ended, unless it came later or its UPDATE failed.
THEOREM QuorumAlwaysHides == ModerationSpec => []QuorumHides
  BY ReportInitInv, ReportStepInv, HiddenInit, HiddenStep, HiddenImplies, PTL DEF ModerationSpec

-----------------------------------------------------------------------------
\* Admission.

\* The actions let through since each of them, and what is left in the bucket, are
\* paid for by a full bucket and the time until the last refill.
BucketInv(b, times, at) ==
    /\ b \in [units : 0..Full, last_refill : 0..at]
    /\ times \in Seq(Nat)
    /\ \A i \in DOMAIN times :
          /\ times[i] <= b.last_refill
          /\ b.units + (Len(times) - i + 1) * TokenUnits
                <= Full + (b.last_refill - times[i]) * RefillRate
    /\ \A i, j \in DOMAIN times :
          i <= j => (j - i + 1) * TokenUnits <= Full + (times[j] - times[i]) * RefillRate

\* Every bucket is so, at every gate and for every author.
AdmissionInv ==
    /\ clock \in Nat
    /\ bucket \in [Gates -> [Authors -> [units : Nat, last_refill : Nat]]]
    /\ spent \in [Gates -> [Authors -> Seq(Nat)]]
    /\ \A g \in Gates, a \in Authors : BucketInv(bucket[g][a], spent[g][a], clock)

\* The amounts of the code are whole numbers.
LEMMA FullType == Full \in Nat
  BY AdmissionAssumption DEF Full

\* What a period brings is the sum of what its parts bring.
LEMMA Periods ==
  ASSUME NEW t \in Nat, NEW l \in Nat, NEW c \in Nat, t <= l, l <= c
  PROVE  /\ (c - t) * RefillRate = (c - l) * RefillRate + (l - t) * RefillRate
         /\ (c - t) * RefillRate \in Nat /\ (c - l) * RefillRate \in Nat /\ (l - t) * RefillRate \in Nat
  BY AdmissionAssumption

\* An action more costs a token more.
LEMMA OneMore ==
  ASSUME NEW n \in Nat, NEW i \in Nat, i <= n
  PROVE  /\ ((n + 1) - i + 1) * TokenUnits = (n - i + 1) * TokenUnits + TokenUnits
         /\ (n - i + 1) * TokenUnits \in Nat
  BY AdmissionAssumption

\* A refill keeps what BucketInv says: time that was not used is lost when the bucket
\* is full.
LEMMA RefillInv ==
  ASSUME NEW b, NEW times, clock \in Nat, BucketInv(b, times, clock)
  PROVE  BucketInv(Refill(b), times, clock) /\ Refill(b).last_refill = clock
<1> DEFINE gain == (clock - b.last_refill) * RefillRate
<1>1. b.units \in Nat /\ b.units <= Full /\ b.last_refill \in Nat /\ b.last_refill <= clock
  BY FullType DEF BucketInv
<1>2. gain \in Nat
  BY <1>1, AdmissionAssumption
<1>3. /\ Refill(b) = [units |-> Smaller(b.units + gain, Full), last_refill |-> clock]
      /\ Smaller(b.units + gain, Full) \in 0..Full
      /\ Smaller(b.units + gain, Full) <= b.units + gain
  BY <1>1, <1>2, FullType DEF Refill, Smaller
<1>4. ASSUME NEW i \in DOMAIN times
      PROVE  /\ times[i] <= clock
             /\ Smaller(b.units + gain, Full) + (Len(times) - i + 1) * TokenUnits
                   <= Full + (clock - times[i]) * RefillRate
  <2>1. /\ times[i] \in Nat /\ i \in Nat /\ i <= Len(times) /\ Len(times) \in Nat
        /\ times[i] <= b.last_refill
        /\ b.units + (Len(times) - i + 1) * TokenUnits
              <= Full + (b.last_refill - times[i]) * RefillRate
    BY DEF BucketInv
  <2>2. /\ (clock - times[i]) * RefillRate = gain + (b.last_refill - times[i]) * RefillRate
        /\ (b.last_refill - times[i]) * RefillRate \in Nat
    BY <1>1, <2>1, Periods, Zenon
  <2>3. (Len(times) - i + 1) * TokenUnits \in Nat
    BY <2>1, OneMore, Zenon
  <2> DEFINE u == Smaller(b.units + gain, Full)
             cost == (Len(times) - i + 1) * TokenUnits
             brought == (b.last_refill - times[i]) * RefillRate
             total == (clock - times[i]) * RefillRate
  <2>4. u \in Nat /\ u <= b.units + gain
    BY <1>3, FullType
  <2>5. times[i] <= clock
    BY <1>1, <2>1
  <2>7. /\ cost \in Nat /\ brought \in Nat /\ total = gain + brought
        /\ b.units + cost <= Full + brought
    BY <2>1, <2>2, <2>3, Zenon
  <2> HIDE DEF gain, u, cost, brought, total
  <2>6. u + cost <= Full + total
    BY <1>1, <1>2, <2>4, <2>7, FullType
  <2> QED
    BY <2>5, <2>6, Zenon DEF u, cost, total
<1> HIDE DEF gain
<1>5. /\ Refill(b).units = Smaller(b.units + gain, Full) /\ Refill(b).last_refill = clock
      /\ Refill(b) \in [units : 0..Full, last_refill : 0..clock]
  BY <1>3
<1> QED
  BY <1>4, <1>5, Zenon DEF BucketInv

\* A token that is taken is one action more.
LEMMA ConsumeInv ==
  ASSUME NEW b, NEW times, clock \in Nat, BucketInv(b, times, clock), b.last_refill = clock,
         b.units >= TokenUnits
  PROVE  BucketInv([b EXCEPT !.units = @ - TokenUnits], Append(times, clock), clock)
<1> DEFINE n == Len(times)
           c == [b EXCEPT !.units = @ - TokenUnits]
           more == Append(times, clock)
<1>1. b.units \in Nat /\ b.units <= Full /\ TokenUnits \in Nat /\ Full \in Nat
  BY FullType, AdmissionAssumption DEF BucketInv
<1>2. /\ c.units = b.units - TokenUnits /\ c.last_refill = clock
      /\ c \in [units : 0..Full, last_refill : 0..clock]
  <2>1. b \in [units : 0..Full, last_refill : 0..clock]
    BY Zenon DEF BucketInv
  <2>2. b.units - TokenUnits \in 0..Full
    BY <1>1
  <2> QED
    BY <2>1, <2>2, Zenon
<1>3. /\ times \in Seq(Nat) /\ n \in Nat /\ DOMAIN times = 1..n
      /\ more \in Seq(Nat) /\ Len(more) = n + 1 /\ DOMAIN more = 1..(n + 1)
      /\ more[n + 1] = clock /\ \A i \in 1..n : more[i] = times[i] /\ times[i] \in Nat
  BY DEF BucketInv
<1> HIDE DEF c, more, n
<1>4. ASSUME NEW i \in 1..(n + 1)
      PROVE  /\ more[i] <= clock
             /\ c.units + ((n + 1) - i + 1) * TokenUnits <= Full + (clock - more[i]) * RefillRate
  <2>1. CASE i = n + 1
    <3>1. ((n + 1) - i + 1) * TokenUnits = TokenUnits
      BY <1>1, <1>3, <2>1
    <3>2. (clock - more[i]) * RefillRate = 0
      BY <1>3, <2>1, AdmissionAssumption
    <3> QED
      <4>1. more[i] = clock
        BY <1>3, <2>1, Zenon
      <4> DEFINE cost == ((n + 1) - i + 1) * TokenUnits
                 brought == (clock - more[i]) * RefillRate
      <4>2. cost = TokenUnits /\ brought = 0
        BY <3>1, <3>2, Zenon
      <4> HIDE DEF cost, brought
      <4>3. c.units + cost <= Full + brought
        BY <1>1, <1>2, <4>2
      <4> QED
        BY <4>1, <4>3 DEF cost, brought
  <2>2. CASE i \in 1..n
    <3>1. /\ times[i] <= clock
          /\ b.units + (n - i + 1) * TokenUnits <= Full + (clock - times[i]) * RefillRate
      BY <1>3, <2>2, Zenon DEF BucketInv, n
    <3>2. /\ ((n + 1) - i + 1) * TokenUnits = (n - i + 1) * TokenUnits + TokenUnits
          /\ (n - i + 1) * TokenUnits \in Nat
      <4>1. n \in Nat /\ i \in Nat /\ i <= n
        BY <1>3, <2>2
      <4> QED
        BY <4>1, OneMore, Zenon
    <3>3. more[i] = times[i]
      BY <1>3, <2>2, Zenon
    <3> DEFINE cost == (n - i + 1) * TokenUnits
               cost1 == ((n + 1) - i + 1) * TokenUnits
               brought == (clock - times[i]) * RefillRate
    <3>4. cost \in Nat /\ cost1 = cost + TokenUnits /\ b.units + cost <= Full + brought
      BY <3>1, <3>2, Zenon
    <3> HIDE DEF cost, cost1, brought
    <3>5. c.units + cost1 <= Full + brought
      BY <1>1, <1>2, <3>4
    <3> QED
      BY <3>1, <3>3, <3>5, Zenon DEF cost1, brought
  <2> QED
    BY <1>3, <2>1, <2>2
<1>5. ASSUME NEW i \in 1..(n + 1), NEW j \in 1..(n + 1), i <= j
      PROVE  (j - i + 1) * TokenUnits <= Full + (more[j] - more[i]) * RefillRate
  <2>1. CASE j \in 1..n
    <3>1. i \in DOMAIN times /\ j \in DOMAIN times /\ more[i] = times[i] /\ more[j] = times[j]
      BY <1>3, <1>5, <2>1
    <3>2. (j - i + 1) * TokenUnits <= Full + (times[j] - times[i]) * RefillRate
      BY <1>5, <3>1, Zenon DEF BucketInv
    <3> QED
      BY <3>1, <3>2, Zenon
  <2>2. CASE j = n + 1
    <3>1. c.units + ((n + 1) - i + 1) * TokenUnits <= Full + (clock - more[i]) * RefillRate
      BY <1>4, Zenon
    <3>2. more[i] \in Nat /\ more[i] <= clock
      BY <1>3, <1>4
    <3>3. (clock - more[i]) * RefillRate \in Nat
      BY <3>2, AdmissionAssumption
    <3>4. ((n + 1) - i + 1) * TokenUnits \in Nat
      BY <1>1, <1>3
    <3>5. c.units \in Nat
      BY <1>1, <1>2
    <3> DEFINE cost == ((n + 1) - i + 1) * TokenUnits
               brought == (clock - more[i]) * RefillRate
    <3>6. cost \in Nat /\ brought \in Nat /\ c.units + cost <= Full + brought
      BY <3>1, <3>3, <3>4, Zenon
    <3> HIDE DEF cost, brought
    <3>7. cost <= Full + brought
      BY <1>1, <3>5, <3>6
    <3> QED
      BY <1>3, <2>2, <3>7, Zenon DEF cost, brought
  <2> QED
    BY <1>3, <2>1, <2>2
<1> QED
  BY <1>2, <1>3, <1>4, <1>5, Zenon DEF BucketInv, c, more

\* Every bucket is full and nothing is spent.
LEMMA AdmissionInitInv == AdmissionInit => AdmissionInv
<1> SUFFICES ASSUME AdmissionInit PROVE AdmissionInv
  BY Zenon
<1> DEFINE b == [units |-> Full, last_refill |-> 0]
<1>1. b \in [units : Nat, last_refill : Nat] /\ BucketInv(b, <<>>, 0)
  BY FullType DEF BucketInv
<1>2. \A g \in Gates, a \in Authors : bucket[g][a] = b /\ spent[g][a] = <<>>
  BY Zenon DEF AdmissionInit
<1>3. bucket \in [Gates -> [Authors -> [units : Nat, last_refill : Nat]]]
  BY <1>1, Zenon DEF AdmissionInit
<1>4. spent \in [Gates -> [Authors -> Seq(Nat)]] /\ clock = 0
  BY DEF AdmissionInit
<1> HIDE DEF b
<1> QED
  BY <1>1, <1>2, <1>3, <1>4, Zenon DEF AdmissionInv

\* Every step keeps the invariant; time and RateCheck are the ones that matter.
LEMMA AdmissionStepInv == AdmissionInv /\ [AdmissionNext]_admissionVars => AdmissionInv'
<1> SUFFICES ASSUME AdmissionInv, [AdmissionNext]_admissionVars PROVE AdmissionInv'
  BY Zenon
<1>1. CASE UNCHANGED <<clock, bucket, spent>>
  BY <1>1, Zenon DEF AdmissionInv
<1>2. CASE TickClock
  <2>1. clock \in Nat /\ clock' = clock + 1 /\ UNCHANGED <<bucket, spent>>
    BY <1>2, Zenon DEF TickClock, AdmissionInv
  <2>2. ASSUME NEW b, NEW times, BucketInv(b, times, clock) PROVE BucketInv(b, times, clock')
    BY <2>1, <2>2 DEF BucketInv
  <2> QED
    BY <2>1, <2>2 DEF AdmissionInv
<1>3. ASSUME NEW h \in Handlers, RateCheck(h) PROVE AdmissionInv'
  <2> DEFINE g == GateOf(h)
             a == call[h].author
             old == bucket[g][a]
             allowed == Allows(old)
             times == IF allowed THEN Append(spent[g][a], clock) ELSE spent[g][a]
  <2>1. /\ g \in Gates /\ clock' = clock /\ clock \in Nat
        /\ bucket' = [bucket EXCEPT ![g][a] = TryConsume(old)]
        /\ spent' = [spent EXCEPT ![g][a] = times]
    BY <1>3, Zenon DEF RateCheck, GateOf, Gates, AdmissionInv
  <2>2. CASE a \in Authors
    <3>1. BucketInv(old, spent[g][a], clock)
      BY <2>1, <2>2, Zenon DEF AdmissionInv
    <3>2. BucketInv(TryConsume(old), times, clock)
      <4>1. BucketInv(Refill(old), spent[g][a], clock) /\ Refill(old).last_refill = clock
        BY <2>1, <3>1, RefillInv, Zenon
      <4>2. CASE allowed
        <5>1. Refill(old).units >= TokenUnits
          BY <4>2, Zenon DEF Allows
        <5>2. BucketInv([Refill(old) EXCEPT !.units = @ - TokenUnits], Append(spent[g][a], clock), clock)
          BY <2>1, <4>1, <5>1, ConsumeInv, Zenon
        <5> QED
          BY <4>2, <5>2, Zenon DEF TryConsume
      <4>3. CASE ~allowed
        BY <4>1, <4>3, Zenon DEF TryConsume
      <4> QED
        BY <4>2, <4>3, Zenon
    <3>3. TryConsume(old) \in [units : Nat, last_refill : Nat] /\ times \in Seq(Nat)
      <4>1. ASSUME NEW b, NEW ts, BucketInv(b, ts, clock)
            PROVE  b \in [units : Nat, last_refill : Nat] /\ ts \in Seq(Nat)
        BY <2>1, <4>1, FullType DEF BucketInv
      <4> HIDE DEF g, a, old, allowed, times
      <4> QED
        BY <3>2, <4>1, Zenon
    <3> HIDE DEF g, a, old, allowed, times
    <3>4. /\ bucket' \in [Gates -> [Authors -> [units : Nat, last_refill : Nat]]]
          /\ spent' \in [Gates -> [Authors -> Seq(Nat)]]
          /\ bucket'[g][a] = TryConsume(old) /\ spent'[g][a] = times
          /\ \A k \in Gates, b \in Authors : <<k, b>> # <<g, a>> =>
                bucket'[k][b] = bucket[k][b] /\ spent'[k][b] = spent[k][b]
      BY <2>1, <2>2, <3>3, Zenon DEF AdmissionInv
    <3>5. ASSUME NEW k \in Gates, NEW b \in Authors
          PROVE  BucketInv(bucket'[k][b], spent'[k][b], clock')
      BY <2>1, <3>2, <3>4 DEF AdmissionInv
    <3> QED
      BY <2>1, <3>4, <3>5, Zenon DEF AdmissionInv
  <2>3. CASE a \notin Authors
    <3> HIDE DEF a, old, allowed, times
    <3>1. bucket' = bucket /\ spent' = spent
      BY <2>1, <2>3 DEF AdmissionInv
    <3> QED
      BY <2>1, <3>1, Zenon DEF AdmissionInv
  <2> QED
    BY <2>2, <2>3, Zenon
<1> QED
  BY <1>1, <1>2, <1>3, Zenon DEF AdmissionNext, admissionVars, Arrives, MediaGate, SpamCheck, FilterAndStore

\* However posts and pauses follow each other, in no interval does a gate let more
\* actions of an author through than a full bucket and what the interval brings
\* (RateLimiter::check).
THEOREM RateAlwaysBounded == AdmissionSpec => []RateBounded
<1>1. AdmissionInv => RateBounded
  BY Zenon DEF AdmissionInv, BucketInv, RateBounded
<1> QED
  BY <1>1, AdmissionInitInv, AdmissionStepInv, PTL DEF AdmissionSpec

Prints == SUBSET BitPositions
Verdicts == [fp : Prints, passed : BOOLEAN]

\* The window has the last fingerprints of those seen, as many as it holds.
Window(w, s) ==
    /\ w \in Seq(Prints) /\ s \in Seq(Verdicts)
    /\ Len(w) = Smaller(Len(s), WindowSize)
    /\ \A k \in DOMAIN w : w[k] = s[Len(s) - Len(w) + k].fp

\* Of the fingerprints seen no two near ones passed within a window.
Apart(s) ==
    \A i, j \in DOMAIN s :
       i < j /\ s[j].passed /\ HammingDistance(s[i].fp, s[j].fp) <= NearDistance => j - i > WindowSize

TwinInv ==
    /\ DOMAIN recent = Gates /\ DOMAIN seen = Gates
    /\ \A g \in Gates : Window(recent[g], seen[g]) /\ Apart(seen[g])

\* The distance goes both ways.
LEMMA DistanceSymmetric == ASSUME NEW x, NEW y PROVE HammingDistance(x, y) = HammingDistance(y, x)
<1>1. (x \ y) \cup (y \ x) = (y \ x) \cup (x \ y)
  BY Zenon
<1> QED
  BY <1>1, Zenon DEF HammingDistance

\* The window moves on with the fingerprints seen.
LEMMA RecordMoves ==
    ASSUME NEW w, NEW s, Window(w, s), NEW fp \in Prints, NEW e \in Verdicts, e.fp = fp
    PROVE  Window(Record(w, fp), Append(s, e))
<1>1. /\ w \in Seq(Prints) /\ s \in Seq(Verdicts) /\ Len(w) \in Nat /\ Len(s) \in Nat
      /\ Len(w) = Smaller(Len(s), WindowSize) /\ WindowSize \in Nat /\ WindowSize > 0
  BY AdmissionAssumption DEF Window
<1>2. /\ Append(s, e) \in Seq(Verdicts) /\ Len(Append(s, e)) = Len(s) + 1
      /\ Append(s, e)[Len(s) + 1] = e /\ \A i \in 1 .. Len(s) : Append(s, e)[i] = s[i]
  BY <1>1
<1>3. CASE Len(w) < WindowSize
  <2>1. Record(w, fp) = Append(w, fp) /\ Len(w) = Len(s)
    BY <1>1, <1>3 DEF Record, Smaller
  <2>2. /\ Append(w, fp) \in Seq(Prints) /\ Len(Append(w, fp)) = Len(w) + 1
        /\ Append(w, fp)[Len(w) + 1] = fp /\ \A i \in 1 .. Len(w) : Append(w, fp)[i] = w[i]
    BY <1>1
  <2>3. Len(w) + 1 = Smaller(Len(s) + 1, WindowSize)
    BY <1>1, <1>3, <2>1, SMTT(30) DEF Smaller
  <2>4. \A k \in 1 .. Len(w) : w[k] = s[k].fp
    BY <1>1, <2>1 DEF Window
  <2>5. \A k \in 1 .. Len(w) + 1 : Append(w, fp)[k] = Append(s, e)[k].fp
    BY <1>1, <1>2, <2>1, <2>2, <2>4
  <2>6. \A k \in DOMAIN Append(w, fp) :
           Append(w, fp)[k] = Append(s, e)[Len(Append(s, e)) - Len(Append(w, fp)) + k].fp
    BY <1>1, <1>2, <2>1, <2>2, <2>5, SMTT(30)
  <2> QED
    BY <1>2, <2>1, <2>2, <2>3, <2>6, Zenon DEF Window
<1>4. CASE Len(w) >= WindowSize
  <2> DEFINE t == Tail(w)
             v == Append(t, fp)
  <2>1. Record(w, fp) = v /\ Len(w) = WindowSize /\ Len(s) >= WindowSize
    BY <1>1, <1>4 DEF Record, Smaller
  <2>2. t \in Seq(Prints) /\ Len(t) = Len(w) - 1 /\ \A k \in 1 .. Len(w) - 1 : t[k] = w[k + 1]
    BY <1>1, <2>1
  <2> HIDE DEF t
  <2>3. v \in Seq(Prints) /\ Len(v) = Len(w) /\ v[Len(w)] = fp /\ \A k \in 1 .. Len(w) - 1 : v[k] = w[k + 1]
    BY <1>1, <2>1, <2>2
  <2> HIDE DEF v
  <2>4. Len(v) = Smaller(Len(s) + 1, WindowSize)
    BY <1>1, <2>1, <2>3 DEF Smaller
  <2>5. ASSUME NEW k \in 1 .. Len(w) PROVE v[k] = Append(s, e)[Len(s) + 1 - Len(w) + k].fp
    <3>1. CASE k = Len(w)
      BY <1>1, <1>2, <2>3, <3>1
    <3>2. CASE k # Len(w)
      <4>1. k \in 1 .. Len(w) - 1 /\ k + 1 \in 1 .. Len(w) /\ Len(s) - Len(w) + (k + 1) \in 1 .. Len(s)
        BY <1>1, <2>1, <3>2
      <4>2. v[k] = s[Len(s) - Len(w) + (k + 1)].fp
        BY <1>1, <2>3, <4>1 DEF Window
      <4>3. Len(s) - Len(w) + (k + 1) = Len(s) + 1 - Len(w) + k
        BY <1>1
      <4> QED
        BY <1>2, <4>1, <4>2, <4>3, Zenon
    <3> QED
      BY <3>1, <3>2, Zenon
  <2>6. \A k \in DOMAIN v : v[k] = Append(s, e)[Len(Append(s, e)) - Len(v) + k].fp
    <3>1. DOMAIN v = 1 .. Len(w) /\ Len(v) = Len(w) /\ Len(Append(s, e)) = Len(s) + 1
      BY <1>2, <2>3
    <3>2. ASSUME NEW k \in DOMAIN v PROVE v[k] = Append(s, e)[Len(Append(s, e)) - Len(v) + k].fp
      <4>1. k \in 1 .. Len(w)
        BY <3>1, Zenon
      <4>2. v[k] = Append(s, e)[Len(s) + 1 - Len(w) + k].fp
        BY <2>5, <4>1, Zenon
      <4>3. Len(Append(s, e)) - Len(v) + k = Len(s) + 1 - Len(w) + k
        BY <1>1, <3>1, <4>1
      <4> QED
        BY <4>2, <4>3, Zenon
    <3> QED
      BY <3>2, Zenon
  <2> QED
    BY <1>2, <2>1, <2>3, <2>4, <2>6, Zenon DEF Window
<1> QED
  BY <1>1, <1>3, <1>4

\* A fingerprint that passes is near none in the window.
LEMMA StaysApart ==
    ASSUME NEW w, NEW s, Window(w, s), Apart(s), NEW e \in Verdicts,
           e.passed => \A k \in DOMAIN w : ~NearDuplicate(e.fp, w[k])
    PROVE  Apart(Append(s, e))
<1>1. /\ w \in Seq(Prints) /\ s \in Seq(Verdicts) /\ Len(w) \in Nat /\ Len(s) \in Nat
      /\ Len(w) = Smaller(Len(s), WindowSize) /\ WindowSize \in Nat
  BY AdmissionAssumption DEF Window
<1> DEFINE z == Append(s, e)
<1>2. /\ Len(z) = Len(s) + 1 /\ DOMAIN z = 1 .. Len(s) + 1 /\ DOMAIN s = 1 .. Len(s)
      /\ z[Len(s) + 1] = e /\ \A i \in 1 .. Len(s) : z[i] = s[i]
  BY <1>1, SMTT(30)
<1> HIDE DEF z
<1> SUFFICES ASSUME NEW i \in DOMAIN z, NEW j \in DOMAIN z, i < j, z[j].passed,
                    HammingDistance(z[i].fp, z[j].fp) <= NearDistance
             PROVE  j - i > WindowSize
  BY Zenon DEF Apart, z
<1>3. CASE j \in 1 .. Len(s)
  <2>1. i \in 1 .. Len(s) /\ z[i] = s[i] /\ z[j] = s[j]
    BY <1>1, <1>2, <1>3, SMTT(30)
  <2> QED
    BY <1>2, <1>3, <2>1, Zenon DEF Apart
<1>4. CASE j = Len(s) + 1
  <2>1. i \in 1 .. Len(s) /\ z[i] = s[i] /\ z[j] = e
    BY <1>1, <1>2, <1>4
  <2> SUFFICES ASSUME ~(j - i > WindowSize) PROVE FALSE
    BY Zenon
  <2> DEFINE k == i - (Len(s) - Len(w))
  <2>2. k \in 1 .. Len(w) /\ Len(s) - Len(w) + k = i
    BY <1>1, <1>4, <2>1 DEF Smaller
  <2> HIDE DEF k
  <2>3. w[k] = s[i].fp /\ k \in DOMAIN w
    BY <1>1, <2>2, SMTT(30) DEF Window
  <2>4. ~NearDuplicate(e.fp, s[i].fp)
    BY <2>1, <2>3, Zenon
  <2> QED
    BY <2>1, <2>4, DistanceSymmetric, Zenon DEF NearDuplicate
<1> QED
  BY <1>1, <1>2, <1>3, <1>4, SMTT(30)

\* Every step keeps the windows and what they guard.
LEMMA TwinStep == TwinInv /\ [AdmissionNext]_admissionVars => TwinInv'
<1> SUFFICES ASSUME TwinInv, [AdmissionNext]_admissionVars PROVE TwinInv'
  BY Zenon
<1>1. ASSUME UNCHANGED <<recent, seen>> PROVE TwinInv'
  BY <1>1, Zenon DEF TwinInv, Window, Apart
<1>2. ASSUME NEW c \in Handlers, SpamCheck(c) PROVE TwinInv'
  <2> DEFINE g == GateOf(c)
             fp == Compute(Bodies[call[c].body])
             e == [fp |-> fp, passed |-> ~CheckDuplicate(g, fp)]
  <2>1. recent' = [recent EXCEPT ![g] = Record(@, fp)] /\ seen' = [seen EXCEPT ![g] = Append(@, e)]
    BY <1>2, Zenon DEF SpamCheck
  <2>2. g \in Gates
    BY Zenon DEF GateOf, Gates
  <2>3. fp \in Prints
    BY Zenon DEF Compute, Prints
  <2>4. e \in Verdicts /\ e.fp = fp /\ e.passed = ~CheckDuplicate(g, fp)
    BY <2>3, Zenon DEF Verdicts, CheckDuplicate
  <2> HIDE DEF e, fp, g
  <2>5. e.passed => \A k \in DOMAIN recent[g] : ~NearDuplicate(e.fp, recent[g][k])
    BY <2>4, Zenon DEF CheckDuplicate
  <2>6. Window(recent[g], seen[g]) /\ Apart(seen[g])
    BY <2>2, Zenon DEF TwinInv
  <2>7. Window(Record(recent[g], fp), Append(seen[g], e))
    BY <2>3, <2>4, <2>6, RecordMoves, Zenon
  <2>8. Apart(Append(seen[g], e))
    BY <2>4, <2>5, <2>6, StaysApart, Zenon
  <2>9. /\ DOMAIN recent' = Gates /\ DOMAIN seen' = Gates
        /\ recent'[g] = Record(recent[g], fp) /\ seen'[g] = Append(seen[g], e)
        /\ \A f \in Gates : f # g => recent'[f] = recent[f] /\ seen'[f] = seen[f]
    BY <2>1, <2>2, Zenon DEF TwinInv
  <2>10. \A f \in Gates : Window(recent'[f], seen'[f]) /\ Apart(seen'[f])
    BY <2>7, <2>8, <2>9, Zenon DEF TwinInv
  <2> QED
    BY <2>9, <2>10, Zenon DEF TwinInv, Window, Apart
<1>3. CASE TickClock
  BY <1>1, <1>3, Zenon DEF TickClock
<1>4. ASSUME NEW c \in Handlers, NEW a \in Authors, NEW b \in DOMAIN Bodies, NEW media \in BOOLEAN,
             Arrives(c, a, b, media)
      PROVE  TwinInv'
  BY <1>1, <1>4, Zenon DEF Arrives
<1>5. ASSUME NEW c \in Handlers, RateCheck(c) \/ MediaGate(c) \/ FilterAndStore(c) PROVE TwinInv'
  BY <1>1, <1>5, Zenon DEF RateCheck, MediaGate, FilterAndStore
<1>6. CASE UNCHANGED admissionVars
  BY <1>1, <1>6, Zenon DEF admissionVars
<1> QED
  BY <1>2, <1>3, <1>4, <1>5, <1>6, Zenon DEF AdmissionNext

\* Nothing is seen at first.
LEMMA TwinStart == AdmissionInit => TwinInv
<1> SUFFICES ASSUME AdmissionInit PROVE TwinInv
  BY Zenon
<1>1. Window(<<>>, <<>>) /\ Apart(<<>>)
  BY AdmissionAssumption DEF Window, Apart, Smaller
<1> QED
  BY <1>1, Zenon DEF AdmissionInit, TwinInv

\* For any texts, windows, gates and calls: of two near texts within a window only the
\* first passes a gate.
THEOREM NearTwinsRefused == AdmissionSpec => []NoNearTwins
<1>1. TwinInv => NoNearTwins
  BY Zenon DEF TwinInv, Apart, NoNearTwins
<1> QED
  BY <1>1, TwinStart, TwinStep, PTL DEF AdmissionSpec

=============================================================================
