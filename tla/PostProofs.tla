----------------------------- MODULE PostProofs -----------------------------
(***************************************************************************)
(* Proofs about posts and their media:                                     *)
(*   - posts, for any set of posts, lifetimes, skew and pauses: a          *)
(*     tombstoned post is never shown again, a tombstone is forgotten only *)
(*     once its post is unacceptable, unexpired posts keep their blobs     *)
(*   - media, for any posts and files: chunks have an owner, the sweep     *)
(*     leaves nothing, thumbnails stay                                     *)
(***************************************************************************)
EXTENDS PostStore, Media, TLAPS

\* A post nobody published is unknown here.
UnpublishedUnknown ==
    \A p \in Remote \ published :
       status[p] = "absent" /\ ingest.post # p /\ p \notin everTomb

\* A post between its blob and its row is new.
CreatingFresh ==
    creating.pc = "insert" =>
       /\ creating.post \in Local \ (published \cup everTomb)
       /\ status[creating.post] = "absent"
       /\ creating.post \in blobs

\* What validate_post found still holds, up to the pause of the handler.
IngestValid ==
    ingest.post # None =>
       /\ ingest.post \in published
       /\ created[ingest.post] <= ingest.at + Skew
       /\ ingest.at <= created[ingest.post] + Ttl[ingest.post] + Skew
       /\ ingest.at <= now /\ now <= ingest.at + Stall
       /\ status[ingest.post] = "absent" => ingest.post \in blobs

ModeratingRecent ==
    moderating.post # None => moderating.at <= now /\ now <= moderating.at + Stall

\* The batch of a sweep stays expired and present until it is marked.
SweepValid ==
    /\ gc.at <= now
    /\ gc.pc = "delete" =>
         \A p \in gc.batch : /\ status[p] # "absent"
                             /\ created[p] <= gc.at + Skew
                             /\ expires[p] < gc.at
    /\ gc.todo \subseteq gc.batch

\* Rows are not from the future, and neither are tombstones.
RowsDated ==
    \A p \in Posts :
       /\ status[p] # "absent" => created[p] <= now + Skew
       /\ status[p] = "tombstone" => created[p] <= tombAt[p] + Skew + Stall

\* What has been forgotten can no longer be accepted.
ForgottenUnacceptable ==
    \A p \in everTomb :
       status[p] = "absent" => created[p] + Ttl[p] + Skew + Stall < now

IInv ==
    /\ TypeOK
    /\ UnpublishedUnknown
    /\ CreatingFresh
    /\ IngestValid
    /\ ModeratingRecent
    /\ SweepValid
    /\ RowsDated
    /\ ForgottenUnacceptable
    /\ NoResurrection
    /\ UnexpiredHasBlob

-----------------------------------------------------------------------------
\* What the steps use of the assumptions on the constants.
LEMMA ConstantFacts ==
    /\ Skew \in Nat /\ Stall \in Nat /\ None \notin Posts
    /\ Local \cap Remote = {}
    /\ \A p \in Posts : Ttl[p] \in Nat /\ Skew + Stall <= Ttl[p]
BY ConstantsAssumption, TtlAssumption, Zenon

\* The node starts with an empty database and idle activities.
LEMMA InitInv == Init => IInv
<1> SUFFICES ASSUME Init PROVE IInv
  BY Zenon
<1> USE ConstantFacts DEF Init, NoCreate, NoOp, NoSweep
<1>1. TypeOK
  BY Zenon DEF TypeOK
<1>2. UnpublishedUnknown /\ CreatingFresh /\ IngestValid /\ ModeratingRecent
  BY Zenon DEF UnpublishedUnknown, CreatingFresh, IngestValid, ModeratingRecent,
     Posts
<1>3. SweepValid /\ RowsDated /\ ForgottenUnacceptable
  BY DEF SweepValid, RowsDated, ForgottenUnacceptable
<1>4. NoResurrection /\ UnexpiredHasBlob
  BY Zenon DEF NoResurrection, UnexpiredHasBlob
<1> QED
  BY <1>1, <1>2, <1>3, <1>4, Zenon DEF IInv

\* Tick: time passes: the pause of every handler stays within Stall.
LEMMA TickInv ==
    ASSUME IInv, Tick
    PROVE  IInv'
<1> USE ConstantFacts DEF IInv, Tick, Paused, TypeOK, Posts, network, rows,
        bounds
<1>1. TypeOK'
  BY ConstantsAssumption
<1>2. IngestValid'
  BY DEF IngestValid
<1>3. ModeratingRecent'
  BY DEF ModeratingRecent
<1>4. SweepValid'
  BY DEF SweepValid
<1>5. RowsDated'
  BY DEF RowsDated
<1>6. ForgottenUnacceptable'
  BY DEF ForgottenUnacceptable
<1>7. UnexpiredHasBlob'
  BY DEF UnexpiredHasBlob
<1>8. UnpublishedUnknown' /\ CreatingFresh' /\ NoResurrection'
  BY Zenon DEF UnpublishedUnknown, CreatingFresh, NoResurrection
<1> QED
  BY <1>1, <1>2, <1>3, <1>4, <1>5, <1>6, <1>7, <1>8, Zenon

\* RemotePublish(p): only the creation time of an unknown post changes.
LEMMA RemotePublishInv ==
    ASSUME IInv, NEW p \in Remote, RemotePublish(p)
    PROVE  IInv'
<1> USE ConstantFacts DEF IInv, RemotePublish, TypeOK, Posts, network, rows,
        bounds
<1>1. TypeOK'
  BY ConstantsAssumption
<1>2. UnpublishedUnknown'
  BY Zenon DEF UnpublishedUnknown
<1>3. IngestValid'
  BY Zenon DEF IngestValid, UnpublishedUnknown
<1>4. SweepValid'
  BY DEF SweepValid, UnpublishedUnknown
<1>5. RowsDated'
  BY DEF RowsDated, UnpublishedUnknown
<1>6. ForgottenUnacceptable'
  BY DEF ForgottenUnacceptable, UnpublishedUnknown
<1>7. /\ CreatingFresh'
     /\ ModeratingRecent'
     /\ NoResurrection'
     /\ UnexpiredHasBlob'
  BY DEF CreatingFresh, ModeratingRecent, NoResurrection, UnexpiredHasBlob
<1> QED
  BY <1>1, <1>2, <1>3, <1>4, <1>5, <1>6, <1>7, Zenon

\* RemoteDelete(p): a tombstone message only weakens UnexpiredHasBlob.
LEMMA RemoteDeleteInv ==
    ASSUME IInv, NEW p \in Remote, RemoteDelete(p)
    PROVE  IInv'
<1> USE ConstantFacts DEF IInv, RemoteDelete, TypeOK, Posts, network, rows,
        bounds
<1>1. TypeOK'
  BY ConstantsAssumption
<1>2. UnexpiredHasBlob'
  BY Zenon DEF UnexpiredHasBlob
<1>3. /\ UnpublishedUnknown'
     /\ CreatingFresh'
     /\ IngestValid'
     /\ ModeratingRecent'
     /\ SweepValid'
     /\ RowsDated'
     /\ ForgottenUnacceptable'
     /\ NoResurrection'
  BY Zenon DEF UnpublishedUnknown, CreatingFresh, IngestValid, ModeratingRecent,
     SweepValid, RowsDated, ForgottenUnacceptable, NoResurrection
<1> QED
  BY <1>1, <1>2, <1>3, Zenon

\* CreatePut(p): the new post is unknown to every other activity.
LEMMA CreatePutInv ==
    ASSUME IInv, NEW p \in Local, CreatePut(p)
    PROVE  IInv'
<1> USE ConstantFacts DEF IInv, CreatePut, TypeOK, Posts, network, rows,
        bounds
<1>1. TypeOK'
  BY ConstantsAssumption
<1>2. CreatingFresh'
  BY Zenon DEF CreatingFresh
<1>3. IngestValid'
  BY DEF IngestValid
<1>4. SweepValid'
  BY Zenon DEF SweepValid
<1>5. RowsDated'
  BY Zenon DEF RowsDated
<1>6. ForgottenUnacceptable'
  BY DEF ForgottenUnacceptable
<1>7. UnexpiredHasBlob'
  BY Zenon DEF UnexpiredHasBlob
<1>8. UnpublishedUnknown' /\ ModeratingRecent' /\ NoResurrection'
  BY Zenon DEF UnpublishedUnknown, ModeratingRecent, NoResurrection
<1> QED
  BY <1>1, <1>2, <1>3, <1>4, <1>5, <1>6, <1>7, <1>8, Zenon

\* CreateInsert: the row is new, and no sweep is running.
LEMMA CreateInsertInv ==
    ASSUME IInv, CreateInsert
    PROVE  IInv'
<1> USE ConstantFacts DEF IInv, CreateInsert, DbFree, TypeOK, Posts, network,
        rows, bounds
<1>1. TypeOK'
  BY ConstantsAssumption DEF CreatingFresh
<1>2. UnpublishedUnknown'
  BY DEF UnpublishedUnknown, CreatingFresh
<1>3. CreatingFresh'
  BY Zenon DEF CreatingFresh
<1>4. IngestValid'
  BY Zenon DEF IngestValid
<1>5. SweepValid'
  BY Zenon DEF SweepValid
<1>6. RowsDated'
  BY DEF RowsDated
<1>7. ForgottenUnacceptable'
  BY Zenon DEF ForgottenUnacceptable
<1>8. NoResurrection'
  BY DEF NoResurrection, CreatingFresh
<1>9. UnexpiredHasBlob'
  BY DEF UnexpiredHasBlob, CreatingFresh
<1>10. ModeratingRecent'
  BY Zenon DEF ModeratingRecent
<1> QED
  BY <1>1, <1>2, <1>3, <1>4, <1>5, <1>6, <1>7, <1>8, <1>9, <1>10, Zenon

\* CreatePublish: publishing leaves the rows alone.
LEMMA CreatePublishInv ==
    ASSUME IInv, CreatePublish
    PROVE  IInv'
<1> USE ConstantFacts DEF IInv, CreatePublish, NoCreate, TypeOK, Posts,
        network, rows, bounds
<1>1. TypeOK'
  BY ConstantsAssumption
<1>2. UnpublishedUnknown'
  BY DEF UnpublishedUnknown
<1>3. CreatingFresh'
  BY Zenon DEF CreatingFresh
<1>4. IngestValid'
  BY Zenon DEF IngestValid
<1>5. /\ ModeratingRecent'
     /\ SweepValid'
     /\ RowsDated'
     /\ ForgottenUnacceptable'
     /\ NoResurrection'
     /\ UnexpiredHasBlob'
  BY Zenon DEF ModeratingRecent, SweepValid, RowsDated, ForgottenUnacceptable,
     NoResurrection, UnexpiredHasBlob
<1> QED
  BY <1>1, <1>2, <1>3, <1>4, <1>5, Zenon

\* Delete(p): the tombstone is dated at most Stall ago.
LEMMA DeleteInv ==
    ASSUME IInv, NEW p \in Posts, Delete(p)
    PROVE  IInv'
<1> USE ConstantFacts DEF IInv, Delete, DbFree, TypeOK, Posts, network, rows,
        bounds
<1>1. TypeOK'
  BY ConstantsAssumption
<1>2. UnpublishedUnknown'
  BY Zenon DEF UnpublishedUnknown
<1>3. CreatingFresh'
  BY Zenon DEF CreatingFresh
<1>4. IngestValid'
  BY Zenon DEF IngestValid
<1>5. SweepValid'
  BY Zenon DEF SweepValid
<1>6. RowsDated'
  BY DEF RowsDated
<1>7. ForgottenUnacceptable'
  BY DEF ForgottenUnacceptable
<1>8. NoResurrection'
  BY DEF NoResurrection
<1>9. UnexpiredHasBlob'
  BY DEF UnexpiredHasBlob
<1>10. ModeratingRecent'
  BY Zenon DEF ModeratingRecent
<1> QED
  BY <1>1, <1>2, <1>3, <1>4, <1>5, <1>6, <1>7, <1>8, <1>9, <1>10, Zenon

\* IngestPut(p): validate_post establishes IngestValid.
LEMMA IngestPutInv ==
    ASSUME IInv, NEW p \in Posts, IngestPut(p)
    PROVE  IInv'
<1> USE ConstantFacts DEF IInv, IngestPut, NotExpired, NotFuture, TypeOK,
        Posts, network, rows, bounds
<1>1. TypeOK'
  BY ConstantsAssumption, Zenon
<1>2. UnpublishedUnknown'
  BY DEF UnpublishedUnknown
<1>3. CreatingFresh'
  BY Zenon DEF CreatingFresh
<1>4. IngestValid'
  BY DEF IngestValid
<1>5. UnexpiredHasBlob'
  BY Zenon DEF UnexpiredHasBlob
<1>6. /\ ModeratingRecent'
     /\ SweepValid'
     /\ RowsDated'
     /\ ForgottenUnacceptable'
     /\ NoResurrection'
  BY Zenon DEF ModeratingRecent, SweepValid, RowsDated, ForgottenUnacceptable,
     NoResurrection
<1> QED
  BY <1>1, <1>2, <1>3, <1>4, <1>5, <1>6, Zenon

\* IngestInsert: a forgotten post would have to be both acceptable and unacceptable.
LEMMA IngestInsertInv ==
    ASSUME IInv, IngestInsert
    PROVE  IInv'
<1> USE ConstantFacts DEF IInv, IngestInsert, NoOp, TypeOK, Posts, network,
        rows, bounds
<1>1. TypeOK'
  BY ConstantsAssumption
<1>2. UnpublishedUnknown'
  BY DEF UnpublishedUnknown, IngestValid
<1>3. CreatingFresh'
  BY DEF CreatingFresh, IngestValid
<1>4. IngestValid'
  BY Zenon DEF IngestValid
<1>5. SweepValid'
  BY DEF SweepValid
<1>6. RowsDated'
  BY DEF RowsDated, IngestValid
<1>7. ForgottenUnacceptable'
  BY DEF ForgottenUnacceptable
<1>8. NoResurrection'
  BY DEF NoResurrection, IngestValid, ForgottenUnacceptable
<1>9. UnexpiredHasBlob'
  BY DEF UnexpiredHasBlob, IngestValid
<1>10. ModeratingRecent'
  BY Zenon DEF ModeratingRecent
<1> QED
  BY <1>1, <1>2, <1>3, <1>4, <1>5, <1>6, <1>7, <1>8, <1>9, <1>10, Zenon

\* ModDelete(p): only the blob of a live post with a tombstone message goes.
LEMMA ModDeleteInv ==
    ASSUME IInv, NEW p \in Posts, ModDelete(p)
    PROVE  IInv'
<1> USE ConstantFacts DEF IInv, ModDelete, TypeOK, Posts, network, rows,
        bounds
<1>1. TypeOK'
  BY ConstantsAssumption, Zenon
<1>2. CreatingFresh'
  BY Zenon DEF CreatingFresh
<1>3. IngestValid'
  BY Zenon DEF IngestValid
<1>4. ModeratingRecent'
  BY DEF ModeratingRecent
<1>5. UnexpiredHasBlob'
  BY DEF UnexpiredHasBlob
<1>6. /\ UnpublishedUnknown'
     /\ SweepValid'
     /\ RowsDated'
     /\ ForgottenUnacceptable'
     /\ NoResurrection'
  BY Zenon DEF UnpublishedUnknown, SweepValid, RowsDated, ForgottenUnacceptable,
     NoResurrection
<1> QED
  BY <1>1, <1>2, <1>3, <1>4, <1>5, <1>6, Zenon

\* ModMark: the tombstone is dated by a clock read at most Stall ago.
LEMMA ModMarkInv ==
    ASSUME IInv, ModMark
    PROVE  IInv'
<1> USE ConstantFacts DEF IInv, ModMark, NoOp, TypeOK, Posts, network, rows,
        bounds
<1>1. TypeOK'
  BY ConstantsAssumption
<1>2. UnpublishedUnknown'
  BY DEF UnpublishedUnknown
<1>3. CreatingFresh'
  BY DEF CreatingFresh
<1>4. IngestValid'
  BY DEF IngestValid
<1>5. ModeratingRecent'
  BY Zenon DEF ModeratingRecent
<1>6. SweepValid'
  BY DEF SweepValid
<1>7. RowsDated'
  BY DEF RowsDated, ModeratingRecent
<1>8. ForgottenUnacceptable'
  BY DEF ForgottenUnacceptable
<1>9. NoResurrection'
  BY DEF NoResurrection
<1>10. UnexpiredHasBlob'
  BY DEF UnexpiredHasBlob
<1> QED
  BY <1>1, <1>2, <1>3, <1>4, <1>5, <1>6, <1>7, <1>8, <1>9, <1>10, Zenon

\* GcSelect: the batch is expired when it is chosen.
LEMMA GcSelectInv ==
    ASSUME IInv, GcSelect
    PROVE  IInv'
<1> USE ConstantFacts DEF IInv, GcSelect, Expired, TypeOK, Posts, network,
        rows, bounds
<1>1. TypeOK'
  BY ConstantsAssumption
<1>2. SweepValid'
  BY DEF SweepValid, RowsDated
<1>3. /\ UnpublishedUnknown'
     /\ CreatingFresh'
     /\ IngestValid'
     /\ ModeratingRecent'
     /\ RowsDated'
     /\ ForgottenUnacceptable'
     /\ NoResurrection'
     /\ UnexpiredHasBlob'
  BY Zenon DEF UnpublishedUnknown, CreatingFresh, IngestValid, ModeratingRecent,
     RowsDated, ForgottenUnacceptable, NoResurrection, UnexpiredHasBlob
<1> QED
  BY <1>1, <1>2, <1>3, Zenon

\* GcDeleteBlob(p): the batch has expired, and is not being created or ingested anew.
LEMMA GcDeleteBlobInv ==
    ASSUME IInv, NEW p \in Posts, GcDeleteBlob(p)
    PROVE  IInv'
<1> USE ConstantFacts DEF IInv, GcDeleteBlob, TypeOK, Posts, network, rows,
        bounds
<1>1. TypeOK'
  BY ConstantsAssumption, Zenon
<1>2. CreatingFresh'
  BY Zenon DEF CreatingFresh, SweepValid
<1>3. IngestValid'
  BY Zenon DEF IngestValid, SweepValid
<1>4. SweepValid'
  BY Zenon DEF SweepValid
<1>5. UnexpiredHasBlob'
  BY DEF UnexpiredHasBlob, SweepValid
<1>6. /\ UnpublishedUnknown'
     /\ ModeratingRecent'
     /\ RowsDated'
     /\ ForgottenUnacceptable'
     /\ NoResurrection'
  BY Zenon DEF UnpublishedUnknown, ModeratingRecent, RowsDated,
     ForgottenUnacceptable, NoResurrection
<1> QED
  BY <1>1, <1>2, <1>3, <1>4, <1>5, <1>6, Zenon

\* GcMark: the batch becomes tombstones that are not from the future.
LEMMA GcMarkInv ==
    ASSUME IInv, GcMark
    PROVE  IInv'
<1> USE ConstantFacts DEF IInv, GcMark, TypeOK, Posts, network, rows, bounds
<1>1. TypeOK'
  BY ConstantsAssumption, Zenon
<1>2. UnpublishedUnknown'
  BY Zenon DEF UnpublishedUnknown
<1>3. CreatingFresh'
  BY Zenon DEF CreatingFresh
<1>4. IngestValid'
  BY Zenon DEF IngestValid
<1>5. SweepValid'
  BY Zenon DEF SweepValid
<1>6. RowsDated'
  BY DEF RowsDated, SweepValid
<1>7. ForgottenUnacceptable'
  BY Zenon DEF ForgottenUnacceptable, SweepValid
<1>8. NoResurrection'
  BY Zenon DEF NoResurrection
<1>9. UnexpiredHasBlob'
  BY Zenon DEF UnexpiredHasBlob
<1>10. ModeratingRecent'
  BY Zenon DEF ModeratingRecent
<1> QED
  BY <1>1, <1>2, <1>3, <1>4, <1>5, <1>6, <1>7, <1>8, <1>9, <1>10, Zenon

\* GcPurge: three lifetimes outlast the acceptance window and two pauses.
LEMMA GcPurgeInv ==
    ASSUME IInv, GcPurge
    PROVE  IInv'
<1> USE ConstantFacts DEF IInv, GcPurge, Purgeable, NoSweep, TypeOK, Posts,
        network, rows, bounds
<1>1. TypeOK'
  BY ConstantsAssumption, Zenon
<1>2. UnpublishedUnknown'
  BY Zenon DEF UnpublishedUnknown
<1>3. CreatingFresh'
  BY Zenon DEF CreatingFresh
<1>4. IngestValid'
  BY DEF IngestValid, SweepValid, RowsDated
<1>5. SweepValid'
  BY DEF SweepValid
<1>6. RowsDated'
  BY Zenon DEF RowsDated
<1>7. ForgottenUnacceptable'
  BY DEF ForgottenUnacceptable, SweepValid, RowsDated
<1>8. NoResurrection'
  BY Zenon DEF NoResurrection
<1>9. UnexpiredHasBlob'
  BY Zenon DEF UnexpiredHasBlob
<1>10. ModeratingRecent'
  BY Zenon DEF ModeratingRecent
<1> QED
  BY <1>1, <1>2, <1>3, <1>4, <1>5, <1>6, <1>7, <1>8, <1>9, <1>10, Zenon

\* Fails: one activity forgets what it was doing.
LEMMA FailsInv ==
    ASSUME IInv, Fails
    PROVE  IInv'
<1> USE ConstantFacts DEF IInv, Fails, NoCreate, NoOp, NoSweep, TypeOK,
        Posts, network, rows, bounds
<1>1. TypeOK'
  BY ConstantsAssumption, SMTT(30)
<1>2. UnpublishedUnknown'
  BY DEF UnpublishedUnknown
<1>3. CreatingFresh'
  BY DEF CreatingFresh
<1>4. IngestValid'
  BY DEF IngestValid
<1>5. ModeratingRecent'
  BY DEF ModeratingRecent
<1>6. SweepValid'
  BY DEF SweepValid
<1>7. /\ RowsDated'
     /\ ForgottenUnacceptable'
     /\ NoResurrection'
     /\ UnexpiredHasBlob'
  BY Zenon DEF RowsDated, ForgottenUnacceptable, NoResurrection, UnexpiredHasBlob
<1> QED
  BY <1>1, <1>2, <1>3, <1>4, <1>5, <1>6, <1>7, Zenon

\* Crash: all activities forget what they were doing.
LEMMA CrashInv ==
    ASSUME IInv, Crash
    PROVE  IInv'
<1> USE ConstantFacts DEF IInv, Crash, NoCreate, NoOp, NoSweep, TypeOK,
        Posts, network, rows, bounds
<1>1. TypeOK'
  BY ConstantsAssumption
<1>2. UnpublishedUnknown'
  BY DEF UnpublishedUnknown
<1>3. CreatingFresh'
  BY Zenon DEF CreatingFresh
<1>4. IngestValid'
  BY Zenon DEF IngestValid
<1>5. ModeratingRecent'
  BY Zenon DEF ModeratingRecent
<1>6. SweepValid'
  BY DEF SweepValid
<1>7. /\ RowsDated'
     /\ ForgottenUnacceptable'
     /\ NoResurrection'
     /\ UnexpiredHasBlob'
  BY Zenon DEF RowsDated, ForgottenUnacceptable, NoResurrection, UnexpiredHasBlob
<1> QED
  BY <1>1, <1>2, <1>3, <1>4, <1>5, <1>6, <1>7, Zenon

-----------------------------------------------------------------------------
\* Every step of the node and of its environment preserves the invariant.
LEMMA NextInv == IInv /\ [Next]_vars => IInv'
<1> SUFFICES ASSUME IInv, [Next]_vars PROVE IInv'
  BY Zenon
<1>1. CASE UNCHANGED vars
  <2> USE <1>1 DEF IInv, vars, network, rows, bounds
  <2>1. TypeOK' /\ UnpublishedUnknown' /\ CreatingFresh' /\ IngestValid'
    BY Zenon DEF TypeOK, UnpublishedUnknown, CreatingFresh, IngestValid
  <2>2. ModeratingRecent' /\ SweepValid' /\ RowsDated'
    BY Zenon DEF ModeratingRecent, SweepValid, RowsDated
  <2>3. ForgottenUnacceptable' /\ NoResurrection' /\ UnexpiredHasBlob'
    BY Zenon DEF ForgottenUnacceptable, NoResurrection, UnexpiredHasBlob
  <2> QED
    BY <2>1, <2>2, <2>3, Zenon
<1>2. CASE Next
  BY <1>2, TickInv, RemotePublishInv, RemoteDeleteInv, CreatePutInv,
     CreateInsertInv, CreatePublishInv, DeleteInv, IngestPutInv,
     IngestInsertInv, ModDeleteInv, ModMarkInv, GcSelectInv, GcDeleteBlobInv,
     GcMarkInv, GcPurgeInv, FailsInv, CrashInv, Zenon
     DEF Next
<1> QED
  BY <1>1, <1>2, Zenon

\* The inductive invariant holds in every reachable state.
THEOREM Invariance == Spec => []IInv
BY InitInv, NextInv, PTL DEF Spec

\* The variables keep their types.
THEOREM TypeCorrect == Spec => []TypeOK
BY Invariance, PTL DEF IInv

\* gossip_ingest_loop never brings a tombstoned post back, for any lifetime
\* that covers the clock skew and the longest pause of a handler.
THEOREM TombstonesAreFinal == Spec => []NoResurrection
BY Invariance, PTL DEF IInv

\* phase1_expire_content never deletes the blob of an unexpired post.
THEOREM UnexpiredKeepsBlob == Spec => []UnexpiredHasBlob
BY Invariance, PTL DEF IInv

\* Only GcPurge removes a row, and what it removes is out of the window in
\* which a paused or late ingest could accept it.
LEMMA PurgeStep ==
    ASSUME IInv, [Next]_vars, NEW p \in Posts,
           status[p] = "tombstone", status'[p] = "absent"
    PROVE  ~NotExpired(p) /\ ingest.post # p
<1>1. GcPurge
  BY Zenon DEF IInv, TypeOK, Next, vars, rows, network, Tick, RemotePublish,
     RemoteDelete, CreatePut, CreateInsert, CreatePublish, Delete, IngestPut,
     IngestInsert, ModDelete, ModMark, GcSelect, GcDeleteBlob, GcMark, Fails,
     Crash
<1>2. Purgeable(p)
  BY <1>1, Zenon DEF IInv, TypeOK, GcPurge
<1>3. created[p] + Ttl[p] + Skew + Stall < now
  BY <1>2, ConstantFacts DEF IInv, TypeOK, SweepValid, RowsDated, Purgeable
<1> QED
  BY <1>3, ConstantFacts DEF IInv, TypeOK, IngestValid, NotExpired

\* Phase 2 of the sweep never forgets a tombstone whose post could return.
THEOREM PurgesAreSafe == Spec => PurgeOnlyUnacceptable
<1>1. IInv /\ [Next]_vars =>
        [\A p \in Posts :
           (status[p] = "tombstone" /\ status'[p] = "absent")
              => ~NotExpired(p) /\ ingest.post # p]_vars
  BY PurgeStep, Zenon
<1> QED
  BY <1>1, Invariance, PTL DEF Spec, PurgeOnlyUnacceptable

-----------------------------------------------------------------------------
(* Media. *)

ThumbOf(f) == ProcessAuto(f).thumb

FilesTyped == [MediaPosts -> Seq(Files)]
Storings == [post : MediaPosts \cup {NoPost}, file : Nat, chunk : Nat, pc : {"idle", "thumbnail", "row", "chunk"}]
Clearings == [pc : {"idle", "next", "thumbs", "rows"}, batch : SUBSET MediaPosts, todo : SUBSET MediaPosts,
              at : MediaPosts \cup {NoPost}]

MediaTypeOK ==
    /\ postRow \in [MediaPosts -> {"none", "live", "tomb"}]
    /\ filesOf \in FilesTyped /\ expiredPosts \subseteq MediaPosts
    /\ storing \in Storings /\ clearing \in Clearings
    /\ storing.pc = "idle" \/ clearing.pc = "idle"

\* The row of file number i of post p, whose files are fs.
HasRow(atts, p, fs, i) ==
    \E a \in atts : a.id = MediaId(fs[i], i) /\ a.post = p /\ a.thumb = ThumbOf(fs[i])

\* Another post has media with this thumbnail.
Shared(p, fo, th) == \E q \in MediaPosts \ {p} : \E j \in DOMAIN fo[q] : ThumbOf(fo[q][j]) = th

\* create, between two statements: its post is live, and the files before the present
\* one have their rows and thumbnails.
StoringOK ==
    storing.pc # "idle" =>
       LET p == storing.post
           fs == filesOf[p]
       IN /\ p \in MediaPosts /\ postRow[p] = "live" /\ storing.file \in DOMAIN fs
          /\ storing.chunk \in 1 .. Len(Bytes[fs[storing.file]])
          /\ storing.pc # "chunk" => storing.chunk = 1
          /\ \A i \in DOMAIN fs :
                /\ i < storing.file \/ (i = storing.file /\ storing.pc = "chunk") =>
                      HasRow(attached, p, fs, i)
                /\ i < storing.file \/ (i = storing.file /\ storing.pc # "thumbnail") =>
                      ThumbOf(fs[i]) \in thumbs

\* Every row is of a file of its post, and every chunk of a row.
RowsOK ==
    /\ \A a \in attached : a.post \in MediaPosts /\ \E j \in DOMAIN filesOf[a.post] : a.thumb = ThumbOf(filesOf[a.post][j])
    /\ ChunksHaveOwner

\* The sweep, between two statements: it is at expired posts, and done with those of
\* its batch that it has left.
ClearingOK ==
    /\ clearing.pc # "idle" =>
          /\ clearing.batch \subseteq expiredPosts /\ clearing.todo \subseteq clearing.batch
          /\ \A p \in clearing.batch : postRow[p] = "live"
          /\ clearing.pc # "next" => clearing.at \in clearing.batch
          /\ \A p \in clearing.batch \ (clearing.todo \cup careless) :
                clearing.pc = "next" \/ p # clearing.at => ListForPost(p) = {}
    /\ \A p \in swept : p \in MediaPosts /\ postRow[p] = "tomb"
    /\ \A p \in swept \ careless : ListForPost(p) = {}

ShownOK ==
    \A p \in answeredOk : p \in MediaPosts /\ filesOf[p] # <<>> /\ (postRow[p] = "live" /\ p \notin expiredPosts =>
       \A i \in DOMAIN filesOf[p] :
          /\ HasRow(attached, p, filesOf[p], i)
          /\ ThumbOf(filesOf[p][i]) \in thumbs \/ Shared(p, filesOf, ThumbOf(filesOf[p][i])))

MediaInv == MediaTypeOK /\ StoringOK /\ RowsOK /\ ClearingOK /\ ShownOK

\* The invariant says what the properties do.
LEMMA MediaInvImplies == MediaInv => ChunksHaveOwner /\ SweptMediaGone /\ ThumbnailKept
<1> SUFFICES ASSUME MediaInv PROVE ChunksHaveOwner /\ SweptMediaGone /\ ThumbnailKept
  BY Zenon
<1>1. ChunksHaveOwner
  BY Zenon DEF MediaInv, RowsOK
<1>2. SweptMediaGone
  BY <1>1 DEF MediaInv, ClearingOK, ChunksHaveOwner, SweptMediaGone, ListForPost, GetAttachment
<1>3. ThumbnailKept
  BY SMTT(30) DEF MediaInv, ShownOK, ThumbnailKept, OnShow, ServeThumbnail, GetAttachment, HasRow, Shared, ThumbOf
<1> QED
  BY <1>1, <1>2, <1>3, Zenon

\* The chunk comes after the row of its file.
LEMMA ChunkHasRow ==
    ASSUME MediaInv, storing.pc = "chunk"
    PROVE  GetAttachment(Id) # {}
<1>1. HasRow(attached, storing.post, filesOf[storing.post], storing.file)
  BY Zenon DEF MediaInv, StoringOK
<1> QED
  BY <1>1, Zenon DEF HasRow, GetAttachment, Id, File

\* create begins with a post that is new.
LEMMA CreateKeeps ==
    ASSUME MediaInv, NEW p \in MediaPosts, NEW fs \in FileLists, CreateWithMedia(p, fs) PROVE MediaInv'
<1>1. /\ postRow' = [postRow EXCEPT ![p] = "live"] /\ filesOf' = [filesOf EXCEPT ![p] = fs]
      /\ UNCHANGED <<attached, chunkRows, thumbs, clearing, expiredPosts, answeredOk, careless, swept>>
      /\ storing.pc = "idle" /\ clearing.pc = "idle" /\ postRow[p] = "none" /\ filesOf[p] = <<>>
  BY Zenon DEF CreateWithMedia, MutexFree, mediaRows
<1>2. /\ storing'.post = p /\ storing'.file = 1 /\ storing'.chunk = 1 /\ storing'.pc = "thumbnail"
      /\ storing' \in Storings
  BY Zenon DEF CreateWithMedia, NotStoring, Storings
<1>3. fs \in Seq(Files) /\ 1 \in DOMAIN fs /\ \A i \in DOMAIN fs : ~(i < 1)
  BY DEF FileLists
<1>4. \A q \in MediaPosts : /\ q # p => filesOf'[q] = filesOf[q] /\ postRow'[q] = postRow[q]
                            /\ q = p => filesOf'[q] = fs /\ postRow'[q] = "live"
  BY <1>1, Zenon DEF MediaInv, MediaTypeOK, FilesTyped
<1>5. MediaTypeOK'
  BY <1>1, <1>2, <1>3, Zenon DEF MediaInv, MediaTypeOK, FilesTyped
<1>6. StoringOK'
  <2>1. fs[1] \in Files
    BY <1>3
  <2>2. 1 \in 1 .. Len(Bytes[fs[1]])
    BY <2>1, MediaAssumption
  <2> QED
    BY <1>2, <1>3, <1>4, <2>2, Zenon DEF StoringOK
<1>7. \A a \in attached : a.post # p
  BY <1>1 DEF MediaInv, RowsOK
<1>8. RowsOK'
  BY <1>1, <1>4, <1>7 DEF MediaInv, RowsOK, ChunksHaveOwner, GetAttachment
<1>9. ClearingOK'
  BY <1>1, <1>4 DEF MediaInv, ClearingOK, ListForPost
<1>10. \A q \in answeredOk : \A th : Shared(q, filesOf, th) => Shared(q, filesOf', th)
  BY <1>1, <1>4 DEF Shared
<1>11. ASSUME NEW q \in answeredOk, postRow'[q] = "live", q \notin expiredPosts, q \in MediaPosts,
              NEW i \in DOMAIN filesOf'[q]
       PROVE  /\ HasRow(attached, q, filesOf'[q], i)
              /\ ThumbOf(filesOf'[q][i]) \in thumbs \/ Shared(q, filesOf', ThumbOf(filesOf'[q][i]))
  <2>1. CASE q = p
    BY <1>1, <2>1, Zenon DEF MediaInv, ShownOK
  <2>2. CASE q # p
    BY <1>4, <1>10, <1>11, <2>2, Zenon DEF MediaInv, ShownOK
  <2> QED
    BY <2>1, <2>2, Zenon
<1>12. \A q \in answeredOk : q \in MediaPosts /\ filesOf'[q] # <<>>
  BY <1>1, <1>3, <1>4, Zenon DEF MediaInv, ShownOK
<1>13. ShownOK'
  BY <1>1, <1>11, <1>12 DEF ShownOK, HasRow, Shared
<1> QED
  BY <1>5, <1>6, <1>8, <1>9, <1>13, Zenon DEF MediaInv

\* The thumbnail of the present file is put.
LEMMA ThumbnailKeeps == ASSUME MediaInv, PutThumbnail PROVE MediaInv'
<1>1. /\ storing.pc = "thumbnail" /\ thumbs' = thumbs \cup {ThumbOf(File)}
      /\ UNCHANGED <<postRow, attached, chunkRows, clearing, expiredPosts, answeredOk, filesOf, careless, swept>>
  BY Zenon DEF PutThumbnail, mediaHistory, ThumbOf
<1>2. /\ storing' \in Storings /\ storing'.pc = "row" /\ storing'.post = storing.post /\ storing'.file = storing.file
      /\ storing'.chunk = storing.chunk
  BY Zenon DEF PutThumbnail, MediaInv, MediaTypeOK, Storings
<1>3. MediaTypeOK'
  BY <1>1, <1>2, Zenon DEF MediaInv, MediaTypeOK
<1>4. StoringOK'
  BY <1>1, <1>2, Zenon DEF MediaInv, StoringOK, File
<1>5. RowsOK' /\ ClearingOK'
  BY <1>1, Zenon DEF MediaInv, RowsOK, ClearingOK, ChunksHaveOwner, GetAttachment, ListForPost
<1>6. ShownOK'
  BY <1>1, Zenon DEF MediaInv, ShownOK
<1> QED
  BY <1>3, <1>4, <1>5, <1>6, Zenon DEF MediaInv

\* create ends with an error, or the node with what it did.
LEMMA EndsKeep ==
    ASSUME MediaInv, storing' = NotStoring, clearing' \in {clearing, NotClearing},
           UNCHANGED <<postRow, attached, chunkRows, thumbs, expiredPosts, answeredOk, filesOf, careless, swept>>
    PROVE  MediaInv'
<1>1. /\ storing' \in Storings /\ storing'.pc = "idle"
      /\ clearing' \in Clearings /\ (clearing' = clearing \/ clearing'.pc = "idle")
  BY DEF NotStoring, NotClearing, Storings, Clearings, MediaInv, MediaTypeOK
<1>2. MediaTypeOK'
  BY <1>1, Zenon DEF MediaInv, MediaTypeOK
<1>3. StoringOK'
  BY <1>1, Zenon DEF StoringOK
<1>4. RowsOK' /\ ShownOK'
  BY Zenon DEF MediaInv, RowsOK, ChunksHaveOwner, GetAttachment, ShownOK
<1>5. ClearingOK'
  BY <1>1 DEF MediaInv, ClearingOK, ListForPost
<1> QED
  BY <1>2, <1>3, <1>4, <1>5, Zenon DEF MediaInv

\* The row of the present file is inserted.
LEMMA AttachKeeps == ASSUME MediaInv, InsertAttachment PROVE MediaInv'
<1>1. UNCHANGED <<postRow, chunkRows, thumbs, clearing, expiredPosts, answeredOk, filesOf, careless, swept>>
      /\ storing.pc = "row"
  BY Zenon DEF InsertAttachment, mediaHistory
<1>2. CASE GetAttachment(Id) # {}
  <2>1. storing' = NotStoring /\ attached' = attached
    BY <1>2, Zenon DEF InsertAttachment
  <2> QED
    BY <1>1, <2>1, EndsKeep, Zenon
<1>3. CASE GetAttachment(Id) = {}
  <2> DEFINE a == Attachment(storing.post, File, storing.file)
             p == storing.post
  <2>1. attached' = attached \cup {a} /\ storing' = [storing EXCEPT !.pc = "chunk"]
    BY <1>3, Zenon DEF InsertAttachment
  <2>2. a.id = Id /\ a.post = p /\ a.thumb = ThumbOf(File)
    BY Zenon DEF Attachment, ThumbOf, Id
  <2> HIDE DEF a
  <2>3. /\ storing' \in Storings /\ storing'.pc = "chunk" /\ storing'.post = p /\ storing'.file = storing.file
        /\ storing'.chunk = storing.chunk
    BY <2>1, Zenon DEF MediaInv, MediaTypeOK, Storings
  <2>4. p \in MediaPosts /\ postRow[p] = "live" /\ storing.file \in DOMAIN filesOf[p] /\ clearing.pc = "idle"
    BY <1>1, Zenon DEF MediaInv, StoringOK, MediaTypeOK
  <2>5. MediaTypeOK'
    BY <1>1, <2>3, <2>4, Zenon DEF MediaInv, MediaTypeOK
  <2>6. \A fs, q, i : HasRow(attached, q, fs, i) => HasRow(attached', q, fs, i)
    BY <2>1, Zenon DEF HasRow
  <2>7. HasRow(attached', p, filesOf[p], storing.file)
    BY <2>1, <2>2, Zenon DEF HasRow, Id, File
  <2>8. StoringOK'
    BY <1>1, <2>3, <2>4, <2>6, <2>7, Zenon DEF MediaInv, StoringOK
  <2>9. RowsOK'
    BY <1>1, <2>1, <2>2, <2>4, Zenon DEF MediaInv, RowsOK, ChunksHaveOwner, GetAttachment, File
  <2>10. ClearingOK'
    BY <1>1, <2>1, <2>2, <2>4 DEF MediaInv, ClearingOK, ListForPost
  <2>11. ShownOK'
    BY <1>1, <2>6, Zenon DEF MediaInv, ShownOK
  <2> QED
    BY <2>5, <2>8, <2>9, <2>10, <2>11, Zenon DEF MediaInv
<1> QED
  BY <1>2, <1>3, Zenon

\* A chunk is inserted; create goes on to the next chunk or file, or answers.
LEMMA ChunkKeeps == ASSUME MediaInv, InsertChunk PROVE MediaInv'
<1> DEFINE p == storing.post
           fs == filesOf[p]
<1>1. UNCHANGED <<postRow, attached, thumbs, clearing, expiredPosts, filesOf, careless, swept>>
      /\ storing.pc = "chunk"
  BY Zenon DEF InsertChunk
<1>2. CASE \E c \in chunkRows : c.chunk_hash = ChunkRow.chunk_hash
  <2>1. storing' = NotStoring /\ UNCHANGED <<chunkRows, answeredOk>>
    BY <1>2, Zenon DEF InsertChunk
  <2> QED
    BY <1>1, <2>1, EndsKeep, Zenon
<1>3. CASE ~\E c \in chunkRows : c.chunk_hash = ChunkRow.chunk_hash
  <2>1. chunkRows' = chunkRows \cup {ChunkRow} /\ StoredOne
    BY <1>3, Zenon DEF InsertChunk
  <2>2. ChunkRow.media_id = Id
    BY Zenon DEF ChunkRow
  <2>3. RowsOK'
    BY <1>1, <2>1, <2>2, ChunkHasRow, Zenon DEF MediaInv, RowsOK, ChunksHaveOwner, GetAttachment
  <2>4. ClearingOK'
    BY <1>1, Zenon DEF MediaInv, ClearingOK, ListForPost
  <2>5. /\ p \in MediaPosts /\ postRow[p] = "live" /\ storing.file \in DOMAIN fs /\ clearing.pc = "idle"
        /\ fs \in Seq(Files) /\ storing.chunk \in 1 .. Len(Bytes[File])
        /\ storing.file \in Nat /\ storing.chunk \in Nat
        /\ \A i \in DOMAIN fs : i <= storing.file => HasRow(attached, p, fs, i) /\ ThumbOf(fs[i]) \in thumbs
    <3>1. storing.file \in Nat /\ storing.chunk \in Nat
      BY Zenon DEF MediaInv, MediaTypeOK, Storings
    <3>2. /\ p \in MediaPosts /\ postRow[p] = "live" /\ storing.file \in DOMAIN fs /\ clearing.pc = "idle"
          /\ fs \in Seq(Files) /\ storing.chunk \in 1 .. Len(Bytes[File])
      BY <1>1, Zenon DEF MediaInv, StoringOK, MediaTypeOK, FilesTyped, File
    <3>3. ASSUME NEW i \in DOMAIN fs, i <= storing.file
          PROVE  HasRow(attached, p, fs, i) /\ ThumbOf(fs[i]) \in thumbs
      <4>1. i < storing.file \/ i = storing.file
        BY <3>1, <3>2, <3>3
      <4> QED
        BY <1>1, <4>1, Zenon DEF MediaInv, StoringOK
    <3> QED
      BY <3>1, <3>2, <3>3, Zenon
  <2>51. File \in Files /\ Len(Bytes[File]) \in Nat
    BY <2>5, MediaAssumption DEF File
  <2>6. CASE storing.chunk < Len(Bytes[File])
    <3>1. storing' = [storing EXCEPT !.chunk = @ + 1] /\ answeredOk' = answeredOk
      BY <2>1, <2>6 DEF StoredOne
    <3>2. /\ storing' \in Storings /\ storing'.pc = "chunk" /\ storing'.post = p /\ storing'.file = storing.file
          /\ storing'.chunk = storing.chunk + 1
      BY <1>1, <3>1 DEF MediaInv, MediaTypeOK, Storings
    <3>21. storing.chunk + 1 \in 1 .. Len(Bytes[File])
      BY <2>5, <2>51, <2>6
    <3>22. StoringOK'
      BY <1>1, <2>5, <3>2, <3>21, Zenon DEF MediaInv, StoringOK, File
    <3>3. MediaTypeOK' /\ StoringOK' /\ ShownOK'
      BY <1>1, <2>5, <3>1, <3>2, <3>22, Zenon DEF MediaInv, MediaTypeOK, ShownOK
    <3> QED
      BY <2>3, <2>4, <3>3, Zenon DEF MediaInv
  <2>7. CASE storing.chunk = Len(Bytes[File]) /\ storing.file < Len(fs)
    <3>1. /\ storing' = [storing EXCEPT !.file = @ + 1, !.chunk = 1, !.pc = "thumbnail"]
          /\ answeredOk' = answeredOk
      BY <2>1, <2>7 DEF StoredOne
    <3>2. /\ storing' \in Storings /\ storing'.pc = "thumbnail" /\ storing'.post = p
          /\ storing'.file = storing.file + 1 /\ storing'.chunk = 1
      <4>1. storing \in Storings /\ storing.file + 1 \in Nat
        BY <2>5 DEF MediaInv, MediaTypeOK
      <4> QED
        BY <3>1, <4>1, Zenon DEF Storings
    <3>3. storing.file + 1 \in DOMAIN fs /\ \A i \in DOMAIN fs : i < storing.file + 1 => i <= storing.file
      BY <2>5, <2>7
    <3>4. MediaTypeOK' /\ ShownOK'
      BY <1>1, <2>5, <3>1, <3>2, Zenon DEF MediaInv, MediaTypeOK, ShownOK
    <3>41. 1 \in 1 .. Len(Bytes[fs[storing.file + 1]])
      <4>1. fs[storing.file + 1] \in Files
        BY <2>5, <3>3
      <4> QED
        BY <4>1, MediaAssumption
    <3>42. \A i \in DOMAIN fs : ~(i = storing.file + 1 /\ i <= storing.file)
      BY <2>5
    <3>5. StoringOK'
      BY <1>1, <2>5, <3>2, <3>3, <3>41, <3>42, Zenon DEF StoringOK
    <3> QED
      BY <2>3, <2>4, <3>4, <3>5, Zenon DEF MediaInv
  <2>8. CASE ~(storing.chunk < Len(Bytes[File])) /\ ~(storing.chunk = Len(Bytes[File]) /\ storing.file < Len(fs))
    <3>1. storing' = NotStoring /\ answeredOk' = answeredOk \cup {p}
      BY <2>1, <2>8, Zenon DEF StoredOne
    <3>2. storing' \in Storings /\ storing'.pc = "idle"
      BY <3>1, Zenon DEF NotStoring, Storings
    <3>3. MediaTypeOK' /\ StoringOK'
      BY <1>1, <2>5, <3>2, Zenon DEF MediaInv, MediaTypeOK, StoringOK
    <3>4. fs # <<>>
      BY <2>5
    <3>5. \A i \in DOMAIN fs : HasRow(attached, p, fs, i) /\ ThumbOf(fs[i]) \in thumbs
      <4>1. ~(storing.file < Len(fs))
        BY <2>5, <2>51, <2>8
      <4>2. \A i \in DOMAIN fs : i <= storing.file
        BY <2>5, <4>1
      <4> QED
        BY <2>5, <4>2, Zenon
    <3>6. ShownOK'
      BY <1>1, <2>5, <3>1, <3>4, <3>5, Zenon DEF MediaInv, ShownOK
    <3> QED
      BY <2>3, <2>4, <3>3, <3>6, Zenon DEF MediaInv
  <2> QED
    BY <2>6, <2>7, <2>8, Zenon
<1> QED
  BY <1>2, <1>3, Zenon

\* A post is deleted, or its time passes.
LEMMA DeletePostKeeps == ASSUME MediaInv, NEW p \in MediaPosts, DeletePost(p) PROVE MediaInv'
<1>1. /\ storing.pc = "idle" /\ clearing.pc = "idle" /\ postRow' = [postRow EXCEPT ![p] = "tomb"]
      /\ UNCHANGED <<attached, chunkRows, thumbs, storing, clearing, expiredPosts, answeredOk, filesOf, careless, swept>>
  BY Zenon DEF DeletePost, MutexFree, mediaRows, mediaHistory
<1>2. /\ postRow' \in [MediaPosts -> {"none", "live", "tomb"}]
      /\ \A q \in MediaPosts : postRow'[q] = IF q = p THEN "tomb" ELSE postRow[q]
  BY <1>1, Zenon DEF MediaInv, MediaTypeOK
<1>3. MediaTypeOK' /\ StoringOK'
  BY <1>1, <1>2, Zenon DEF MediaInv, MediaTypeOK, StoringOK
<1>4. RowsOK'
  BY <1>1, Zenon DEF MediaInv, RowsOK, ChunksHaveOwner, GetAttachment
<1>5. ClearingOK'
  BY <1>1, <1>2, Zenon DEF MediaInv, ClearingOK, ListForPost
<1>6. ShownOK'
  BY <1>1, <1>2, Zenon DEF MediaInv, ShownOK
<1> QED
  BY <1>3, <1>4, <1>5, <1>6, Zenon DEF MediaInv

\* The time of a post passes.
LEMMA ExpireKeeps == ASSUME MediaInv, NEW p \in MediaPosts, Expire(p) PROVE MediaInv'
<1>1. /\ expiredPosts' = expiredPosts \cup {p}
      /\ UNCHANGED <<postRow, attached, chunkRows, thumbs, storing, clearing, answeredOk, filesOf, careless, swept>>
  BY Zenon DEF Expire, mediaRows, mediaHistory
<1>2. MediaTypeOK' /\ StoringOK'
  BY <1>1, ZenonT(30) DEF MediaInv, MediaTypeOK, StoringOK
<1>3. RowsOK' /\ ClearingOK'
  BY <1>1, Zenon DEF MediaInv, RowsOK, ChunksHaveOwner, GetAttachment, ClearingOK, ListForPost
<1>4. ShownOK'
  BY <1>1, Zenon DEF MediaInv, ShownOK
<1> QED
  BY <1>2, <1>3, <1>4, Zenon DEF MediaInv

\* The sweep selects the expired posts.
LEMMA SelectKeeps == ASSUME MediaInv, SelectExpired PROVE MediaInv'
<1> DEFINE due == {p \in expiredPosts : postRow[p] = "live"}
<1>1. /\ storing.pc = "idle"
      /\ clearing' = [pc |-> "next", batch |-> due, todo |-> due, at |-> NoPost]
      /\ UNCHANGED <<postRow, attached, chunkRows, thumbs, storing, expiredPosts, answeredOk, filesOf, careless, swept>>
  BY Zenon DEF SelectExpired, MutexFree, mediaRows, mediaHistory
<1>2. due \subseteq MediaPosts
  BY Zenon DEF MediaInv, MediaTypeOK
<1>3. due \subseteq expiredPosts /\ \A p \in due : postRow[p] = "live"
  BY Zenon
<1> HIDE DEF due
<1>4. clearing' \in Clearings
  BY <1>1, <1>2, Zenon DEF Clearings
<1>5. clearing'.pc = "next" /\ clearing'.batch = due /\ clearing'.todo = due
  BY <1>1, Zenon
<1>6. MediaTypeOK' /\ StoringOK'
  BY <1>1, <1>4, Zenon DEF MediaInv, MediaTypeOK, StoringOK
<1>7. RowsOK' /\ ShownOK'
  BY <1>1, Zenon DEF MediaInv, RowsOK, ChunksHaveOwner, GetAttachment, ShownOK
<1>8. ClearingOK'
  BY <1>1, <1>3, <1>5, Zenon DEF MediaInv, ClearingOK, ListForPost
<1> QED
  BY <1>6, <1>7, <1>8, Zenon DEF MediaInv

\* A step that leaves the posts alone and keeps what is shown of them.
LEMMA ShownAfter ==
    ASSUME ShownOK, UNCHANGED <<postRow, expiredPosts, answeredOk, filesOf>>,
           \A p \in answeredOk : postRow[p] = "live" /\ p \notin expiredPosts =>
              \A i \in DOMAIN filesOf[p] :
                 /\ HasRow(attached', p, filesOf[p], i)
                 /\ ThumbOf(filesOf[p][i]) \in thumbs' \/ Shared(p, filesOf, ThumbOf(filesOf[p][i]))
    PROVE  ShownOK'
BY DEF ShownOK, HasRow, Shared

\* What the three statements of the sweep have in common: they touch no post, and what
\* create has stored stays but for the post the sweep is at.
LEMMA SweepKeeps ==
    ASSUME MediaInv, clearing.pc # "idle", clearing' \in Clearings,
           clearing'.pc # "idle", clearing'.batch = clearing.batch,
           clearing'.at \in clearing.batch, clearing'.todo \subseteq clearing.batch,
           UNCHANGED <<postRow, storing, expiredPosts, answeredOk, filesOf, swept>>,
           attached' \subseteq attached, \A a \in attached \ attached' : a.post = clearing'.at,
           \A th \in thumbs \ thumbs' : \E a \in attached : a.post = clearing'.at /\ a.thumb = th,
           careless \subseteq careless', ChunksHaveOwner',
           \A p \in clearing.batch \ (clearing'.todo \cup careless') :
              clearing'.pc = "next" \/ p # clearing'.at => ListForPost(p)' = {}
    PROVE  MediaInv'
<1>1. storing.pc = "idle"
  BY Zenon DEF MediaInv, MediaTypeOK
<1>2. MediaTypeOK' /\ StoringOK'
  BY <1>1, Zenon DEF MediaInv, MediaTypeOK, StoringOK
<1>3. RowsOK'
  BY ZenonT(30) DEF MediaInv, RowsOK
<1>4. \A p : ListForPost(p)' \subseteq ListForPost(p)
  BY Zenon DEF ListForPost
<1>5. \A p \in swept' \ careless' : ListForPost(p)' = {}
  BY <1>4, Zenon DEF MediaInv, ClearingOK
<1>6. ClearingOK'
  BY <1>5, Zenon DEF MediaInv, ClearingOK
<1>7. clearing'.at \in expiredPosts /\ clearing'.at \in MediaPosts
  BY Zenon DEF MediaInv, MediaTypeOK, ClearingOK
<1>8. ASSUME NEW p \in answeredOk, postRow[p] = "live", p \notin expiredPosts, NEW i \in DOMAIN filesOf[p]
      PROVE  /\ HasRow(attached', p, filesOf[p], i)
             /\ ThumbOf(filesOf[p][i]) \in thumbs' \/ Shared(p, filesOf, ThumbOf(filesOf[p][i]))
  <2>1. p # clearing'.at
    BY <1>7, <1>8, ZenonT(30)
  <2>2. HasRow(attached, p, filesOf[p], i)
    BY <1>8, Zenon DEF MediaInv, ShownOK
  <2>3. HasRow(attached', p, filesOf[p], i)
    BY <2>1, <2>2, Zenon DEF HasRow
  <2>4. ThumbOf(filesOf[p][i]) \in thumbs \/ Shared(p, filesOf, ThumbOf(filesOf[p][i]))
    BY <1>8, Zenon DEF MediaInv, ShownOK
  <2>5. ASSUME ThumbOf(filesOf[p][i]) \in thumbs \ thumbs'
        PROVE  Shared(p, filesOf, ThumbOf(filesOf[p][i]))
    <3>1. PICK a \in attached : a.post = clearing'.at /\ a.thumb = ThumbOf(filesOf[p][i])
      BY <2>5, Zenon
    <3>2. \E j \in DOMAIN filesOf[a.post] : a.thumb = ThumbOf(filesOf[a.post][j])
      BY Zenon DEF MediaInv, RowsOK
    <3> QED
      BY <1>7, <2>1, <3>1, <3>2, Zenon DEF Shared
  <2> QED
    BY <2>3, <2>4, <2>5, Zenon
<1>9. ShownOK'
  BY <1>8, ShownAfter, Zenon DEF MediaInv
<1> QED
  BY <1>2, <1>3, <1>6, <1>9, Zenon DEF MediaInv

\* The sweep deletes the chunks of a post.
LEMMA DeleteChunksKeeps == ASSUME MediaInv, NEW p \in MediaPosts, DeleteChunks(p) PROVE MediaInv'
<1>1. /\ clearing.pc = "next" /\ p \in clearing.todo
      /\ clearing' = [clearing EXCEPT !.pc = "thumbs", !.at = p, !.todo = @ \ {p}]
      /\ UNCHANGED <<postRow, storing, expiredPosts, answeredOk, filesOf, swept>>
  BY Zenon DEF DeleteChunks
<1>2. clearing \in Clearings
  BY Zenon DEF MediaInv, MediaTypeOK
<1>3. /\ clearing' \in Clearings /\ clearing'.pc = "thumbs" /\ clearing'.at = p
      /\ clearing'.batch = clearing.batch /\ clearing'.todo = clearing.todo \ {p}
  BY <1>1, <1>2, Zenon DEF Clearings
<1>4. attached' = attached /\ thumbs' = thumbs /\ chunkRows' \subseteq chunkRows /\ careless \subseteq careless'
  BY Zenon DEF DeleteChunks, Ignoring, mediaRows
<1>5. ChunksHaveOwner'
  BY <1>4, Zenon DEF MediaInv, RowsOK, ChunksHaveOwner, GetAttachment
<1>6. clearing.todo \subseteq clearing.batch
  BY <1>1, Zenon DEF MediaInv, ClearingOK
<1>7. \A q \in clearing.batch \ (clearing.todo \cup careless) : ListForPost(q) = {}
  BY <1>1, Zenon DEF MediaInv, ClearingOK
<1>8. \A q \in clearing.batch \ (clearing'.todo \cup careless') :
         clearing'.pc = "next" \/ q # clearing'.at => ListForPost(q)' = {}
  BY <1>3, <1>4, <1>7, Zenon DEF ListForPost
<1> QED
  BY <1>1, <1>3, <1>4, <1>5, <1>6, <1>8, SweepKeeps, Zenon

\* The sweep deletes the thumbnails of the post it is at.
LEMMA DeleteThumbsKeeps == ASSUME MediaInv, DeleteThumbs PROVE MediaInv'
<1>1. /\ clearing.pc = "thumbs" /\ clearing' = [clearing EXCEPT !.pc = "rows"]
      /\ UNCHANGED <<postRow, storing, expiredPosts, answeredOk, filesOf, swept>>
  BY Zenon DEF DeleteThumbs
<1>2. clearing \in Clearings
  BY Zenon DEF MediaInv, MediaTypeOK
<1>3. /\ clearing' \in Clearings /\ clearing'.pc = "rows" /\ clearing'.at = clearing.at
      /\ clearing'.batch = clearing.batch /\ clearing'.todo = clearing.todo
  BY <1>1, <1>2, Zenon DEF Clearings
<1>4. /\ attached' = attached /\ chunkRows' = chunkRows /\ careless \subseteq careless'
      /\ thumbs' = thumbs \/ thumbs' = thumbs \ {a.thumb : a \in ListForPost(clearing.at)}
  BY Zenon DEF DeleteThumbs, Ignoring, mediaRows
<1>5. \A th \in thumbs \ thumbs' : \E a \in attached : a.post = clearing'.at /\ a.thumb = th
  BY <1>3, <1>4, Zenon DEF ListForPost
<1>6. ChunksHaveOwner'
  BY <1>4, Zenon DEF MediaInv, RowsOK, ChunksHaveOwner, GetAttachment
<1>7. /\ clearing.todo \subseteq clearing.batch /\ clearing.at \in clearing.batch
      /\ \A q \in clearing.batch \ (clearing.todo \cup careless) : q # clearing.at => ListForPost(q) = {}
  BY <1>1, Zenon DEF MediaInv, ClearingOK
<1>8. \A q \in clearing.batch \ (clearing'.todo \cup careless') :
         clearing'.pc = "next" \/ q # clearing'.at => ListForPost(q)' = {}
  BY <1>3, <1>4, <1>7, Zenon DEF ListForPost
<1> QED
  BY <1>1, <1>3, <1>4, <1>5, <1>6, <1>7, <1>8, SweepKeeps, Zenon

\* The sweep deletes the rows of the post it is at, and with them their chunks.
LEMMA DeleteAttachmentsKeeps == ASSUME MediaInv, DeleteAttachments PROVE MediaInv'
<1>1. /\ clearing.pc = "rows" /\ clearing' = [clearing EXCEPT !.pc = "next"]
      /\ UNCHANGED <<postRow, storing, expiredPosts, answeredOk, filesOf, swept>>
  BY Zenon DEF DeleteAttachments
<1>2. clearing \in Clearings
  BY Zenon DEF MediaInv, MediaTypeOK
<1>3. /\ clearing' \in Clearings /\ clearing'.pc = "next" /\ clearing'.at = clearing.at
      /\ clearing'.batch = clearing.batch /\ clearing'.todo = clearing.todo
  BY <1>1, <1>2, Zenon DEF Clearings
<1>4. \/ /\ attached' = attached \ ListForPost(clearing.at)
         /\ chunkRows' = {c \in chunkRows : \E a \in attached' : a.id = c.media_id}
         /\ thumbs' = thumbs /\ careless' = careless
      \/ /\ attached' = attached /\ chunkRows' = chunkRows /\ thumbs' = thumbs
         /\ careless' = careless \cup {clearing'.at}
  BY Zenon DEF DeleteAttachments, Ignoring, mediaRows
<1>5. /\ attached' \subseteq attached /\ \A a \in attached \ attached' : a.post = clearing'.at
      /\ thumbs' = thumbs /\ careless \subseteq careless'
  BY <1>3, <1>4, Zenon DEF ListForPost
<1>6. ChunksHaveOwner'
  BY <1>4, Zenon DEF MediaInv, RowsOK, ChunksHaveOwner, GetAttachment
<1>7. /\ clearing.todo \subseteq clearing.batch /\ clearing.at \in clearing.batch
      /\ \A q \in clearing.batch \ (clearing.todo \cup careless) : q # clearing.at => ListForPost(q) = {}
  BY <1>1, Zenon DEF MediaInv, ClearingOK
<1>8. \A q \in clearing.batch \ (clearing'.todo \cup careless') :
         clearing'.pc = "next" \/ q # clearing'.at => ListForPost(q)' = {}
  BY <1>3, <1>4, <1>7, Zenon DEF ListForPost
<1> QED
  BY <1>1, <1>3, <1>5, <1>6, <1>7, <1>8, SweepKeeps, Zenon

\* The sweep marks its batch.
LEMMA MarkKeeps == ASSUME MediaInv, MarkBatch PROVE MediaInv'
<1>1. /\ clearing.pc = "next" /\ clearing.todo = {} /\ clearing' = NotClearing
      /\ postRow' = [p \in MediaPosts |-> IF p \in clearing.batch THEN "tomb" ELSE postRow[p]]
      /\ swept' = swept \cup clearing.batch
      /\ UNCHANGED <<attached, chunkRows, thumbs, storing, expiredPosts, answeredOk, filesOf, careless>>
  BY Zenon DEF MarkBatch, mediaRows
<1>2. /\ clearing' \in Clearings /\ clearing'.pc = "idle"
  BY <1>1, Zenon DEF Clearings, NotClearing
<1>3. /\ clearing.batch \subseteq MediaPosts /\ storing.pc = "idle"
      /\ \A p \in clearing.batch \ careless : ListForPost(p) = {}
  BY <1>1, Zenon DEF MediaInv, MediaTypeOK, Clearings, ClearingOK
<1>4. /\ postRow' \in [MediaPosts -> {"none", "live", "tomb"}]
      /\ \A p \in MediaPosts : postRow'[p] = IF p \in clearing.batch THEN "tomb" ELSE postRow[p]
  BY <1>1, Zenon DEF MediaInv, MediaTypeOK
<1>5. MediaTypeOK' /\ StoringOK'
  BY <1>1, <1>2, <1>3, <1>4, Zenon DEF MediaInv, MediaTypeOK, StoringOK
<1>6. RowsOK'
  BY <1>1, ZenonT(30) DEF MediaInv, RowsOK, ChunksHaveOwner, GetAttachment
<1>7. ClearingOK'
  BY <1>1, <1>2, <1>3, <1>4 DEF MediaInv, ClearingOK, ListForPost
<1>8. ShownOK'
  BY <1>1, <1>4, Zenon DEF MediaInv, ShownOK
<1> QED
  BY <1>5, <1>6, <1>7, <1>8, Zenon DEF MediaInv

\* Every step of the media of posts keeps the invariant.
LEMMA MediaStep == MediaInv /\ [MediaNext]_mediaVars => MediaInv'
<1> SUFFICES ASSUME MediaInv, [MediaNext]_mediaVars PROVE MediaInv'
  BY Zenon
<1>1. CASE UNCHANGED mediaVars
  <2>1. UNCHANGED <<postRow, attached, chunkRows, thumbs, storing, clearing, expiredPosts, answeredOk, filesOf,
                    careless, swept>>
    BY <1>1, Zenon DEF mediaVars, mediaRows, mediaHistory
  <2>2. MediaTypeOK' /\ StoringOK' /\ ShownOK'
    BY <2>1, Zenon DEF MediaInv, MediaTypeOK, StoringOK, ShownOK
  <2>3. RowsOK' /\ ClearingOK'
    BY <2>1, Zenon DEF MediaInv, RowsOK, ChunksHaveOwner, GetAttachment, ClearingOK, ListForPost
  <2> QED
    BY <2>2, <2>3, Zenon DEF MediaInv
<1>2. ASSUME NEW p \in MediaPosts, NEW fs \in FileLists, CreateWithMedia(p, fs) PROVE MediaInv'
  BY <1>2, CreateKeeps, Zenon
<1>3. CASE StoreFails
  BY <1>3, EndsKeep, Zenon DEF StoreFails, mediaRows, mediaHistory
<1>4. CASE NodeCrash
  BY <1>4, EndsKeep, Zenon DEF NodeCrash, mediaRows, mediaHistory
<1>5. ASSUME NEW p \in MediaPosts, DeletePost(p) \/ Expire(p) \/ DeleteChunks(p) PROVE MediaInv'
  BY <1>5, DeletePostKeeps, ExpireKeeps, DeleteChunksKeeps, Zenon
<1> QED
  BY <1>1, <1>2, <1>3, <1>4, <1>5, ThumbnailKeeps, AttachKeeps, ChunkKeeps, SelectKeeps, DeleteThumbsKeeps,
     DeleteAttachmentsKeeps, MarkKeeps, Zenon DEF MediaNext

\* Nothing is stored at first.
LEMMA MediaStart == MediaInit => MediaInv
<1> SUFFICES ASSUME MediaInit PROVE MediaInv
  BY Zenon
<1>1. storing \in Storings /\ clearing \in Clearings /\ storing.pc = "idle" /\ clearing.pc = "idle"
  BY Zenon DEF MediaInit, NotStoring, NotClearing, Storings, Clearings
<1>2. MediaTypeOK
  BY <1>1 DEF MediaInit, MediaTypeOK, FilesTyped
<1>3. StoringOK /\ RowsOK /\ ClearingOK /\ ShownOK
  BY <1>1, Zenon DEF MediaInit, StoringOK, RowsOK, ChunksHaveOwner, ClearingOK, ShownOK
<1> QED
  BY <1>2, <1>3, Zenon DEF MediaInv

\* No chunk outlives its attachment, whichever statements of create and of the sweep
\* fail and wherever the node crashes.
THEOREM ChunksAlwaysOwned == MediaSpec => []ChunksHaveOwner
  BY MediaStart, MediaStep, MediaInvImplies, PTL DEF MediaSpec

\* Nothing is left of the media of a post that the sweep marked, unless a statement
\* for it failed.
THEOREM SweptForGood == MediaSpec => []SweptMediaGone
  BY MediaStart, MediaStep, MediaInvImplies, PTL DEF MediaSpec

\* The thumbnails of what create accepted are served until the post ends, unless
\* another post has media with the same thumbnail.
THEOREM ThumbnailsServed == MediaSpec => []ThumbnailKept
  BY MediaStart, MediaStep, MediaInvImplies, PTL DEF MediaSpec
=============================================================================
