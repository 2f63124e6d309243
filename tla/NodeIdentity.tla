---------------------------- MODULE NodeIdentity ----------------------------
(***************************************************************************)
(* IdentityService with its two files, the keystore and the session key,   *)
(* and the node's epoch key manager. An RPC call is the list of the steps  *)
(* it still has to take, each under one mutex or one file operation, so    *)
(* that calls of different clients interleave between them, a write may    *)
(* fail, and the process may stop between any two. A key derived from a    *)
(* passphrase is the pair of the passphrase and the salt of the file.      *)
(***************************************************************************)
EXTENDS EpochManager, Sequences, FiniteSets

CONSTANTS
    Clients, Passphrases, Indices,
    None,       \* an absent file, and None in the code's Options
    Torn,       \* a file whose write did not finish
    LastDay,    \* bound: the last day modelled
    MaxSaves,   \* bound: keystores written
    MaxFaults   \* bound: failed writes and restarts

VARIABLES
    disk,    \* the files keystore and session
    mem,     \* the mutexes of IdentityService
    ekm,     \* ServiceContainer::epoch_key_manager
    day,     \* current_epoch_id()
    steps,   \* steps[c]: what the call of client c still has to do
    posts,   \* history: master and epoch of every sealed post
    tick,    \* the epoch loop is between its initialisation and its rotation
    shredded,\* history: the day of the last destroy_expired_keys, or -1
    saves, faults

idVars == <<disk, mem, ekm, day, steps, posts, tick, shredded, saves, faults>>

LockedMem == [kp |-> None, index |-> 0, master |-> None, count |-> 0]

IdInit ==
    /\ disk = [keystore |-> None, session |-> None]
    /\ mem = LockedMem
    /\ ekm = None /\ day = 0 /\ posts = {} /\ tick = FALSE /\ shredded = -1
    /\ steps = [c \in Clients |-> <<>>]
    /\ saves = 0 /\ faults = 0

Returned(c) == steps[c] = <<>>
IsFile(f) == f \notin {None, Torn}

\* The steps calls are made of.
Set(f, v)      == [do |-> "set", field |-> f, value |-> v]
Truncate(f)    == [do |-> "truncate", file |-> f]
WriteTo(f, v)  == [do |-> "write", file |-> f, value |-> v]
RemoveFile(f)  == [do |-> "remove", file |-> f]
Derive(p)      == [do |-> "derive", pass |-> p]
OpenWith(key)  == [do |-> "open", key |-> key]

\* std::fs::write
Save(f, v) == <<Truncate(f), WriteTo(f, v)>>

Keystore(m, p) == [master |-> m, pass |-> p, salt |-> saves]

\* Mutant: memory first, then the disk.
CreateStepsLate(m, p) ==
    <<Set("kp", <<m, 0>>), Set("master", m), Set("count", 1)>> \o Save("keystore", Keystore(m, p))

CreateSteps(m, p) ==
    Save("keystore", Keystore(m, p))
       \o <<Set("kp", <<m, 0>>), Set("master", m), Set("count", 1)>>

\* import_master_secret
ImportSteps(m, p) ==
    Save("keystore", Keystore(m, p))
       \o <<Set("kp", <<m, 0>>), Set("master", m), Set("index", 0), Set("count", 1)>>

\* load_contents; every keystore holds the one pseudonym 0.
LoadSteps(m) ==
    <<Set("kp", <<m, 0>>), Set("index", 0), Set("master", m), Set("count", 1)>>

Begins(c, todo) ==
    /\ Returned(c)
    /\ steps' = [steps EXCEPT ![c] = todo]
    /\ UNCHANGED <<disk, mem, ekm, day, posts, tick, shredded, faults>>

\* create: MasterSecret::generate gives a master nobody had, here the number
\* of the keystore it is saved in.
Create(c, p) ==
    /\ saves < MaxSaves /\ saves' = saves + 1
    /\ Begins(c, CreateSteps(saves, p))

\* import_mnemonic, import_backup, import_qr, of a master secret created here
\* before or, -1, elsewhere.
Import(c, m, p) ==
    /\ m \in -1..(saves - 1)
    /\ saves < MaxSaves /\ saves' = saves + 1
    /\ Begins(c, ImportSteps(m, p))

\* unlock: load_keystore refuses a wrong passphrase.
Unlock(c, p, remember) ==
    /\ IsFile(disk.keystore) /\ disk.keystore.pass = p
    /\ Begins(c, (IF remember THEN <<Derive(p)>> ELSE <<>>) \o LoadSteps(disk.keystore.master))
    /\ UNCHANGED saves

\* auto_unlock; an unusable session file is removed.
AutoUnlock(c) ==
    /\ disk.session # None
    /\ Begins(c, IF IsFile(disk.session) THEN <<OpenWith(disk.session)>>
                                         ELSE <<RemoveFile("session")>>)
    /\ UNCHANGED saves

LockSteps(forget) ==
    <<Set("kp", None), Set("master", None)>>
       \o (IF forget THEN <<RemoveFile("session")>> ELSE <<>>)

Lock(c, forget) ==
    /\ Returned(c)
    /\ steps' = [steps EXCEPT ![c] = LockSteps(forget)]
    /\ UNCHANGED <<disk, mem, ekm, day, posts, tick, shredded, saves, faults>>

\* switch_pseudonym, up to the release of the master secret's mutex.
Switch(c, i) ==
    /\ Returned(c) /\ mem.master # None
    /\ steps' = [steps EXCEPT ![c] = <<Set("kp", <<mem.master, i>>), Set("index", i)>>]
    /\ UNCHANGED <<disk, mem, ekm, day, posts, tick, shredded, saves, faults>>

-----------------------------------------------------------------------------
DoSet(c, s) ==
    /\ s.do = "set"
    /\ mem' = [mem EXCEPT ![s.field] = s.value]
    /\ steps' = [steps EXCEPT ![c] = Tail(@)]
    /\ UNCHANGED disk

DoFile(c, s) ==
    /\ s.do \in {"truncate", "write", "remove"}
    /\ disk' = [disk EXCEPT ![s.file] = CASE s.do = "truncate" -> Torn
                                          [] s.do = "write" -> s.value
                                          [] s.do = "remove" -> None]
    /\ steps' = [steps EXCEPT ![c] = Tail(@)]
    /\ UNCHANGED mem

\* derive_key_for_keystore reads the salt of whatever keystore is there now.
DoDerive(c, s) ==
    /\ s.do = "derive"
    /\ steps' = [steps EXCEPT ![c] =
          (IF IsFile(disk.keystore)
           THEN Save("session", [pass |-> s.pass, salt |-> disk.keystore.salt])
           ELSE <<>>) \o Tail(@)]
    /\ UNCHANGED <<disk, mem>>

\* load_keystore_with_key
Opens(file, key) == IsFile(file) /\ file.pass = key.pass /\ file.salt = key.salt

DoOpen(c, s) ==
    /\ s.do = "open"
    /\ steps' = [steps EXCEPT ![c] =
          IF Opens(disk.keystore, s.key) THEN LoadSteps(disk.keystore.master)
                                         ELSE <<RemoveFile("session")>>]
    /\ UNCHANGED <<disk, mem>>

Step(c) ==
    /\ ~Returned(c)
    /\ LET s == Head(steps[c]) IN
          DoSet(c, s) \/ DoFile(c, s) \/ DoDerive(c, s) \/ DoOpen(c, s)
    /\ UNCHANGED <<ekm, day, posts, tick, shredded, saves, faults>>

\* A file cannot be opened or removed, or its write fails half-way. A keystore
\* that cannot be saved ends the call; the session file is best effort, and the
\* call goes on after it.
Fault(c) ==
    /\ faults < MaxFaults /\ faults' = faults + 1
    /\ ~Returned(c) /\ Head(steps[c]).do \in {"truncate", "write", "remove"}
    /\ steps' = [steps EXCEPT ![c] =
          IF Head(@).file = "keystore" THEN <<>>
          ELSE SubSeq(@, IF Head(@).do = "truncate" THEN 3 ELSE 2, Len(@))]
    /\ UNCHANGED <<disk, mem, ekm, day, posts, tick, shredded, saves>>

\* The process ends, at any point, and is started again.
Restart ==
    /\ faults < MaxFaults /\ faults' = faults + 1
    /\ mem' = LockedMem /\ ekm' = None /\ tick' = FALSE
    /\ steps' = [c \in Clients |-> <<>>]
    /\ UNCHANGED <<disk, day, posts, shredded, saves>>

-----------------------------------------------------------------------------
NextDay ==
    /\ day < LastDay
    /\ day' = day + 1
    /\ UNCHANGED <<disk, mem, ekm, steps, posts, tick, shredded, saves, faults>>

\* epoch_rotation_loop, a tick: init_epoch_key_manager when unlocked, ...
EpochTick ==
    /\ ~tick /\ tick' = TRUE
    /\ ekm' = IF mem.master # None THEN NewManager(mem.master) ELSE ekm
    /\ UNCHANGED <<disk, mem, day, steps, posts, shredded, saves, faults>>

\* ... then rotate and destroy_expired_keys under the manager's mutex.
EpochRotate ==
    /\ tick /\ tick' = FALSE
    /\ IF ekm = None THEN UNCHANGED <<ekm, shredded>>
       ELSE LET g == Ensured(ekm, day) IN
            /\ ekm' = Destroyed(g, Expired(g, day))
            /\ shredded' = day
    /\ UNCHANGED <<disk, mem, day, steps, posts, saves, faults>>

\* PostService::create seals the post when there is a manager.
SealPost ==
    /\ mem.kp # None /\ ekm # None
    /\ ekm' = Ensured(ekm, day)
    /\ posts' = IF Available(ekm, day)
                THEN posts \cup {[master |-> ekm.master, epoch |-> day]} ELSE posts
    /\ UNCHANGED <<disk, mem, day, steps, tick, shredded, saves, faults>>

\* identity.create, unlock, lock, auto_unlock and switch_pseudonym. The network
\* that some of them start is in NodeLifecycle, the profile in Dht.
IdentityApi(c) ==
    \/ \E p \in Passphrases : Create(c, p)
    \/ \E p \in Passphrases, r \in BOOLEAN : Unlock(c, p, r)
    \/ AutoUnlock(c)
    \/ \E f \in BOOLEAN : Lock(c, f)
    \/ \E i \in Indices : Switch(c, i)

\* identity.import_mnemonic, import_backup and import_qr.
ImportApi(c) == \E p \in Passphrases : \E m \in -1..MaxSaves : Import(c, m, p)

IdNext ==
    \/ \E c \in Clients :
          \/ IdentityApi(c) \/ ImportApi(c)
          \/ Step(c)
          \/ Fault(c)
    \/ Restart \/ NextDay \/ EpochTick \/ EpochRotate \/ SealPost

IdSpec == IdInit /\ [][IdNext]_idVars

-----------------------------------------------------------------------------
(* Properties. *)

AllReturned == \A c \in Clients : Returned(c)

\* The node never works under one identity while the keystore holds another:
\* between the calls of one client, whatever failed or was interrupted before, a
\* readable keystore is that of the master secret in memory (identity.rs saves
\* first). Calls of two clients may interleave, and then it need not be.
MemoryMatchesDisk ==
    AllReturned /\ mem.master # None /\ IsFile(disk.keystore)
       => disk.keystore.master = mem.master

\* identity.rs "Lock the keystore: wipe keys from memory.": when every call has
\* returned and the master secret is gone, which only lock does, no signing
\* key is left either.
LockWipesKeys == AllReturned /\ mem.master = None => mem.kp = None

\* epoch.rs "After 30 days, epoch keys are destroyed, making content
\* permanently undecryptable.": after a tick of the epoch loop the manager
\* gives no key for content sealed before the retention.
OldContentShredded ==
    \A q \in posts :
       ~tick /\ ekm # None /\ ekm.master = q.master /\ q.epoch < shredded - Retention
          => ~Available(ekm, q.epoch)
=============================================================================
