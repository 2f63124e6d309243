----------------------------- MODULE BlobStore -----------------------------
(***************************************************************************)
(* ContentStore: blobs in files named by the hash of their plain text,     *)
(* used by several tasks at once without a lock.  A blob is written to a   *)
(* temporary file of its own and renamed; a file grows in two steps, so    *)
(* that a reader, a second writer or a crash can meet it half written.     *)
(* All blobs of the instance share the directory of their two-digit        *)
(* prefix, which put creates and delete removes when it is empty.          *)
(***************************************************************************)
EXTENDS Naturals, FiniteSets

CONSTANTS
    Blobs,      \* hashes with a common prefix
    Tasks,      \* tasks that use the store
    NoBlob,
    MaxOps,     \* bound: calls
    MaxCrash    \* bound: restarts

VARIABLES
    files,      \* files[h]: none, half or whole
    temps,      \* temporary files: set of [name, blob, state]
    dir,        \* the prefix directory exists
    task,       \* what each task is doing
    nextTmp,    \* TMP_COUNTER
    failedPuts, \* history: tasks whose last put failed
    emptied,    \* history: tasks in put whose directory was removed
    ops, restarts

storeHistory == <<failedPuts, emptied, ops, restarts>>
storeVars == <<files, temps, dir, task, nextTmp, storeHistory>>

Idle == [op |-> "idle", blob |-> NoBlob, tmp |-> 0]

StoreInit ==
    /\ files = [h \in Blobs |-> "none"]
    /\ temps = {} /\ dir = FALSE
    /\ task = [t \in Tasks |-> Idle]
    /\ nextTmp = 0
    /\ failedPuts = {} /\ emptied = {} /\ ops = 0 /\ restarts = 0

Goes(t, op) == task' = [task EXCEPT ![t].op = op]
Ends(t) == task' = [task EXCEPT ![t] = Idle]

\* put: nothing to do when the file exists; else make the directory.
PutBegin(t, h) ==
    /\ task[t] = Idle /\ ops < MaxOps /\ ops' = ops + 1
    /\ IF files[h] # "none"
       THEN UNCHANGED <<dir, task>>
       ELSE dir' = TRUE /\ task' = [task EXCEPT ![t] = [Idle EXCEPT !.op = "write", !.blob = h]]
    /\ emptied' = emptied \ {t} /\ failedPuts' = failedPuts \ {t}
    /\ UNCHANGED <<files, temps, nextTmp, restarts>>

\* Mutant: one temporary name for each blob.
MutUniqueTmpPath(t) == 0

\* The counter makes the name unique.
UniqueTmpPath(t) == nextTmp

\* fs::write creates or truncates the file, which needs the directory.
PutCreate(t) ==
    /\ task[t].op = "write"
    /\ IF dir
       THEN LET file == [name |-> UniqueTmpPath(t), blob |-> task[t].blob]
            IN  /\ temps' = {f \in temps : f.name # file.name \/ f.blob # file.blob}
                              \cup {[name |-> file.name, blob |-> file.blob, state |-> "half"]}
                /\ task' = [task EXCEPT ![t].op = "fill", ![t].tmp = file.name]
                /\ nextTmp' = nextTmp + 1
                /\ UNCHANGED failedPuts
       ELSE Ends(t) /\ failedPuts' = failedPuts \cup {t} /\ UNCHANGED <<temps, nextTmp>>
    /\ UNCHANGED <<files, dir, emptied, ops, restarts>>

Mine(t) == {f \in temps : f.name = task[t].tmp /\ f.blob = task[t].blob}

PutFill(t) ==
    /\ task[t].op = "fill"
    /\ temps' = (temps \ Mine(t)) \cup {[f EXCEPT !.state = "whole"] : f \in Mine(t)}
    /\ Goes(t, "rename")
    /\ UNCHANGED <<files, dir, nextTmp, storeHistory>>

PutRename(t) ==
    /\ task[t].op = "rename"
    /\ IF Mine(t) # {}
       THEN /\ files' = [files EXCEPT ![task[t].blob] = (CHOOSE f \in Mine(t) : TRUE).state]
            /\ UNCHANGED failedPuts
       ELSE failedPuts' = failedPuts \cup {t} /\ UNCHANGED files
    /\ temps' = temps \ Mine(t)
    /\ Ends(t)
    /\ UNCHANGED <<dir, nextTmp, emptied, ops, restarts>>

DeleteBegin(t, h) ==
    /\ task[t] = Idle /\ ops < MaxOps /\ ops' = ops + 1
    /\ files[h] # "none"
    /\ task' = [task EXCEPT ![t] = [Idle EXCEPT !.op = "remove", !.blob = h]]
    /\ UNCHANGED <<files, temps, dir, nextTmp, failedPuts, emptied, restarts>>

\* remove_file fails when another task has removed the file since.
DeleteFile(t) ==
    /\ task[t].op = "remove"
    /\ IF files[task[t].blob] = "none"
       THEN Ends(t) /\ UNCHANGED files
       ELSE files' = [files EXCEPT ![task[t].blob] = "none"] /\ Goes(t, "rmdir")
    /\ UNCHANGED <<temps, dir, nextTmp, storeHistory>>

\* remove_dir fails silently unless the directory is empty.
DeleteDir(t) ==
    /\ task[t].op = "rmdir"
    /\ IF temps = {} /\ \A h \in Blobs : files[h] = "none"
       THEN /\ dir' = FALSE
            /\ emptied' = emptied \cup {u \in Tasks : task[u].op = "write"}
       ELSE UNCHANGED <<dir, emptied>>
    /\ Ends(t)
    /\ UNCHANGED <<files, temps, nextTmp, failedPuts, ops, restarts>>

\* Temporary files of a crashed process stay; its process id is not met again.
StoreCrash ==
    /\ restarts < MaxCrash /\ restarts' = restarts + 1
    /\ task' = [t \in Tasks |-> Idle]
    /\ UNCHANGED <<files, temps, dir, nextTmp, failedPuts, emptied, ops>>

\* get: not found, or the plain text if it has the hash asked for.
Get(h) == CASE files[h] = "none" -> "not found"
            [] files[h] = "half" -> "integrity"
            [] OTHER -> "data"

StoreNext ==
    \/ \E t \in Tasks, h \in Blobs : PutBegin(t, h) \/ DeleteBegin(t, h)
    \/ \E t \in Tasks :
          PutCreate(t) \/ PutFill(t) \/ PutRename(t) \/ DeleteFile(t) \/ DeleteDir(t)
    \/ StoreCrash

StoreSpec == StoreInit /\ [][StoreNext]_storeVars

----------------------------------------------------------------------------
\* A blob is there whole or not at all, also while two tasks put the same blob,
\* one is deleted, or the process ends in the middle of a write: get never meets
\* a file whose content does not have its hash.
NeverTorn == \A h \in Blobs : Get(h) # "integrity"

\* Without I/O errors a put fails for one reason only: between its
\* create_dir_all and its write the deletion of the directory's last blob removed
\* the directory.
PutFailsOnlyEmptied == failedPuts \subseteq emptied
=============================================================================
