---------------------------- MODULE SecretsStore ----------------------------
(***************************************************************************)
(* The credential store (auth/store.go) over a file system: callers of     *)
(* Update, Save and Clear, the lock of each Store, the temporary file all  *)
(* Stores of a path share, and crashes of the machine.                     *)
(*                                                                         *)
(* A step is one system call.  The file system is external: a directory    *)
(* with the entries secrets.json (path) and secrets.json.tmp (tmp), and    *)
(* files (inodes).  A change of path survives a crash once the directory   *)
(* is synced, data once the file is.  The secrets are the set of callers   *)
(* whose field they hold: an Update adds its caller's, a Save replaces.    *)
(***************************************************************************)
EXTENDS Naturals

CONSTANTS
    Threads, Stores,
    StoreOf,          \* the Store a thread works with
    Inodes,           \* bound: files at a time
    None,             \* no file, no thread
    Absent, Torn      \* no secrets; data that is not complete

ASSUME SecretsAssumption ==
    /\ StoreOf \in [Threads -> Stores]
    /\ None \notin Inodes /\ None \notin Threads
    /\ \A S \in SUBSET Threads : S # Absent /\ S # Torn
    /\ Absent # Torn

VARIABLES
    pc, op, val, fd,     \* of each thread: control, operation, secrets, file
    lock,                \* of each Store: the thread that holds mu
    path, tmp,           \* the two directory entries
    data, synced,        \* contents of files, and those safe from a crash
    maybe,               \* what path may be after a crash
    committed            \* fields whose Update or Save returned nil and whose
                         \* directory could be synced, since a later Save or
                         \* Clear took effect

threads == <<pc, op, val, fd>>
files   == <<path, tmp, data, synced, maybe>>
vars    == <<threads, lock, files, committed>>

PCs == {"idle", "load", "open", "write", "sync", "close", "rename", "dirsync",
        "remove"}

TypeOK ==
    /\ pc \in [Threads -> PCs]
    /\ op \in [Threads -> {"update", "save"}]
    /\ val \in [Threads -> SUBSET Threads]
    /\ fd \in [Threads -> Inodes \cup {None}]
    /\ lock \in [Stores -> Threads \cup {None}]
    /\ path \in Inodes \cup {None} /\ tmp \in Inodes \cup {None}
    /\ data \in [Inodes -> (SUBSET Threads) \cup {Torn}]
    /\ synced \in SUBSET Inodes
    /\ maybe \in SUBSET (Inodes \cup {None})
    /\ committed \in SUBSET Threads

Init ==
    /\ pc = [t \in Threads |-> "idle"]
    /\ op = [t \in Threads |-> "update"]
    /\ val = [t \in Threads |-> {}]
    /\ fd = [t \in Threads |-> None]
    /\ lock = [s \in Stores |-> None]
    /\ path = None /\ tmp = None
    /\ data = [i \in Inodes |-> Torn] /\ synced = {}
    /\ maybe = {None}
    /\ committed = {}

Content(i) == IF i = None THEN Absent ELSE data[i]

Goto(t, label) == pc' = [pc EXCEPT ![t] = label]

\* The end of Update and Save: the deferred Unlock.
Return(t) ==
    /\ pc' = [pc EXCEPT ![t] = "idle"]
    /\ lock' = [lock EXCEPT ![StoreOf[t]] = None]
    /\ fd' = [fd EXCEPT ![t] = None]

-----------------------------------------------------------------------------
\* Mutated form: the file is read before the lock is taken.
BeginUpdateUnlocked(t) ==
    /\ pc[t] = "idle"
    /\ lock' = [lock EXCEPT ![StoreOf[t]] = t]
    /\ Goto(t, "load")
    /\ op' = [op EXCEPT ![t] = "update"]
    /\ UNCHANGED <<val, fd, files, committed>>

BeginUpdate(t) ==
    /\ pc[t] = "idle" /\ lock[StoreOf[t]] = None
    /\ lock' = [lock EXCEPT ![StoreOf[t]] = t]
    /\ Goto(t, "load")
    /\ op' = [op EXCEPT ![t] = "update"]
    /\ UNCHANGED <<val, fd, files, committed>>

BeginSave(t) ==
    /\ pc[t] = "idle" /\ lock[StoreOf[t]] = None
    /\ lock' = [lock EXCEPT ![StoreOf[t]] = t]
    /\ Goto(t, "open")
    /\ op' = [op EXCEPT ![t] = "save"]
    /\ val' = [val EXCEPT ![t] = {t}]
    /\ UNCHANGED <<fd, files, committed>>

\* Update reads the secrets, starting from empty ones if there is no file, and
\* applies fn.
Load(t) ==
    /\ pc[t] = "load" /\ Content(path) # Torn
    /\ val' = [val EXCEPT ![t] = (IF path = None THEN {} ELSE data[path])
                                 \cup {t}]
    /\ Goto(t, "open")
    /\ UNCHANGED <<op, fd, lock, files, committed>>

\* The file does not parse, or fn returned an error.
LoadFail(t) ==
    /\ pc[t] = "load"
    /\ Return(t)
    /\ UNCHANGED <<op, val, files, committed>>

\* The name is the same for every Save and Update of the path: a file some
\* other Store or an earlier crash left there is truncated and used.
OpenTmp(t) ==
    /\ pc[t] = "open"
    /\ \E i \in Inodes :
          /\ IF tmp # None
             THEN i = tmp
             ELSE i \notin maybe \cup {path} \cup {fd[u] : u \in Threads}
          /\ tmp' = i
          /\ fd' = [fd EXCEPT ![t] = i]
          /\ data' = [data EXCEPT ![i] = Torn]
          /\ synced' = synced \ {i}
    /\ Goto(t, "write")
    /\ UNCHANGED <<op, val, lock, path, maybe, committed>>

OpenFail(t) ==
    /\ pc[t] = "open"
    /\ Return(t)
    /\ UNCHANGED <<op, val, files, committed>>

\* Data written over what another descriptor wrote is the new data, or the new
\* data followed by what is left of the old.
Write(t) ==
    /\ pc[t] = "write"
    /\ \E d \in IF data[fd[t]] = Torn THEN {val[t]} ELSE {val[t], Torn} :
          data' = [data EXCEPT ![fd[t]] = d]
    /\ synced' = synced \ {fd[t]}
    /\ Goto(t, "sync")
    /\ UNCHANGED <<op, val, fd, lock, path, tmp, maybe, committed>>

\* Mutated form: the temporary file is not synced.
SyncNothing(t) ==
    /\ pc[t] = "sync"
    /\ Goto(t, "close")
    /\ UNCHANGED <<op, val, fd, lock, files, committed>>

Sync(t) ==
    /\ pc[t] = "sync"
    /\ synced' = synced \cup {fd[t]}
    /\ Goto(t, "close")
    /\ UNCHANGED <<op, val, fd, lock, path, tmp, data, maybe, committed>>

Close(t) ==
    /\ pc[t] = "close"
    /\ fd' = [fd EXCEPT ![t] = None]
    /\ Goto(t, "rename")
    /\ UNCHANGED <<op, val, lock, files, committed>>

Rename(t) ==
    /\ pc[t] = "rename" /\ tmp # None
    /\ path' = tmp
    /\ tmp' = None
    /\ maybe' = maybe \cup {tmp}
    /\ committed' = IF op[t] = "save" THEN {} ELSE committed
    /\ Goto(t, "dirsync")
    /\ UNCHANGED <<op, val, fd, lock, data, synced>>

\* Write, Sync, Close or Rename returned an error.
Fail(t) ==
    /\ pc[t] \in {"write", "sync", "close", "rename"}
    /\ fd' = [fd EXCEPT ![t] = None]
    /\ Goto(t, "remove")
    /\ UNCHANGED <<op, val, lock, files, committed>>

RemoveTmp(t) ==
    /\ pc[t] = "remove"
    /\ tmp' = None
    /\ Return(t)
    /\ UNCHANGED <<op, val, path, data, synced, maybe, committed>>

\* Mutated form: success is returned without syncing the directory.
DirSyncSkipped(t) ==
    /\ pc[t] = "dirsync"
    /\ committed' = committed \cup {t}
    /\ Return(t)
    /\ UNCHANGED <<op, val, files>>

\* The directory is synced if it can be, and nil returned in any case.
DirSync(t) ==
    /\ pc[t] = "dirsync"
    /\ \/ maybe' = {path} /\ committed' = committed \cup {t}
       \/ UNCHANGED <<maybe, committed>>
    /\ Return(t)
    /\ UNCHANGED <<op, val, path, tmp, data, synced>>

Clear(t) ==
    /\ pc[t] = "idle" /\ lock[StoreOf[t]] = None
    /\ path' = None
    /\ maybe' = maybe \cup {None}
    /\ committed' = {}
    /\ UNCHANGED <<threads, lock, tmp, data, synced>>

\* The machine stops and starts again.
Crash ==
    /\ path' \in maybe
    /\ maybe' = {path'}
    /\ tmp' \in {tmp, None}
    /\ data' = [i \in Inodes |-> IF i \in synced THEN data[i] ELSE Torn]
    /\ pc' = [t \in Threads |-> "idle"]
    /\ val' = [t \in Threads |-> {}]
    /\ fd' = [t \in Threads |-> None]
    /\ lock' = [s \in Stores |-> None]
    /\ UNCHANGED <<op, synced, committed>>

-----------------------------------------------------------------------------
Operation(t) ==
    \/ BeginUpdate(t) \/ BeginSave(t) \/ Clear(t)
    \/ Load(t) \/ LoadFail(t)
    \/ OpenTmp(t) \/ OpenFail(t) \/ Write(t) \/ Sync(t) \/ Close(t)
    \/ Rename(t) \/ Fail(t) \/ RemoveTmp(t) \/ DirSync(t)

Next == (\E t \in Threads : Operation(t)) \/ Crash

Spec == Init /\ [][Next]_vars

-----------------------------------------------------------------------------
(* Properties *)

\* secrets.json, now or after a crash at any step, is absent or complete: no
\* interleaving, error or crash shows a reader part of a write (package comment
\* "Thread-safe, atomic writes"; saveLocked).
NeverTorn ==
    \A i \in (maybe \cup {path}) \ {None} : data[i] # Torn /\ i \in synced

\* What an Update or Save that returned nil stored is still there after a crash,
\* until a later Save or Clear, if the directory could be synced (saveLocked:
\* "fsync the directory so the rename survives a crash"), whatever later Updates
\* fail, succeed or are cut off in between.
ReturnedSurvivesCrash ==
    \A i \in maybe : committed # {} => i # None /\ committed \subseteq data[i]

\* Between them the locks and the temporary name keep the callers of one Store
\* apart: who is busy holds the lock, and the file it writes is tmp, no file a
\* reader or a crash can come across.
Busy ==
    /\ \A t \in Threads : pc[t] # "idle" => lock[StoreOf[t]] = t
    /\ tmp # None => tmp \notin maybe
    /\ path \in maybe
    /\ \A t \in Threads :
          fd[t] = IF pc[t] \in {"write", "sync", "close"} THEN tmp ELSE None
    /\ \A t \in Threads :
          pc[t] \in {"write", "sync", "close", "rename"} => tmp # None

\* What a caller is about to put in place is what it should be.
Prepared ==
    \A t \in Threads :
       /\ pc[t] = "load" => op[t] = "update"
       /\ pc[t] = "write" => data[tmp] = Torn
       /\ pc[t] \in {"sync", "close", "rename"} => data[tmp] = val[t]
       /\ pc[t] \in {"close", "rename"} => tmp \in synced
       /\ pc[t] \in {"open", "write", "sync", "close", "rename"} =>
             val[t] = IF op[t] = "save" \/ path = None
                      THEN {t} ELSE data[path] \cup {t}
       /\ pc[t] = "dirsync" => path # None /\ t \in data[path]

\* What every step keeps when all threads share a Store.
StoreInv == TypeOK /\ NeverTorn /\ Busy /\ Prepared

Register == INSTANCE AtomicSecrets WITH
               value <- Content(path),
               fallback <- {Content(i) : i \in maybe}

\* The store is the register AtomicSecrets describes: in particular no Update
\* loses the field another stored, and a failed one changes nothing (Update:
\* "atomically applies fn"; TestUpdateIsAtomic).
StoreIsRegister == Register!Spec

=============================================================================
