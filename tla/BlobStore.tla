------------------------------ MODULE BlobStore ------------------------------
(***************************************************************************)
(* plugins/diskblob/internal/fsstore: one namespace of the disk-backed     *)
(* blob store, shared by the goroutines of one process.                    *)
(*                                                                         *)
(* A blob is two files, the data and its metadata sidecar, each replaced   *)
(* by temp file + rename.  Put and Delete hold the key's mutex; Get, Open  *)
(* and List hold nothing.  Contents are told apart by the number of the    *)
(* Put that wrote them; 0 is a file that does not exist.                   *)
(*                                                                         *)
(* A crash ends the process: the calls and the mutexes are gone, the files *)
(* stay, the deferred removals of temp files never run.                    *)
(***************************************************************************)
EXTENDS Naturals, FiniteSets

CONSTANTS
  Clients,    \* goroutines calling the store
  Keys,
  NoClient, NoKey,
  MaxPuts,    \* bound: calls of Put
  MaxCrashes, \* bound: crashes and restarts of the process
  IOErrors    \* can creating, writing and renaming files fail?

ASSUME BlobStoreAssumption ==
  /\ NoClient \notin Clients /\ NoKey \notin Keys
  /\ MaxPuts \in Nat /\ MaxCrashes \in Nat
  /\ IOErrors \in BOOLEAN

VARIABLES
  data,    \* per key, the Put whose bytes the data file holds
  meta,    \* per key, the Put whose metadata the sidecar holds
  temps,   \* temp files: <<"blob", v>>, <<"blob-meta", v>> of the Put numbered v
  holder,  \* per key, the client that holds its mutex
  op,      \* per client, the call it is in
  reply,   \* per client, the answer of its last call
  puts, crashes,
  last,    \* history: per key, the last Put that returned nil, 0 after Delete
  torn     \* history: keys whose last Put or Delete ended between its two commits

files == <<data, meta, temps>>
history == <<puts, crashes, last, torn>>
vars  == <<files, holder, op, reply, history>>

\* A call: where it is, its key, the Put it carries out or has read, and the
\* files List has still to visit.
Idle == [at |-> "idle", key |-> NoKey, ver |-> 0, left |-> {}]
CallOf(l, k, v) == [at |-> l, key |-> k, ver |-> v, left |-> {}]

Nothing    == [kind |-> "none", data |-> 0, meta |-> 0]
Returned(err) == [Nothing EXCEPT !.kind = err]
Blob(d, m) == [kind |-> "blob", data |-> d, meta |-> m]

Init ==
  /\ data = [k \in Keys |-> 0]
  /\ meta = [k \in Keys |-> 0]
  /\ temps = {}
  /\ holder = [k \in Keys |-> NoClient]
  /\ op = [c \in Clients |-> Idle]
  /\ reply = [c \in Clients |-> Nothing]
  /\ puts = 0 /\ crashes = 0
  /\ last = [k \in Keys |-> 0]
  /\ torn = {}

at(c, labels) == op[c].at \in labels
goto(c, l) == op' = [op EXCEPT ![c].at = l]

\* A call begins.
Begin(c, call) ==
  /\ at(c, {"idle"})
  /\ op' = [op EXCEPT ![c] = call]
  /\ reply' = [reply EXCEPT ![c] = Nothing]

\* The call of c returns r.
Answer(c, r) ==
  /\ op' = [op EXCEPT ![c] = Idle]
  /\ reply' = [reply EXCEPT ![c] = r]

\* mu.Unlock, deferred.
Unlock(c) == holder' = [holder EXCEPT ![op[c].key] = NoClient]

BeginPut(c, k) ==
  /\ puts < MaxPuts
  /\ Begin(c, CallOf("put", k, puts + 1))
  /\ puts' = puts + 1
  /\ UNCHANGED <<files, holder, crashes, last, torn>>

BeginDelete(c, k) ==
  /\ Begin(c, CallOf("delete", k, 0))
  /\ UNCHANGED <<files, holder, history>>

\* Mutant: every call has a mutex of its own.
LockOwn(c) ==
  /\ at(c, {"put", "delete"})
  /\ holder' = [holder EXCEPT ![op[c].key] = c]
  /\ goto(c, IF at(c, {"put"}) THEN "create" ELSE "remove_data")
  /\ UNCHANGED <<files, reply, history>>

\* objectLock(namespace, key).Lock().
Lock(c) ==
  /\ at(c, {"put", "delete"})
  /\ holder[op[c].key] = NoClient
  /\ holder' = [holder EXCEPT ![op[c].key] = c]
  /\ goto(c, IF at(c, {"put"}) THEN "create" ELSE "remove_data")
  /\ UNCHANGED <<files, reply, history>>

-----------------------------------------------------------------------------
(* FileObjectWriter.Write, FileMetadataCodec.Write                           *)

\* os.CreateTemp and the copy into it.
CreateTemp(c) ==
  /\ at(c, {"create"})
  /\ temps' = temps \cup {<<"blob", op[c].ver>>}
  /\ goto(c, "rename")
  /\ UNCHANGED <<data, meta, holder, reply, history>>

RenameData(c) ==
  /\ at(c, {"rename"})
  /\ temps' = temps \ {<<"blob", op[c].ver>>}
  /\ data' = [data EXCEPT ![op[c].key] = op[c].ver]
  /\ goto(c, "create_meta")
  /\ UNCHANGED <<meta, holder, reply, history>>

CreateMetaTemp(c) ==
  /\ at(c, {"create_meta"})
  /\ temps' = temps \cup {<<"blob-meta", op[c].ver>>}
  /\ goto(c, "rename_meta")
  /\ UNCHANGED <<data, meta, holder, reply, history>>

\* The rename of the sidecar commits the Put, which returns nil.
RenameMeta(c) ==
  /\ at(c, {"rename_meta"})
  /\ temps' = temps \ {<<"blob-meta", op[c].ver>>}
  /\ meta' = [meta EXCEPT ![op[c].key] = op[c].ver]
  /\ last' = [last EXCEPT ![op[c].key] = op[c].ver]
  /\ torn' = torn \ {op[c].key}
  /\ Unlock(c)
  /\ Answer(c, Returned("nil"))
  /\ UNCHANGED <<data, puts, crashes>>

writing == {"create", "rename", "create_meta", "rename_meta"}

\* Has the first commit of a Put or Delete taken place?
halfway(c) == at(c, {"create_meta", "rename_meta", "remove_meta"})

\* Mutant: the temp file is removed on success only.
FailPutLeaving(c) ==
  /\ IOErrors
  /\ at(c, writing)
  /\ torn' = IF halfway(c) THEN torn \cup {op[c].key} ELSE torn
  /\ Unlock(c)
  /\ Answer(c, Returned("error"))
  /\ UNCHANGED <<files, puts, crashes, last>>

\* Mutant: the error returns past the unlock.
FailPutLocked(c) ==
  /\ IOErrors
  /\ at(c, writing)
  /\ torn' = IF halfway(c) THEN torn \cup {op[c].key} ELSE torn
  /\ temps' = temps \ {<<"blob", op[c].ver>>, <<"blob-meta", op[c].ver>>}
  /\ Answer(c, Returned("error"))
  /\ UNCHANGED <<data, meta, holder, puts, crashes, last>>

\* A step of Write fails, or ctx is done before the first rename: the temp file
\* is removed and the error returned.  After the first rename the new data stays
\* beside the old sidecar, or beside none.
FailPut(c) ==
  /\ IOErrors
  /\ at(c, writing)
  /\ torn' = IF halfway(c) THEN torn \cup {op[c].key} ELSE torn
  /\ temps' = temps \ {<<"blob", op[c].ver>>, <<"blob-meta", op[c].ver>>}
  /\ Unlock(c)
  /\ Answer(c, Returned("error"))
  /\ UNCHANGED <<data, meta, puts, crashes, last>>

-----------------------------------------------------------------------------
(* Store.Delete                                                              *)

RemoveData(c) ==
  /\ at(c, {"remove_data"})
  /\ data' = [data EXCEPT ![op[c].key] = 0]
  /\ goto(c, "remove_meta")
  /\ UNCHANGED <<meta, temps, holder, reply, history>>

RemoveMeta(c) ==
  /\ at(c, {"remove_meta"})
  /\ meta' = [meta EXCEPT ![op[c].key] = 0]
  /\ last' = [last EXCEPT ![op[c].key] = 0]
  /\ torn' = torn \ {op[c].key}
  /\ Unlock(c)
  /\ Answer(c, Returned("nil"))
  /\ UNCHANGED <<data, temps, puts, crashes>>

\* os.Remove fails with something else than "does not exist".
FailDelete(c) ==
  /\ IOErrors
  /\ at(c, {"remove_data", "remove_meta"})
  /\ torn' = IF halfway(c) THEN torn \cup {op[c].key} ELSE torn
  /\ Unlock(c)
  /\ Answer(c, Returned("error"))
  /\ UNCHANGED <<files, puts, crashes, last>>

-----------------------------------------------------------------------------
(* Readers                                                                   *)

\* Get and Open: the data file first; that it is missing is a miss.
ReadData(c, k) ==
  /\ IF data[k] = 0
       THEN at(c, {"idle"}) /\ Answer(c, Returned("miss"))
       ELSE Begin(c, CallOf("read_meta", k, data[k]))
  /\ UNCHANGED <<files, holder, history>>

\* Then the sidecar; that it is missing is an error.
ReadMeta(c) ==
  /\ at(c, {"read_meta"})
  /\ LET m == meta[op[c].key]
     IN  Answer(c, IF m = 0 THEN Returned("get_error") ELSE Blob(op[c].ver, m))
  /\ UNCHANGED <<files, holder, history>>

\* What filepath.WalkDir visits: every file but the sidecars, temp files too.
Listed == {<<"key", k>> : k \in {x \in Keys : data[x] # 0}} \cup temps

\* The sidecar of a listed file; a temp file has none.
sidecar(f) == IF f[1] = "key" THEN meta[f[2]] ELSE 0

ReadDir(c) ==
  /\ Begin(c, [CallOf("walk", NoKey, 0) EXCEPT !.left = Listed])
  /\ UNCHANGED <<files, holder, history>>

\* WalkDir's callback on one file: its sidecar is read, or List fails.
VisitFile(c, f) ==
  /\ at(c, {"walk"})
  /\ f \in op[c].left
  /\ IF sidecar(f) = 0
       THEN Answer(c, Returned("error"))
       ELSE op' = [op EXCEPT ![c].left = @ \ {f}] /\ UNCHANGED reply
  /\ UNCHANGED <<files, holder, history>>

EndList(c) ==
  /\ at(c, {"walk"})
  /\ op[c].left = {}
  /\ Answer(c, Returned("nil"))
  /\ UNCHANGED <<files, holder, history>>

-----------------------------------------------------------------------------

\* The process ends and is started again.
Crash ==
  /\ crashes < MaxCrashes
  /\ \E c \in Clients : ~at(c, {"idle"})
  /\ crashes' = crashes + 1
  /\ torn' = torn \cup {op[c].key : c \in {x \in Clients : halfway(x)}}
  /\ op' = [c \in Clients |-> Idle]
  /\ reply' = [c \in Clients |-> Nothing]
  /\ holder' = [k \in Keys |-> NoClient]
  /\ UNCHANGED <<files, puts, last>>

Call(c) ==
  \/ \E k \in Keys : BeginPut(c, k) \/ BeginDelete(c, k) \/ ReadData(c, k)
  \/ ReadDir(c)

Write(c) ==
  \/ CreateTemp(c) \/ RenameData(c) \/ CreateMetaTemp(c) \/ RenameMeta(c) \/ FailPut(c)
  \/ RemoveData(c) \/ RemoveMeta(c) \/ FailDelete(c)

Read(c) == ReadMeta(c) \/ (\E f \in op[c].left : VisitFile(c, f)) \/ EndList(c)

Next == (\E c \in Clients : Call(c) \/ Lock(c) \/ Write(c) \/ Read(c)) \/ Crash

\* A running call goes on; sync.Mutex hands itself to a waiter it has starved, so
\* a waiter that could lock again and again does.
Fairness == \A c \in Clients : WF_vars(Write(c) \/ Read(c)) /\ SF_vars(Lock(c))

Spec == Init /\ [][Next]_vars /\ Fairness

-----------------------------------------------------------------------------
(* Properties *)

TempFiles == {"blob", "blob-meta"} \X (1..MaxPuts)

\* Every variable has its type, and the calls past Lock are those that hold the
\* mutex of their key (store.go:180-182, 199-201).
TypeOK ==
  /\ data \in [Keys -> 0..MaxPuts] /\ meta \in [Keys -> 0..MaxPuts]
  /\ temps \subseteq TempFiles
  /\ puts \in 0..MaxPuts /\ crashes \in 0..MaxCrashes
  /\ last \in [Keys -> 0..MaxPuts] /\ torn \subseteq Keys
  /\ \A k \in Keys : \A c \in Clients :
       holder[k] = c <=>
         op[c].key = k /\ at(c, writing \cup {"remove_data", "remove_meta"})

\* The per-key mutex (store.go:69-83, 180-182, 199-201): whatever calls race,
\* fail or are cut off by a crash, a key nobody is writing holds the data and the
\* metadata of the last write that succeeded, both or neither; only a write that
\* ended between its two commits can have torn them apart.
AtRestHoldsLastWrite ==
  \A k \in Keys \ torn : holder[k] = NoClient => data[k] = last[k] /\ meta[k] = last[k]

\* List is exact (store.go:232-280, writer.go:42-47): when no call is writing, no
\* key is torn and the process never crashed, the files List visits are the
\* stored blobs, each with its sidecar: no failed Put has left a file behind that
\* would make List, and with it CleanExpired, fail.
ListIsExactAtRest ==
  (crashes = 0 /\ torn = {} /\ \A k \in Keys : holder[k] = NoClient) =>
    /\ temps = {}
    /\ \A k \in Keys : data[k] = last[k] /\ (last[k] # 0 => meta[k] # 0)

\* Every call returns (store.go:180-182): no failure path leaves a key locked.
EveryCallReturns == \A c \in Clients : ~at(c, {"idle"}) ~> at(c, {"idle"})

=============================================================================
