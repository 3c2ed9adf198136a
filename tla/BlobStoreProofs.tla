--------------------------- MODULE BlobStoreProofs ---------------------------
(***************************************************************************)
(* Theorems about BlobStore for any clients, keys and bounds, with or      *)
(* without failing I/O and crashes.                                        *)
(*                                                                         *)
(* The invariant says what each call has done so far to the files of its   *)
(* key.  A key no call is halfway through, and that is not torn, holds its *)
(* last write; a Put past its first rename has its data in place, a Delete *)
(* past its first removal has none.  The mutex is what keeps the calls     *)
(* apart: two that are past Lock have different keys.                      *)
(***************************************************************************)
EXTENDS BlobStore, TLAPS

Labels == {"idle", "put", "delete", "read_meta", "walk", "remove_data", "remove_meta"}
            \cup writing

Files == ({"key"} \X Keys) \cup TempFiles

Calls == [at : Labels, key : Keys \cup {NoKey}, ver : 0..MaxPuts, left : SUBSET Files]

locked(c) == at(c, writing \cup {"remove_data", "remove_meta"})

CallInv ==
  /\ op \in [Clients -> Calls]
  /\ holder \in [Keys -> Clients \cup {NoClient}]
  /\ \A c \in Clients : ~at(c, {"idle", "walk"}) => op[c].key \in Keys
  /\ \A c \in Clients : at(c, {"put"} \cup writing) => op[c].ver \in 1..MaxPuts

\* What a call between its two commits has done.
HalfwayInv ==
  \A c \in Clients :
    /\ at(c, {"create_meta", "rename_meta"}) => data[op[c].key] = op[c].ver
    /\ at(c, {"remove_meta"}) => data[op[c].key] = 0

\* No call is between its two commits to k.
settled(k) == \A c \in Clients : halfway(c) => op[c].key # k

SettledInv == \A k \in Keys \ torn : settled(k) => data[k] = last[k] /\ meta[k] = last[k]

\* Until the first crash a temp file belongs to a Put that is running.
owns(c, t) == \/ at(c, {"rename"}) /\ t = <<"blob", op[c].ver>>
              \/ at(c, {"rename_meta"}) /\ t = <<"blob-meta", op[c].ver>>

TempInv == crashes = 0 => \A t \in temps : \E c \in Clients : owns(c, t)

Inv == TypeOK /\ CallInv /\ HalfwayInv /\ SettledInv /\ TempInv

-----------------------------------------------------------------------------
\* The mutex of a key (store.go:180-182, 199-201): two calls past Lock have
\* different keys.
LEMMA Exclusion ==
  ASSUME Inv, NEW c \in Clients, NEW d \in Clients,
         locked(c), locked(d), op[c].key = op[d].key
  PROVE  c = d
<1>1. op[c].key \in Keys
  BY DEF Inv, CallInv, locked, at, writing
<1>2. holder[op[c].key] = c /\ holder[op[c].key] = d
  BY <1>1 DEF Inv, TypeOK, locked
<1> QED
  BY <1>2

\* A call moves on to its next step.
LEMMA Moves ==
  ASSUME Inv, NEW c \in Clients, NEW l \in Labels, goto(c, l)
  PROVE  /\ op' \in [Clients -> Calls]
         /\ op'[c].at = l /\ op'[c].key = op[c].key /\ op'[c].ver = op[c].ver
         /\ \A d \in Clients \ {c} : op'[d] = op[d]
<1>1. op \in [Clients -> Calls]
  BY DEF Inv, CallInv
<1>2. op[c] \in Calls
  BY <1>1
<1>3. [op[c] EXCEPT !.at = l] \in Calls
  BY <1>2 DEF Calls
<1>4. op' = [op EXCEPT ![c] = [op[c] EXCEPT !.at = l]]
  BY DEF goto
<1> QED
  BY <1>1, <1>2, <1>3, <1>4 DEF Calls

\* A call returns.
LEMMA Ends ==
  ASSUME Inv, NEW c \in Clients, NEW r, Answer(c, r)
  PROVE  /\ op' \in [Clients -> Calls]
         /\ op'[c].at = "idle" /\ op'[c].key = NoKey
         /\ \A d \in Clients \ {c} : op'[d] = op[d]
<1>1. op \in [Clients -> Calls]
  BY DEF Inv, CallInv
<1>2. Idle \in Calls
  BY BlobStoreAssumption DEF Idle, Calls, Labels
<1>3. op' = [op EXCEPT ![c] = Idle]
  BY DEF Answer
<1> QED
  BY <1>1, <1>2, <1>3 DEF Idle

\* A call begins.
LEMMA Begins ==
  ASSUME Inv, NEW c \in Clients, NEW call \in Calls, Begin(c, call)
  PROVE  /\ op' \in [Clients -> Calls]
         /\ op'[c] = call
         /\ \A d \in Clients \ {c} : op'[d] = op[d]
<1>1. op \in [Clients -> Calls]
  BY DEF Inv, CallInv
<1>2. op' = [op EXCEPT ![c] = call]
  BY DEF Begin
<1> QED
  BY <1>1, <1>2

-----------------------------------------------------------------------------
\* Put is called (store.go:145-178).
LEMMA BeginPutKeeps ==
  ASSUME Inv, NEW c \in Clients, NEW k \in Keys, BeginPut(c, k)
  PROVE  Inv'
<1> DEFINE call == CallOf("put", k, puts + 1)
<1>1. puts \in Nat /\ puts + 1 \in 1..MaxPuts /\ puts' = puts + 1
  BY BlobStoreAssumption DEF Inv, TypeOK, BeginPut
<1>2. call \in Calls /\ call.at = "put" /\ call.key = k /\ call.ver = puts + 1
  BY <1>1 DEF CallOf, Calls, Labels
<1>3. at(c, {"idle"}) /\ Begin(c, call)
  BY DEF BeginPut, Begin
<1> HIDE DEF call
<1>4. /\ op' \in [Clients -> Calls] /\ op'[c] = call
      /\ \A d \in Clients \ {c} : op'[d] = op[d]
  BY <1>2, <1>3, Begins
<1>5. UNCHANGED <<data, meta, temps, holder, crashes, last, torn>>
  BY DEF BeginPut, files
<1>6. TypeOK'
  BY <1>1, <1>2, <1>3, <1>4, <1>5 DEF Inv, TypeOK, TempFiles, at, writing
<1>7. CallInv'
  BY <1>1, <1>2, <1>4, <1>5 DEF Inv, CallInv, at, writing
<1>8. HalfwayInv'
  BY <1>2, <1>4, <1>5 DEF Inv, HalfwayInv, at
<1>9. SettledInv'
  BY <1>2, <1>3, <1>4, <1>5 DEF Inv, SettledInv, settled, halfway, at
<1>10. TempInv'
  BY <1>2, <1>3, <1>4, <1>5 DEF Inv, TempInv, owns, at
<1> QED
  BY <1>6, <1>7, <1>8, <1>9, <1>10 DEF Inv

\* Lock (store.go:69-83) makes c the only call past it for its key.
LEMMA LockKeeps ==
  ASSUME Inv, NEW c \in Clients, Lock(c)
  PROVE  Inv'
<1> DEFINE l == IF at(c, {"put"}) THEN "create" ELSE "remove_data"
<1> DEFINE k == op[c].key
<1>1. /\ at(c, {"put", "delete"}) /\ k \in Keys /\ holder[k] = NoClient
      /\ holder' = [holder EXCEPT ![k] = c] /\ goto(c, l)
      /\ UNCHANGED <<data, meta, temps, puts, crashes, last, torn>>
  BY DEF Lock, files, history, Inv, CallInv, at
<1>2. l \in Labels /\ l \in {"create", "remove_data"} /\ (l = "create" <=> at(c, {"put"}))
  BY DEF Labels, writing
<1> HIDE DEF l
<1>3. /\ op' \in [Clients -> Calls]
      /\ op'[c].at = l /\ op'[c].key = k /\ op'[c].ver = op[c].ver
      /\ \A d \in Clients \ {c} : op'[d] = op[d]
  BY <1>1, <1>2, Moves
<1>4. holder' \in [Keys -> Clients \cup {NoClient}] /\ holder'[k] = c
  BY <1>1 DEF Inv, CallInv
<1>5. \A j \in Keys \ {k} : holder'[j] = holder[j]
  BY <1>1 DEF Inv, CallInv
<1>6. TypeOK'
  <2>1. ASSUME NEW j \in Keys, NEW d \in Clients
        PROVE  (holder[j] = d <=> op[d].key = j /\ at(d, writing \cup {"remove_data", "remove_meta"}))'
    BY <1>1, <1>2, <1>3, <1>4, <1>5, BlobStoreAssumption DEF Inv, TypeOK, at, writing
  <2> QED
    BY <2>1, <1>1 DEF Inv, TypeOK, TempFiles
<1>7. CallInv'
  BY <1>1, <1>2, <1>3, <1>4 DEF Inv, CallInv, at, writing
<1>8. HalfwayInv'
  BY <1>1, <1>2, <1>3 DEF Inv, HalfwayInv, at
<1>9. SettledInv'
  BY <1>1, <1>2, <1>3 DEF Inv, SettledInv, settled, halfway, at
<1>10. TempInv'
  BY <1>1, <1>2, <1>3 DEF Inv, TempInv, owns, at
<1> QED
  BY <1>6, <1>7, <1>8, <1>9, <1>10 DEF Inv
-----------------------------------------------------------------------------
\* Delete is called (store.go:193-197).
LEMMA BeginDeleteKeeps ==
  ASSUME Inv, NEW c \in Clients, NEW k \in Keys, BeginDelete(c, k)
  PROVE  Inv'
<1> DEFINE call == CallOf("delete", k, 0)
<1>1. call \in Calls /\ call.at = "delete" /\ call.key = k
  BY BlobStoreAssumption DEF CallOf, Calls, Labels
<1>2. /\ at(c, {"idle"}) /\ Begin(c, call)
      /\ UNCHANGED <<data, meta, temps, holder, puts, crashes, last, torn>>
  BY DEF BeginDelete, Begin, files, history
<1> HIDE DEF call
<1>3. /\ op' \in [Clients -> Calls] /\ op'[c] = call
      /\ \A d \in Clients \ {c} : op'[d] = op[d]
  BY <1>1, <1>2, Begins
<1>4. TypeOK'
  BY <1>1, <1>2, <1>3 DEF Inv, TypeOK, TempFiles, at, writing
<1>5. CallInv'
  BY <1>1, <1>2, <1>3 DEF Inv, CallInv, at, writing
<1>6. HalfwayInv'
  BY <1>1, <1>2, <1>3 DEF Inv, HalfwayInv, at
<1>7. SettledInv'
  BY <1>1, <1>2, <1>3 DEF Inv, SettledInv, settled, halfway, at
<1>8. TempInv'
  BY <1>1, <1>2, <1>3 DEF Inv, TempInv, owns, at
<1> QED
  BY <1>4, <1>5, <1>6, <1>7, <1>8 DEF Inv

-----------------------------------------------------------------------------
\* The temp file is created and filled (writer.go:32-51): it is the caller's.
LEMMA CreateTempKeeps ==
  ASSUME Inv, NEW c \in Clients, CreateTemp(c)
  PROVE  Inv'
<1> DEFINE t == <<"blob", op[c].ver>>
<1>1. /\ at(c, {"create"}) /\ goto(c, "rename") /\ temps' = temps \cup {t}
      /\ UNCHANGED <<data, meta, holder, puts, crashes, last, torn>>
  BY DEF CreateTemp, history
<1>2. /\ op' \in [Clients -> Calls]
      /\ op'[c].at = "rename" /\ op'[c].key = op[c].key /\ op'[c].ver = op[c].ver
      /\ \A d \in Clients \ {c} : op'[d] = op[d]
  BY <1>1, Moves DEF Labels, writing
<1>3. t \in TempFiles
  BY <1>1 DEF Inv, CallInv, at, writing, TempFiles
<1>4. TypeOK'
  BY <1>1, <1>2, <1>3 DEF Inv, TypeOK, TempFiles, at, writing
<1>5. CallInv'
  BY <1>1, <1>2 DEF Inv, CallInv, at, writing
<1>6. HalfwayInv'
  BY <1>1, <1>2 DEF Inv, HalfwayInv, at
<1>7. SettledInv'
  BY <1>1, <1>2 DEF Inv, SettledInv, settled, halfway, at
<1>8. TempInv'
  BY <1>1, <1>2 DEF Inv, TempInv, owns, at
<1> QED
  BY <1>4, <1>5, <1>6, <1>7, <1>8 DEF Inv

\* The data is renamed into place (writer.go:52-60); the mutex keeps any other
\* call between its commits away from this key.
LEMMA RenameDataKeeps ==
  ASSUME Inv, NEW c \in Clients, RenameData(c)
  PROVE  Inv'
<1> DEFINE k == op[c].key
<1>1. /\ at(c, {"rename"}) /\ goto(c, "create_meta")
      /\ temps' = temps \ {<<"blob", op[c].ver>>}
      /\ data' = [data EXCEPT ![k] = op[c].ver]
      /\ UNCHANGED <<meta, holder, puts, crashes, last, torn>>
  BY DEF RenameData, history
<1>2. /\ op' \in [Clients -> Calls]
      /\ op'[c].at = "create_meta" /\ op'[c].key = k /\ op'[c].ver = op[c].ver
      /\ \A d \in Clients \ {c} : op'[d] = op[d]
  BY <1>1, Moves DEF Labels, writing
<1>3. k \in Keys /\ op[c].ver \in 1..MaxPuts /\ locked(c)
  BY <1>1 DEF Inv, CallInv, at, writing, locked
<1>4. data' \in [Keys -> 0..MaxPuts] /\ data'[k] = op[c].ver
      /\ \A j \in Keys \ {k} : data'[j] = data[j]
  BY <1>1, <1>3 DEF Inv, TypeOK
<1>5. TypeOK'
  BY <1>1, <1>2, <1>4 DEF Inv, TypeOK, TempFiles, at, writing
<1>6. CallInv'
  BY <1>1, <1>2 DEF Inv, CallInv, at, writing
<1>7. HalfwayInv'
  <2>1. ASSUME NEW d \in Clients \ {c}, halfway(d)
        PROVE  op[d].key \in Keys \ {k}
    BY <2>1, <1>3, Exclusion DEF Inv, CallInv, halfway, locked, at, writing
  <2> QED
    BY <2>1, <1>2, <1>4 DEF Inv, HalfwayInv, halfway, at
<1>8. SettledInv'
  <2>1. ASSUME NEW j \in Keys \ torn, settled(j)'
        PROVE  j # k /\ settled(j)
    BY <2>1, <1>1, <1>2 DEF settled, halfway, at
  <2> QED
    BY <2>1, <1>1, <1>4 DEF Inv, SettledInv
<1>9. TempInv'
  BY <1>1, <1>2 DEF Inv, TempInv, owns, at
<1> QED
  BY <1>5, <1>6, <1>7, <1>8, <1>9 DEF Inv

\* The temp file of the sidecar (metadata.go:47-72).
LEMMA CreateMetaTempKeeps ==
  ASSUME Inv, NEW c \in Clients, CreateMetaTemp(c)
  PROVE  Inv'
<1> DEFINE t == <<"blob-meta", op[c].ver>>
<1>1. /\ at(c, {"create_meta"}) /\ goto(c, "rename_meta") /\ temps' = temps \cup {t}
      /\ UNCHANGED <<data, meta, holder, puts, crashes, last, torn>>
  BY DEF CreateMetaTemp, history
<1>2. /\ op' \in [Clients -> Calls]
      /\ op'[c].at = "rename_meta" /\ op'[c].key = op[c].key /\ op'[c].ver = op[c].ver
      /\ \A d \in Clients \ {c} : op'[d] = op[d]
  BY <1>1, Moves DEF Labels, writing
<1>3. t \in TempFiles
  BY <1>1 DEF Inv, CallInv, at, writing, TempFiles
<1>4. TypeOK'
  BY <1>1, <1>2, <1>3 DEF Inv, TypeOK, TempFiles, at, writing
<1>5. CallInv'
  BY <1>1, <1>2 DEF Inv, CallInv, at, writing
<1>6. HalfwayInv'
  BY <1>1, <1>2 DEF Inv, HalfwayInv, at
<1>7. SettledInv'
  BY <1>1, <1>2 DEF Inv, SettledInv, settled, halfway, at
<1>8. TempInv'
  BY <1>1, <1>2 DEF Inv, TempInv, owns, at
<1> QED
  BY <1>4, <1>5, <1>6, <1>7, <1>8 DEF Inv

\* A call that held its key's mutex returns it with its answer.
LEMMA UnlockedTypes ==
  ASSUME Inv, NEW c \in Clients, NEW r, locked(c), Unlock(c), Answer(c, r)
  PROVE  /\ CallInv'
         /\ \A k \in Keys : \A d \in Clients :
              (holder[k] = d <=> op[d].key = k /\ at(d, writing \cup {"remove_data", "remove_meta"}))'
<1> DEFINE k == op[c].key
<1>1. /\ op' \in [Clients -> Calls] /\ op'[c].at = "idle"
      /\ \A d \in Clients \ {c} : op'[d] = op[d]
  BY Ends
<1>2. k \in Keys /\ holder[k] = c
  BY DEF Inv, CallInv, TypeOK, locked, at, writing
<1>3. /\ holder' \in [Keys -> Clients \cup {NoClient}] /\ holder'[k] = NoClient
      /\ \A j \in Keys \ {k} : holder'[j] = holder[j]
  BY <1>2 DEF Inv, CallInv, Unlock
<1>4. CallInv'
  BY <1>1, <1>3 DEF Inv, CallInv, at, writing
<1>5. ASSUME NEW j \in Keys, NEW d \in Clients
      PROVE  (holder[j] = d <=> op[d].key = j /\ at(d, writing \cup {"remove_data", "remove_meta"}))'
  BY <1>1, <1>2, <1>3, BlobStoreAssumption DEF Inv, TypeOK, at, writing
<1> QED
  BY <1>4, <1>5

\* The rename of the sidecar commits the Put (metadata.go:73-78): data and
\* sidecar are now both this Put's.
LEMMA RenameMetaKeeps ==
  ASSUME Inv, NEW c \in Clients, RenameMeta(c)
  PROVE  Inv'
<1> DEFINE k == op[c].key
<1>1. /\ at(c, {"rename_meta"}) /\ Answer(c, Returned("nil")) /\ Unlock(c)
      /\ temps' = temps \ {<<"blob-meta", op[c].ver>>}
      /\ meta' = [meta EXCEPT ![k] = op[c].ver]
      /\ last' = [last EXCEPT ![k] = op[c].ver]
      /\ torn' = torn \ {k}
      /\ UNCHANGED <<data, puts, crashes>>
  BY DEF RenameMeta
<1>2. /\ op' \in [Clients -> Calls] /\ op'[c].at = "idle"
      /\ \A d \in Clients \ {c} : op'[d] = op[d]
  BY <1>1, Ends
<1>3. k \in Keys /\ op[c].ver \in 1..MaxPuts /\ locked(c) /\ data[k] = op[c].ver
  BY <1>1 DEF Inv, CallInv, HalfwayInv, at, writing, locked
<1>4. /\ meta' \in [Keys -> 0..MaxPuts] /\ meta'[k] = op[c].ver
      /\ last' \in [Keys -> 0..MaxPuts] /\ last'[k] = op[c].ver
      /\ \A j \in Keys \ {k} : meta'[j] = meta[j] /\ last'[j] = last[j]
  BY <1>1, <1>3 DEF Inv, TypeOK
<1>5. TypeOK' /\ CallInv'
  BY <1>1, <1>3, <1>4, UnlockedTypes DEF Inv, TypeOK, TempFiles
<1>6. HalfwayInv'
  BY <1>1, <1>2 DEF Inv, HalfwayInv, at
<1>7. SettledInv'
  <2>1. ASSUME NEW j \in Keys \ {k}, settled(j)'
        PROVE  settled(j)
    BY <2>1, <1>2 DEF settled, halfway, at
  <2> QED
    BY <2>1, <1>1, <1>3, <1>4 DEF Inv, SettledInv
<1>8. TempInv'
  BY <1>1, <1>2 DEF Inv, TempInv, owns, at
<1> QED
  BY <1>5, <1>6, <1>7, <1>8 DEF Inv

\* A call that fails past Lock (store.go:184-187, 203-208; writer.go:42-73):
\* either it has committed nothing, or its key is torn.
LEMMA FailureSettles ==
  ASSUME Inv, NEW c \in Clients, locked(c), Answer(c, Returned("error")),
         torn' = IF halfway(c) THEN torn \cup {op[c].key} ELSE torn,
         UNCHANGED <<data, meta, last>>
  PROVE  HalfwayInv' /\ SettledInv' /\ torn' \subseteq Keys
<1>1. /\ op' \in [Clients -> Calls] /\ op'[c].at = "idle"
      /\ \A d \in Clients \ {c} : op'[d] = op[d]
  BY Ends
<1>2. op[c].key \in Keys
  BY DEF Inv, CallInv, locked, at, writing
<1>3. HalfwayInv'
  BY <1>1 DEF Inv, HalfwayInv, at
<1>4. ASSUME NEW j \in Keys \ torn', settled(j)'
      PROVE  j \notin torn /\ settled(j)
  BY <1>4, <1>1 DEF settled, halfway, at
<1>5. SettledInv'
  BY <1>4 DEF Inv, SettledInv
<1> QED
  BY <1>2, <1>3, <1>5 DEF Inv, TypeOK

LEMMA FailPutKeeps ==
  ASSUME Inv, NEW c \in Clients, FailPut(c)
  PROVE  Inv'
<1>1. /\ at(c, writing) /\ Answer(c, Returned("error")) /\ Unlock(c)
      /\ temps' = temps \ {<<"blob", op[c].ver>>, <<"blob-meta", op[c].ver>>}
      /\ torn' = IF halfway(c) THEN torn \cup {op[c].key} ELSE torn
      /\ UNCHANGED <<data, meta, puts, crashes, last>>
  BY DEF FailPut
<1>2. /\ op'[c].at = "idle" /\ \A d \in Clients \ {c} : op'[d] = op[d]
  BY <1>1, Ends
<1>3. locked(c)
  BY <1>1 DEF locked, at
<1>4. HalfwayInv' /\ SettledInv' /\ torn' \subseteq Keys
  BY <1>1, <1>3, FailureSettles
<1>5. TypeOK' /\ CallInv'
  BY <1>1, <1>3, <1>4, UnlockedTypes DEF Inv, TypeOK, TempFiles
<1>6. TempInv'
  BY <1>1, <1>2 DEF Inv, TempInv, owns, at
<1> QED
  BY <1>4, <1>5, <1>6 DEF Inv

-----------------------------------------------------------------------------
\* Delete removes the data (store.go:203-205).
LEMMA RemoveDataKeeps ==
  ASSUME Inv, NEW c \in Clients, RemoveData(c)
  PROVE  Inv'
<1> DEFINE k == op[c].key
<1>1. /\ at(c, {"remove_data"}) /\ goto(c, "remove_meta")
      /\ data' = [data EXCEPT ![k] = 0]
      /\ UNCHANGED <<meta, temps, holder, puts, crashes, last, torn>>
  BY DEF RemoveData, history
<1>2. /\ op' \in [Clients -> Calls]
      /\ op'[c].at = "remove_meta" /\ op'[c].key = k /\ op'[c].ver = op[c].ver
      /\ \A d \in Clients \ {c} : op'[d] = op[d]
  BY <1>1, Moves DEF Labels
<1>3. k \in Keys /\ locked(c)
  BY <1>1 DEF Inv, CallInv, at, locked
<1>4. data' \in [Keys -> 0..MaxPuts] /\ data'[k] = 0
      /\ \A j \in Keys \ {k} : data'[j] = data[j]
  BY <1>1, <1>3, BlobStoreAssumption DEF Inv, TypeOK
<1>5. TypeOK'
  BY <1>1, <1>2, <1>4 DEF Inv, TypeOK, TempFiles, at, writing
<1>6. CallInv'
  BY <1>1, <1>2 DEF Inv, CallInv, at, writing
<1>7. HalfwayInv'
  <2>1. ASSUME NEW d \in Clients \ {c}, halfway(d)
        PROVE  op[d].key \in Keys \ {k}
    BY <2>1, <1>3, Exclusion DEF Inv, CallInv, halfway, locked, at, writing
  <2> QED
    BY <2>1, <1>2, <1>4 DEF Inv, HalfwayInv, halfway, at
<1>8. SettledInv'
  <2>1. ASSUME NEW j \in Keys \ torn, settled(j)'
        PROVE  j # k /\ settled(j)
    BY <2>1, <1>1, <1>2 DEF settled, halfway, at
  <2> QED
    BY <2>1, <1>1, <1>4 DEF Inv, SettledInv
<1>9. TempInv'
  BY <1>1, <1>2 DEF Inv, TempInv, owns, at
<1> QED
  BY <1>5, <1>6, <1>7, <1>8, <1>9 DEF Inv

\* Delete removes the sidecar and returns nil (store.go:206-211).
LEMMA RemoveMetaKeeps ==
  ASSUME Inv, NEW c \in Clients, RemoveMeta(c)
  PROVE  Inv'
<1> DEFINE k == op[c].key
<1>1. /\ at(c, {"remove_meta"}) /\ Answer(c, Returned("nil")) /\ Unlock(c)
      /\ meta' = [meta EXCEPT ![k] = 0]
      /\ last' = [last EXCEPT ![k] = 0]
      /\ torn' = torn \ {k}
      /\ UNCHANGED <<data, temps, puts, crashes>>
  BY DEF RemoveMeta
<1>2. /\ op' \in [Clients -> Calls] /\ op'[c].at = "idle"
      /\ \A d \in Clients \ {c} : op'[d] = op[d]
  BY <1>1, Ends
<1>3. k \in Keys /\ locked(c) /\ data[k] = 0
  BY <1>1 DEF Inv, CallInv, HalfwayInv, at, locked
<1>4. /\ meta' \in [Keys -> 0..MaxPuts] /\ meta'[k] = 0
      /\ last' \in [Keys -> 0..MaxPuts] /\ last'[k] = 0
      /\ \A j \in Keys \ {k} : meta'[j] = meta[j] /\ last'[j] = last[j]
  BY <1>1, <1>3, BlobStoreAssumption DEF Inv, TypeOK
<1>5. TypeOK' /\ CallInv'
  BY <1>1, <1>3, <1>4, UnlockedTypes DEF Inv, TypeOK, TempFiles
<1>6. HalfwayInv'
  BY <1>1, <1>2 DEF Inv, HalfwayInv, at
<1>7. SettledInv'
  <2>1. ASSUME NEW j \in Keys \ {k}, settled(j)'
        PROVE  settled(j)
    BY <2>1, <1>2 DEF settled, halfway, at
  <2> QED
    BY <2>1, <1>1, <1>3, <1>4 DEF Inv, SettledInv
<1>8. TempInv'
  BY <1>1, <1>2 DEF Inv, TempInv, owns, at
<1> QED
  BY <1>5, <1>6, <1>7, <1>8 DEF Inv

LEMMA FailDeleteKeeps ==
  ASSUME Inv, NEW c \in Clients, FailDelete(c)
  PROVE  Inv'
<1>1. /\ at(c, {"remove_data", "remove_meta"}) /\ Answer(c, Returned("error")) /\ Unlock(c)
      /\ torn' = IF halfway(c) THEN torn \cup {op[c].key} ELSE torn
      /\ UNCHANGED <<data, meta, temps, puts, crashes, last>>
  BY DEF FailDelete, files
<1>2. /\ op'[c].at = "idle" /\ \A d \in Clients \ {c} : op'[d] = op[d]
  BY <1>1, Ends
<1>3. locked(c)
  BY <1>1 DEF locked, at
<1>4. HalfwayInv' /\ SettledInv' /\ torn' \subseteq Keys
  BY <1>1, <1>3, FailureSettles
<1>5. TypeOK' /\ CallInv'
  BY <1>1, <1>3, <1>4, UnlockedTypes DEF Inv, TypeOK, TempFiles
<1>6. TempInv'
  BY <1>1, <1>2 DEF Inv, TempInv, owns, at
<1> QED
  BY <1>4, <1>5, <1>6 DEF Inv

-----------------------------------------------------------------------------
\* A step of a reader touches no file and no mutex (store.go:121-171, 232-280):
\* it leaves the call it is in for another label of a reader, or for "idle".
LEMMA ReaderKeeps ==
  ASSUME Inv, NEW c \in Clients,
         at(c, {"idle", "read_meta", "walk"}),
         op' \in [Clients -> Calls],
         op'[c].at \in {"idle", "read_meta", "walk"},
         op'[c].at = "read_meta" => op'[c].key \in Keys,
         \A d \in Clients \ {c} : op'[d] = op[d],
         UNCHANGED <<files, holder, history>>
  PROVE  Inv'
<1>1. UNCHANGED <<data, meta, temps, holder, puts, crashes, last, torn>>
  BY DEF files, history
<1>2. TypeOK'
  BY <1>1 DEF Inv, TypeOK, TempFiles, at, writing
<1>3. CallInv'
  BY <1>1 DEF Inv, CallInv, at, writing
<1>4. HalfwayInv'
  BY <1>1 DEF Inv, HalfwayInv, at
<1>5. SettledInv'
  BY <1>1 DEF Inv, SettledInv, settled, halfway, at
<1>6. TempInv'
  BY <1>1 DEF Inv, TempInv, owns, at
<1> QED
  BY <1>2, <1>3, <1>4, <1>5, <1>6 DEF Inv

LEMMA ReadDataKeeps ==
  ASSUME Inv, NEW c \in Clients, NEW k \in Keys, ReadData(c, k)
  PROVE  Inv'
<1>1. UNCHANGED <<files, holder, history>>
  BY DEF ReadData
<1>2. CASE data[k] = 0
  <2>1. at(c, {"idle"}) /\ Answer(c, Returned("miss"))
    BY <1>2 DEF ReadData
  <2>2. /\ op' \in [Clients -> Calls] /\ op'[c].at = "idle"
        /\ \A d \in Clients \ {c} : op'[d] = op[d]
    BY <2>1, Ends
  <2> QED
    BY <1>1, <2>1, <2>2, ReaderKeeps DEF at
<1>3. CASE data[k] # 0
  <2> DEFINE call == CallOf("read_meta", k, data[k])
  <2>1. at(c, {"idle"}) /\ Begin(c, call)
    BY <1>3 DEF ReadData, Begin
  <2>2. call \in Calls /\ call.at = "read_meta" /\ call.key = k
    BY DEF CallOf, Calls, Labels, Inv, TypeOK
  <2> HIDE DEF call
  <2>3. /\ op' \in [Clients -> Calls] /\ op'[c] = call
        /\ \A d \in Clients \ {c} : op'[d] = op[d]
    BY <2>1, <2>2, Begins
  <2> QED
    BY <1>1, <2>1, <2>2, <2>3, ReaderKeeps DEF at
<1> QED
  BY <1>2, <1>3

LEMMA ReadMetaKeeps ==
  ASSUME Inv, NEW c \in Clients, ReadMeta(c)
  PROVE  Inv'
<1>1. /\ at(c, {"read_meta"}) /\ UNCHANGED <<files, holder, history>>
      /\ \E r : Answer(c, r)
  BY DEF ReadMeta
<1>2. /\ op' \in [Clients -> Calls] /\ op'[c].at = "idle"
      /\ \A d \in Clients \ {c} : op'[d] = op[d]
  BY <1>1, Ends
<1> QED
  BY <1>1, <1>2, ReaderKeeps DEF at

LEMMA ReadDirKeeps ==
  ASSUME Inv, NEW c \in Clients, ReadDir(c)
  PROVE  Inv'
<1> DEFINE call == [CallOf("walk", NoKey, 0) EXCEPT !.left = Listed]
<1>1. at(c, {"idle"}) /\ Begin(c, call) /\ UNCHANGED <<files, holder, history>>
  BY DEF ReadDir, Begin
<1>2. Listed \in SUBSET Files
  BY DEF Listed, Files, Inv, TypeOK
<1>3. call \in Calls /\ call.at = "walk"
  <2>1. call = [at |-> "walk", key |-> NoKey, ver |-> 0, left |-> Listed]
    BY DEF CallOf
  <2> HIDE DEF call
  <2> QED
    BY <1>2, <2>1, BlobStoreAssumption DEF Calls, Labels
<1> HIDE DEF call
<1>4. /\ op' \in [Clients -> Calls] /\ op'[c] = call
      /\ \A d \in Clients \ {c} : op'[d] = op[d]
  BY <1>1, <1>3, Begins
<1> QED
  BY <1>1, <1>3, <1>4, ReaderKeeps DEF at

LEMMA VisitFileKeeps ==
  ASSUME Inv, NEW c \in Clients, NEW f \in op[c].left, VisitFile(c, f)
  PROVE  Inv'
<1>1. at(c, {"walk"}) /\ UNCHANGED <<files, holder, history>>
  BY DEF VisitFile
<1>2. CASE sidecar(f) = 0
  <2>1. Answer(c, Returned("error"))
    BY <1>2 DEF VisitFile
  <2>2. /\ op' \in [Clients -> Calls] /\ op'[c].at = "idle"
        /\ \A d \in Clients \ {c} : op'[d] = op[d]
    BY <2>1, Ends
  <2> QED
    BY <1>1, <2>2, ReaderKeeps DEF at
<1>3. CASE sidecar(f) # 0
  <2>1. op \in [Clients -> Calls] /\ op[c] \in Calls
    BY DEF Inv, CallInv
  <2>2. op' = [op EXCEPT ![c] = [op[c] EXCEPT !.left = op[c].left \ {f}]]
    BY <1>3 DEF VisitFile
  <2>3. /\ [op[c] EXCEPT !.left = op[c].left \ {f}] \in Calls
        /\ [op[c] EXCEPT !.left = op[c].left \ {f}].at = "walk"
    BY <1>1, <2>1 DEF Calls, at
  <2>4. /\ op' \in [Clients -> Calls] /\ op'[c].at = "walk"
        /\ \A d \in Clients \ {c} : op'[d] = op[d]
    BY <2>1, <2>2, <2>3
  <2> QED
    BY <1>1, <2>4, ReaderKeeps DEF at
<1> QED
  BY <1>2, <1>3

LEMMA EndListKeeps ==
  ASSUME Inv, NEW c \in Clients, EndList(c)
  PROVE  Inv'
<1>1. /\ at(c, {"walk"}) /\ UNCHANGED <<files, holder, history>>
      /\ Answer(c, Returned("nil"))
  BY DEF EndList
<1>2. /\ op' \in [Clients -> Calls] /\ op'[c].at = "idle"
      /\ \A d \in Clients \ {c} : op'[d] = op[d]
  BY <1>1, Ends
<1> QED
  BY <1>1, <1>2, ReaderKeeps DEF at

-----------------------------------------------------------------------------
\* A crash ends every call and gives back every mutex; the keys of the calls that
\* were halfway are torn.
LEMMA CrashKeeps ==
  ASSUME Inv, Crash
  PROVE  Inv'
<1>1. /\ crashes < MaxCrashes /\ crashes' = crashes + 1
      /\ torn' = torn \cup {op[c].key : c \in {x \in Clients : halfway(x)}}
      /\ op' = [c \in Clients |-> Idle]
      /\ holder' = [k \in Keys |-> NoClient]
      /\ UNCHANGED <<data, meta, temps, puts, last>>
  BY DEF Crash, files
<1>2. Idle \in Calls /\ Idle.at = "idle"
  BY BlobStoreAssumption DEF Idle, Calls, Labels
<1>3. crashes' \in 0..MaxCrashes /\ crashes' # 0
  BY <1>1, BlobStoreAssumption DEF Inv, TypeOK
<1>4. torn' \subseteq Keys
  BY <1>1 DEF Inv, TypeOK, CallInv, halfway, at
<1>5. TypeOK'
  BY <1>1, <1>2, <1>3, <1>4, BlobStoreAssumption DEF Inv, TypeOK, TempFiles, at, writing
<1>6. CallInv'
  BY <1>1, <1>2 DEF CallInv, at, writing
<1>7. HalfwayInv'
  BY <1>1, <1>2 DEF HalfwayInv, at
<1>8. SettledInv'
  <2>1. ASSUME NEW j \in Keys \ torn' PROVE j \notin torn /\ settled(j)
    BY <1>1 DEF settled
  <2> QED
    BY <2>1, <1>1 DEF Inv, SettledInv
<1>9. TempInv'
  BY <1>3 DEF TempInv
<1> QED
  BY <1>5, <1>6, <1>7, <1>8, <1>9 DEF Inv

-----------------------------------------------------------------------------
LEMMA InitInv == Init => Inv
<1> SUFFICES ASSUME Init PROVE Inv
  OBVIOUS
<1>1. Idle \in Calls /\ Idle.at = "idle"
  BY BlobStoreAssumption DEF Idle, Calls, Labels
<1>2. TypeOK
  BY <1>1, BlobStoreAssumption DEF Init, TypeOK, at, writing
<1>3. CallInv
  BY <1>1 DEF Init, CallInv, at, writing
<1>4. HalfwayInv
  BY <1>1 DEF Init, HalfwayInv, at
<1>5. SettledInv
  BY DEF Init, SettledInv
<1>6. TempInv
  BY DEF Init, TempInv
<1> QED
  BY <1>2, <1>3, <1>4, <1>5, <1>6 DEF Inv

LEMMA NextInv == Inv /\ [Next]_vars => Inv'
<1> SUFFICES ASSUME Inv, [Next]_vars PROVE Inv'
  OBVIOUS
<1>1. ASSUME NEW c \in Clients, Call(c) PROVE Inv'
  BY <1>1, BeginPutKeeps, BeginDeleteKeeps, ReadDataKeeps, ReadDirKeeps DEF Call
<1>2. ASSUME NEW c \in Clients, Lock(c) PROVE Inv'
  BY <1>2, LockKeeps
<1>3. ASSUME NEW c \in Clients, Write(c) PROVE Inv'
  BY <1>3, CreateTempKeeps, RenameDataKeeps, CreateMetaTempKeeps, RenameMetaKeeps,
     FailPutKeeps, RemoveDataKeeps, RemoveMetaKeeps, FailDeleteKeeps DEF Write
<1>4. ASSUME NEW c \in Clients, Read(c) PROVE Inv'
  BY <1>4, ReadMetaKeeps, VisitFileKeeps, EndListKeeps DEF Read
<1>5. CASE Crash
  BY <1>5, CrashKeeps
<1>6. CASE UNCHANGED vars
  <2>1. UNCHANGED <<data, meta, temps, holder, op, puts, crashes, last, torn>>
    BY <1>6 DEF vars, files, history
  <2> QED
    BY <2>1 DEF Inv, TypeOK, TempFiles, CallInv, HalfwayInv, SettledInv, settled, halfway,
       TempInv, owns, at
<1> QED
  BY <1>1, <1>2, <1>3, <1>4, <1>5, <1>6 DEF Next

\* The inductive invariant holds of every reachable state (store.go:170-280,
\* writer.go:32-76): who holds each mutex, which files are halfway through a
\* write, and what every other key holds.
THEOREM Invariant == Spec => []Inv
<1> QED
  BY InitInv, NextInv, PTL DEF Spec

\* Types, and mutual exclusion: the client that holds a key's mutex is the one
\* that is between Lock and Unlock on that key (store.go:180-182, 199-201).
THEOREM TypeCorrect == Spec => []TypeOK
<1>1. Inv => TypeOK
  BY DEF Inv
<1> QED
  BY <1>1, Invariant, PTL

\* A key nobody is writing holds the data and the metadata of the last write
\* that returned nil (writer.go:32-76, store.go:193-213), for any number of
\* goroutines and keys, whatever fails and wherever the process dies, unless a
\* write ended between its two commits.
THEOREM LastWriteHolds == Spec => []AtRestHoldsLastWrite
<1>1. Inv => AtRestHoldsLastWrite
  <2> SUFFICES ASSUME Inv, NEW k \in Keys \ torn, holder[k] = NoClient
               PROVE  data[k] = last[k] /\ meta[k] = last[k]
    BY DEF AtRestHoldsLastWrite
  <2>1. settled(k)
    BY BlobStoreAssumption DEF Inv, TypeOK, settled, halfway, at, writing
  <2> QED
    BY <2>1 DEF Inv, SettledInv
<1> QED
  BY <1>1, Invariant, PTL

\* Until the first crash no call leaves a temp file behind, so List finds the
\* stored blobs and nothing else (writer.go:42-47, store.go:232-280).
THEOREM ListIsExact == Spec => []ListIsExactAtRest
<1>1. Inv => ListIsExactAtRest
  <2> SUFFICES ASSUME Inv, crashes = 0, torn = {}, \A k \in Keys : holder[k] = NoClient
               PROVE  temps = {} /\ \A k \in Keys : data[k] = last[k] /\ meta[k] = last[k]
    BY DEF ListIsExactAtRest
  <2>1. ASSUME NEW c \in Clients PROVE ~locked(c)
    BY BlobStoreAssumption DEF Inv, TypeOK, CallInv, locked, at, writing
  <2>2. temps = {}
    BY <2>1 DEF Inv, TempInv, owns, locked, at, writing
  <2>3. \A k \in Keys : settled(k)
    BY <2>1 DEF settled, halfway, locked, at, writing
  <2> QED
    BY <2>2, <2>3 DEF Inv, SettledInv
<1> QED
  BY <1>1, Invariant, PTL
=============================================================================
