----------------------------- MODULE CacheProofs -----------------------------
(***************************************************************************)
(* Proofs about CostEstimate: every price a process takes from the cache   *)
(* is current, whatever other processes do to the store, for any number of *)
(* processes, goroutines, keys and any ttl.                                *)
(***************************************************************************)
EXTENDS CostEstimate, TLAPS

CallStates   == {"idle", "join", "wait", "answered"}
FlightStates == {"none", "recheck", "fetch", "fallback", "save"}

\* A table that process p may hand out for key k.
Current(p, k, t) == t >= since[p] \/ since[p] - t < TTL \/ k \in refused[p]

\* The shape of the state: what is in the store does not matter.
CacheTypeOK ==
  /\ clock \in Nat
  /\ since \in [Procs -> Nat]
  /\ refused \in [Procs -> SUBSET Keys]
  /\ DOMAIN call = Askers
  /\ \A a \in Askers : /\ call[a] = [at |-> call[a].at, key |-> call[a].key, table |-> call[a].table]
                       /\ call[a].at \in CallStates
                       /\ call[a].table \in Int
  /\ flight \in [Procs -> [Keys -> [at : FlightStates, table : Int]]]
  /\ DOMAIN cleaner = Procs
  /\ \A p \in Procs : cleaner[p] = [at |-> cleaner[p].at, listed |-> cleaner[p].listed]
  /\ main \in [Procs -> {"clean", "warm", "execute", "done"}]
  /\ DOMAIN work = Modules
  /\ \A m \in Modules : DOMAIN work[m] = {"at", "r", "d", "memo", "lines"}

\* Nobody asks before the cleaning is over, and modules are priced after that.
CleanedFirst ==
  /\ \A p \in Procs : cleaner[p].at # "done" => main[p] = "clean"
  /\ \A m \in Modules : work[m].at = "running" => main[procOf[m]] # "clean"
  /\ \A p \in Procs : main[p] = "clean" =>
       /\ \A a \in Askers : procOf[a] = p => call[a].at = "idle"
       /\ \A k \in Keys : flight[p][k].at = "none"

\* What a flight may end with, and what an asker has.
TablesAreCurrent ==
  /\ \A p \in Procs : since[p] <= clock
  /\ \A p \in Procs, k \in Keys :
       /\ flight[p][k].at = "save" /\ flight[p][k].table \in Tables => flight[p][k].table >= since[p]
       /\ flight[p][k].at = "fallback" => k \in refused[p]
  /\ \A a \in Askers :
       /\ call[a].at \in {"join", "wait"} => call[a].table = NoTable
       /\ call[a].at = "answered" /\ call[a].table \in Tables =>
            Current(procOf[a], call[a].key, call[a].table)

CacheInv == CacheTypeOK /\ CleanedFirst /\ TablesAreCurrent

-----------------------------------------------------------------------------
LEMMA Constants ==
  /\ TTL \in Nat /\ MaxClock \in Nat /\ Tables \subseteq Nat
  /\ \A a \in Askers : procOf[a] \in Procs
  /\ \A p \in Procs : p \in Askers /\ procOf[p] = p
  /\ Modules \subseteq Askers
BY CacheAssumption, EstimateAssumption DEF Tables

LEMMA CacheInvInit ==
  ASSUME EstimateInit
  PROVE  CacheInv
<1> USE Constants DEF EstimateInit, InitCache, Idle, NoFlight, NoTable
<1>1. CacheTypeOK
  BY DEF CacheTypeOK, CallStates, FlightStates
<1>2. CleanedFirst
  BY DEF CleanedFirst
<1>3. TablesAreCurrent
  BY DEF TablesAreCurrent, Tables
<1> QED
  BY <1>1, <1>2, <1>3 DEF CacheInv

LEMMA TablesUntouched ==
  ASSUME TablesAreCurrent, UNCHANGED <<clock, flight, call, since, refused>>
  PROVE  TablesAreCurrent'
BY DEF TablesAreCurrent, Current

LEMMA CleanListKeeps ==
  ASSUME CacheInv, NEW p \in Procs, CleanList(p), UNCHANGED estimateVars
  PROVE  CacheInv'
<1> USE Constants DEF CacheInv, estimateVars
<1>1. /\ UNCHANGED <<clock, flight, call, refused, main, work>>
      /\ since' = [since EXCEPT ![p] = clock]
      /\ cleaner[p].at = "list"
      /\ DOMAIN cleaner' = Procs
      /\ \A q \in Procs \ {p} : cleaner'[q] = cleaner[q]
      /\ cleaner'[p] = [at |-> cleaner'[p].at, listed |-> cleaner'[p].listed]
  BY DEF CleanList, CacheTypeOK
<1>2. main[p] = "clean"
  BY <1>1 DEF CleanedFirst
<1>3. CacheTypeOK'
  BY <1>1 DEF CacheTypeOK
<1>4. CleanedFirst'
  BY <1>1, <1>2 DEF CleanedFirst, CacheTypeOK
<1>5. /\ \A a \in Askers : procOf[a] = p => call[a].at = "idle"
      /\ \A k \in Keys : flight[p][k].at = "none"
  BY <1>2 DEF CleanedFirst
<1>6. since'[p] = clock /\ \A q \in Procs \ {p} : since'[q] = since[q]
  BY <1>1 DEF CacheTypeOK
<1>7. \A q \in Procs : since'[q] <= clock'
  BY <1>1, <1>6 DEF CacheTypeOK, TablesAreCurrent
<1>8. \A q \in Procs, k \in Keys :
        /\ flight'[q][k].at = "save" /\ flight'[q][k].table \in Tables => flight'[q][k].table >= since'[q]
        /\ flight'[q][k].at = "fallback" => k \in refused'[q]
  BY <1>1, <1>5, <1>6 DEF TablesAreCurrent
<1>9. \A a \in Askers :
       /\ call'[a].at \in {"join", "wait"} => call'[a].table = NoTable
       /\ call'[a].at = "answered" /\ call'[a].table \in Tables =>
            Current(procOf[a], call[a].key, call[a].table)'
  BY <1>1, <1>5, <1>6 DEF TablesAreCurrent, Current
<1>10. TablesAreCurrent'
  BY <1>1, <1>7, <1>8, <1>9 DEF TablesAreCurrent
<1> QED
  BY <1>3, <1>4, <1>10

LEMMA CleanNextKeeps ==
  ASSUME CacheInv, NEW p \in Procs, CleanNext(p), UNCHANGED estimateVars
  PROVE  CacheInv'
<1> USE Constants DEF CacheInv, estimateVars
<1>1. /\ UNCHANGED <<clock, flight, call, since, refused, main, work>>
      /\ cleaner[p].at # "done"
      /\ DOMAIN cleaner' = Procs
      /\ \A q \in Procs \ {p} : cleaner'[q] = cleaner[q]
      /\ cleaner'[p] = [at |-> cleaner'[p].at, listed |-> cleaner'[p].listed]
  BY DEF CleanNext, CacheTypeOK, history
<1>2. main[p] = "clean"
  BY <1>1 DEF CleanedFirst
<1>3. CacheTypeOK'
  BY <1>1 DEF CacheTypeOK
<1>4. CleanedFirst'
  BY <1>1, <1>2 DEF CleanedFirst
<1>5. TablesAreCurrent'
  BY <1>1, TablesUntouched
<1> QED
  BY <1>3, <1>4, <1>5

-----------------------------------------------------------------------------
(* GetIndex                                                                  *)

LEMMA FreshIsCurrent ==
  ASSUME CacheInv, NEW p \in Procs, NEW k, NEW t, isFresh(t)
  PROVE  t \in Tables /\ Current(p, k, t)
BY Constants DEF CacheInv, CacheTypeOK, TablesAreCurrent, isFresh, Current

LEMMA GetIndexKeeps ==
  ASSUME CacheInv, NEW a \in Askers, NEW k, main[procOf[a]] # "clean", GetIndex(a, k),
         UNCHANGED <<clock, flight, cleaner, history, estimateVars>>
  PROVE  CacheInv'
<1> USE Constants DEF CacheInv, estimateVars, history
<1>0. PICK at \in {"join", "answered"} : \E t :
        /\ call' = [call EXCEPT ![a] = [at |-> at, key |-> k, table |-> t]]
        /\ at = "join" => t = NoTable
        /\ at = "answered" => isFresh(t)
  BY DEF GetIndex
<1>1. PICK t : /\ call' = [call EXCEPT ![a] = [at |-> at, key |-> k, table |-> t]]
               /\ at = "join" => t = NoTable
               /\ at = "answered" => isFresh(t)
  BY <1>0
<1>2. t \in Int
  BY <1>1 DEF isFresh, NoTable, Tables
<1>3. CacheTypeOK'
  BY <1>1, <1>2 DEF CacheTypeOK, CallStates
<1>4. CleanedFirst'
  BY <1>1 DEF CleanedFirst, CacheTypeOK
<1>5. TablesAreCurrent'
  BY <1>1, FreshIsCurrent DEF TablesAreCurrent, CacheTypeOK, Current
<1> QED
  BY <1>3, <1>4, <1>5

\* Asking changes nothing for a process that still cleans.
LEMMA StillCleanedFirst ==
  ASSUME CleanedFirst, UNCHANGED <<cleaner, main, work>>,
         \A a \in Askers : call'[a] = call[a] \/ main[procOf[a]] # "clean",
         \A p \in Procs, k \in Keys :
           flight'[p][k] = flight[p][k] \/ flight'[p][k].at = "none" \/ main[p] # "clean"
  PROVE  CleanedFirst'
BY DEF CleanedFirst

\* A call or a flight without a table is current.
LEMMA StillCurrent ==
  ASSUME TablesAreCurrent, UNCHANGED <<clock, since, refused>>,
         \A a \in Askers : call'[a] = call[a] \/ call'[a].table = NoTable \/ call'[a].at = "idle",
         \A p \in Procs, k \in Keys :
           flight'[p][k] = flight[p][k] \/ flight'[p][k].at \in {"none", "recheck"}
  PROVE  TablesAreCurrent'
<1>1. NoTable \notin Tables
  BY DEF NoTable, Tables
<1>2. ASSUME NEW a \in Askers
      PROVE  /\ call'[a].at \in {"join", "wait"} => call'[a].table = NoTable
             /\ call'[a].at = "answered" /\ call'[a].table \in Tables =>
                  Current(procOf[a], call[a].key, call[a].table)'
  <2>1. CASE call'[a] = call[a]
    BY <2>1 DEF TablesAreCurrent, Current
  <2>2. CASE call'[a].table = NoTable \/ call'[a].at = "idle"
    BY <1>1, <2>2
  <2> QED
    BY <2>1, <2>2
<1>3. ASSUME NEW p \in Procs, NEW k \in Keys
      PROVE  /\ flight'[p][k].at = "save" /\ flight'[p][k].table \in Tables => flight'[p][k].table >= since'[p]
             /\ flight'[p][k].at = "fallback" => k \in refused'[p]
  BY DEF TablesAreCurrent
<1> QED
  BY <1>2, <1>3 DEF TablesAreCurrent

LEMMA NewFlightState ==
  ASSUME NEW f \in [at : FlightStates, table : Int], NEW s \in FlightStates
  PROVE  /\ [f EXCEPT !.at = s] \in [at : FlightStates, table : Int]
         /\ [f EXCEPT !.at = s].at = s
         /\ [f EXCEPT !.at = s].table = f.table
OBVIOUS

LEMMA NewCallState ==
  ASSUME NEW c, c = [at |-> c.at, key |-> c.key, table |-> c.table], NEW s
  PROVE  [c EXCEPT !.at = s] = [at |-> s, key |-> c.key, table |-> c.table]
<1> DEFINE at == c.at  key == c.key  table == c.table
<1>1. c = [at |-> at, key |-> key, table |-> table]
  OBVIOUS
<1>2. key = c.key /\ table = c.table
  OBVIOUS
<1> HIDE DEF at, key, table
<1> QED
  BY <1>1, <1>2

LEMMA JoinKeeps ==
  ASSUME CacheInv, NEW a \in Askers, Join(a), UNCHANGED estimateVars
  PROVE  CacheInv'
<1> USE Constants DEF CacheInv, estimateVars, history
<1> DEFINE p == procOf[a]  k == call[a].key  F == [at : FlightStates, table : Int]
           joined == [flight[p][k] EXCEPT !.at = "recheck"]
<1>1. /\ UNCHANGED <<clock, cleaner, since, refused, main, work>>
      /\ call[a].at = "join" /\ p \in Procs
      /\ call' = [call EXCEPT ![a] = [call[a] EXCEPT !.at = "wait"]]
      /\ \/ flight' = flight
         \/ flight' = [flight EXCEPT ![p] = [flight[p] EXCEPT ![k] = joined]]
  BY DEF Join
<1>2. /\ DOMAIN call' = Askers /\ call'[a] = [at |-> "wait", key |-> call[a].key, table |-> call[a].table]
      /\ \A b \in Askers \ {a} : call'[b] = call[b]
  <2>1. call[a] = [at |-> call[a].at, key |-> call[a].key, table |-> call[a].table] /\ DOMAIN call = Askers
    BY DEF CacheTypeOK
  <2>2. [call[a] EXCEPT !.at = "wait"] = [at |-> "wait", key |-> call[a].key, table |-> call[a].table]
    BY <2>1, NewCallState
  <2> QED
    BY <1>1, <2>1, <2>2
<1>3. k \in Keys => joined \in F /\ joined.at = "recheck"
  <2>1. "recheck" \in FlightStates
    BY DEF FlightStates
  <2>2. k \in Keys => flight[p][k] \in F
    BY <1>1 DEF CacheTypeOK
  <2> QED
    BY <2>1, <2>2, NewFlightState
<1>4. flight \in [Procs -> [Keys -> F]]
  BY DEF CacheTypeOK
<1>5. p = procOf[a]
  OBVIOUS
<1> HIDE DEF p, k, F, joined
<1>6. flight' \in [Procs -> [Keys -> F]]
  <2>. DEFINE mine == flight[p]
  <2>1. mine \in [Keys -> F]
    BY <1>1, <1>4
  <2>2. [mine EXCEPT ![k] = joined] \in [Keys -> F]
    <3>. HIDE DEF mine
    <3>. QED
      BY <1>3, <2>1
  <2>3. [flight[p] EXCEPT ![k] = joined] \in [Keys -> F]
    BY <2>2
  <2> QED
    BY <1>1, <1>4, <2>3
<1>7. \A q \in Procs, j \in Keys : flight'[q][j] = flight[q][j] \/ (q = p /\ flight'[q][j].at = "recheck")
  BY <1>1, <1>3, <1>4
<1>8. main[p] # "clean"
  BY <1>1, <1>5 DEF CleanedFirst
<1>9. CacheTypeOK'
  BY <1>1, <1>2, <1>6 DEF CacheTypeOK, CallStates, F
<1>10. CleanedFirst'
  BY <1>1, <1>2, <1>5, <1>7, <1>8, StillCleanedFirst
<1>11. call'[a].table = NoTable
  <2>1. call[a].table = NoTable
    BY <1>1 DEF TablesAreCurrent
  <2> QED
    BY <1>2, <2>1
<1>12. TablesAreCurrent'
  BY <1>1, <1>2, <1>7, <1>11, StillCurrent
<1> QED
  BY <1>9, <1>10, <1>12

LEMMA GiveUpKeeps ==
  ASSUME CacheInv, NEW a \in Askers, GiveUp(a), UNCHANGED estimateVars
  PROVE  CacheInv'
<1> USE Constants DEF CacheInv, estimateVars, history
<1>1. /\ UNCHANGED <<clock, flight, cleaner, since, refused, main, work>>
      /\ call[a].at = "wait"
      /\ call' = [call EXCEPT ![a] = [call[a] EXCEPT !.at = "answered"]]
  BY DEF GiveUp
<1>2. /\ DOMAIN call' = Askers /\ call'[a] = [at |-> "answered", key |-> call[a].key, table |-> call[a].table]
      /\ \A b \in Askers \ {a} : call'[b] = call[b]
  <2>1. call[a] = [at |-> call[a].at, key |-> call[a].key, table |-> call[a].table] /\ DOMAIN call = Askers
    BY DEF CacheTypeOK
  <2>2. [call[a] EXCEPT !.at = "answered"] = [at |-> "answered", key |-> call[a].key, table |-> call[a].table]
    BY <2>1, NewCallState
  <2> QED
    BY <1>1, <2>1, <2>2
<1>3. CacheTypeOK'
  BY <1>1, <1>2 DEF CacheTypeOK, CallStates
<1>4. CleanedFirst'
  <2>1. main[procOf[a]] # "clean"
    BY <1>1 DEF CleanedFirst
  <2> QED
    BY <1>1, <1>2, <2>1, StillCleanedFirst
<1>5. call'[a].table = NoTable
  <2>1. call[a].table = NoTable
    BY <1>1 DEF TablesAreCurrent
  <2> QED
    BY <1>2, <2>1
<1>6. TablesAreCurrent'
  BY <1>1, <1>2, <1>5, StillCurrent
<1> QED
  BY <1>3, <1>4, <1>6

\* A flight may end with any table that is current.
LEMMA PublishKeeps ==
  ASSUME CacheInv, NEW p \in Procs, NEW k \in Keys, NEW t \in Int,
         flight[p][k].at # "none", t \in Tables => Current(p, k, t), publish(p, k, t),
         UNCHANGED <<clock, cleaner, history, estimateVars>>
  PROVE  CacheInv'
<1> USE Constants DEF CacheInv, estimateVars, history
<1>1. /\ UNCHANGED <<clock, cleaner, since, refused, main, work>>
      /\ flight' = [flight EXCEPT ![p] = [flight[p] EXCEPT ![k] = NoFlight]]
      /\ DOMAIN call' = Askers
      /\ \A a \in Askers : \/ call'[a] = call[a]
                            \/ /\ procOf[a] = p /\ call[a].key = k
                               /\ call'[a] = [at |-> "answered", key |-> k, table |-> t]
  BY DEF publish, waiting
<1>2. flight' \in [Procs -> [Keys -> [at : FlightStates, table : Int]]]
  BY <1>1 DEF CacheTypeOK, FlightStates, NoFlight, NoTable
<1>3. \A q \in Procs, j \in Keys : flight'[q][j] = flight[q][j] \/ flight'[q][j].at = "none"
  BY <1>1 DEF CacheTypeOK, NoFlight
<1>4. main[p] # "clean"
  BY DEF CleanedFirst
<1>5. CacheTypeOK'
  BY <1>1, <1>2 DEF CacheTypeOK, CallStates
<1>6. CleanedFirst'
  BY <1>1, <1>3, <1>4, StillCleanedFirst
<1>7. TablesAreCurrent'
  BY <1>1, <1>3 DEF TablesAreCurrent, Current
<1> QED
  BY <1>5, <1>6, <1>7

\* A flight that goes on leaves the askers as they are.
LEMMA FlightKeeps ==
  ASSUME CacheInv, NEW p \in Procs, NEW k \in Keys, NEW f \in [at : FlightStates, table : Int],
         flight[p][k].at # "none",
         flight' = [flight EXCEPT ![p] = [flight[p] EXCEPT ![k] = f]],
         refused' \in [Procs -> SUBSET Keys], \A q \in Procs : refused[q] \subseteq refused'[q],
         f.at = "save" /\ f.table \in Tables => f.table >= since[p],
         f.at = "fallback" => k \in refused'[p],
         UNCHANGED <<clock, call, cleaner, since, estimateVars>>
  PROVE  CacheInv'
<1> USE Constants DEF CacheInv, estimateVars
<1>1. flight' \in [Procs -> [Keys -> [at : FlightStates, table : Int]]]
  BY DEF CacheTypeOK
<1>2. \A q \in Procs, j \in Keys : flight'[q][j] = flight[q][j] \/ (q = p /\ j = k /\ flight'[q][j] = f)
  BY DEF CacheTypeOK
<1>3. main[p] # "clean"
  BY DEF CleanedFirst
<1>4. CacheTypeOK'
  BY <1>1 DEF CacheTypeOK
<1>5. CleanedFirst'
  BY <1>2, <1>3, StillCleanedFirst
<1>6. TablesAreCurrent'
  BY <1>2 DEF TablesAreCurrent, Current, CacheTypeOK
<1> QED
  BY <1>4, <1>5, <1>6

LEMMA FlightType ==
  ASSUME CacheInv, NEW p \in Procs, NEW k \in Keys
  PROVE  /\ flight[p][k] \in [at : FlightStates, table : Int]
         /\ refused \in [Procs -> SUBSET Keys]
         /\ clock \in Nat /\ since[p] \in Nat /\ clock >= since[p]
BY DEF CacheInv, CacheTypeOK, TablesAreCurrent

LEMMA RecheckKeeps ==
  ASSUME CacheInv, NEW p \in Procs, NEW k \in Keys, Recheck(p, k), UNCHANGED estimateVars
  PROVE  CacheInv'
<1> DEFINE t == loadCachedRaw(k)  f == [flight[p][k] EXCEPT !.at = "fetch"]
<1>1. flight[p][k].at = "recheck" /\ UNCHANGED <<clock, cleaner, since, refused, history, estimateVars>>
  BY DEF Recheck, history
<1>2. \/ isFresh(t) /\ publish(p, k, t)
      \/ flight' = [flight EXCEPT ![p] = [flight[p] EXCEPT ![k] = f]] /\ UNCHANGED call
  BY DEF Recheck
<1> HIDE DEF t
<1>3. CASE isFresh(t) /\ publish(p, k, t)
  <2>1. t \in Tables /\ Current(p, k, t)
    BY <1>3, FreshIsCurrent
  <2>2. t \in Int
    BY <2>1 DEF Tables
  <2> QED
    BY <1>1, <1>3, <2>1, <2>2, PublishKeeps
<1>4. CASE flight' = [flight EXCEPT ![p] = [flight[p] EXCEPT ![k] = f]] /\ UNCHANGED call
  <2>1. f \in [at : FlightStates, table : Int] /\ f.at = "fetch"
    BY FlightType, NewFlightState DEF FlightStates
  <2> HIDE DEF f
  <2> QED
    BY <1>1, <1>4, <2>1, FlightType, FlightKeeps
<1> QED
  BY <1>2, <1>3, <1>4

LEMMA FetchSucceedsKeeps ==
  ASSUME CacheInv, NEW p \in Procs, NEW k \in Keys, FetchSucceeds(p, k), UNCHANGED estimateVars
  PROVE  CacheInv'
<1>1. flight[p][k].at = "fetch" /\ UNCHANGED <<clock, call, cleaner, since, refused, estimateVars>>
  BY DEF FetchSucceeds, history
<1>2. PICK t \in {clock, EmptyTable} :
        flight' = [flight EXCEPT ![p] = [flight[p] EXCEPT ![k] = [at |-> "save", table |-> t]]]
  BY DEF FetchSucceeds
<1> DEFINE f == [at |-> "save", table |-> t]
<1>3. f \in [at : FlightStates, table : Int]
  BY <1>2, FlightType DEF FlightStates, EmptyTable
<1>4. f.at = "save" /\ (f.table \in Tables => f.table >= since[p])
  BY <1>2, FlightType DEF EmptyTable, Tables
<1>5. flight' = [flight EXCEPT ![p] = [flight[p] EXCEPT ![k] = f]]
  BY <1>2
<1> HIDE DEF f
<1> QED
  BY <1>1, <1>3, <1>4, <1>5, FlightType, FlightKeeps

LEMMA FetchFailsKeeps ==
  ASSUME CacheInv, NEW p \in Procs, NEW k \in Keys, FetchFails(p, k), UNCHANGED estimateVars
  PROVE  CacheInv'
<1> DEFINE f == [flight[p][k] EXCEPT !.at = "fallback"]
<1>1. /\ flight[p][k].at = "fetch"
      /\ UNCHANGED <<clock, call, cleaner, since, estimateVars>>
      /\ refused' = [refused EXCEPT ![p] = refused[p] \cup {k}]
      /\ flight' = [flight EXCEPT ![p] = [flight[p] EXCEPT ![k] = f]]
  BY DEF FetchFails
<1>2. refused' \in [Procs -> SUBSET Keys] /\ k \in refused'[p] /\ \A q \in Procs : refused[q] \subseteq refused'[q]
  BY <1>1, FlightType
<1>3. f \in [at : FlightStates, table : Int] /\ f.at = "fallback"
  BY FlightType, NewFlightState DEF FlightStates
<1> HIDE DEF f
<1> QED
  BY <1>1, <1>2, <1>3, FlightType, FlightKeeps

LEMMA FallbackKeeps ==
  ASSUME CacheInv, NEW p \in Procs, NEW k \in Keys, Fallback(p, k), UNCHANGED estimateVars
  PROVE  CacheInv'
<1>1. flight[p][k].at = "fallback" /\ UNCHANGED <<clock, cleaner, history, estimateVars>>
  BY DEF Fallback
<1>2. PICK t \in {loadCachedRaw(k), NoTable} : publish(p, k, t)
  BY DEF Fallback
<1>3. t \in Int
  BY DEF loadCachedRaw, NoTable, Tables
<1>4. Current(p, k, t)
  BY <1>1 DEF CacheInv, TablesAreCurrent, Current
<1> QED
  BY <1>1, <1>2, <1>3, <1>4, PublishKeeps

LEMMA SaveKeeps ==
  ASSUME CacheInv, NEW p \in Procs, NEW k \in Keys, Save(p, k), UNCHANGED estimateVars
  PROVE  CacheInv'
<1> DEFINE t == flight[p][k].table
<1>1. /\ flight[p][k].at = "save" /\ UNCHANGED <<clock, cleaner, history, estimateVars>>
      /\ publish(p, k, t)
  BY DEF Save
<1>2. t \in Int
  BY FlightType
<1>3. t \in Tables => Current(p, k, t)
  BY <1>1 DEF CacheInv, TablesAreCurrent, Current
<1> HIDE DEF t
<1> QED
  BY <1>1, <1>2, <1>3, PublishKeeps

\* Time passes; other processes and the user act.
LEMMA SurroundingsKeep ==
  ASSUME CacheInv, Tick \/ Elsewhere \/ (\E p \in Procs : Cancel(p)), UNCHANGED estimateVars
  PROVE  CacheInv'
<1>1. /\ UNCHANGED <<flight, call, cleaner, since, refused, main, work>>
      /\ clock' = clock \/ clock' = clock + 1
  BY DEF Tick, Elsewhere, Cancel, history, estimateVars
<1>2. CacheTypeOK'
  BY <1>1 DEF CacheInv, CacheTypeOK
<1>3. CleanedFirst'
  BY <1>1 DEF CacheInv, CleanedFirst
<1>4. \A p \in Procs : since[p] <= clock'
  BY <1>1 DEF CacheInv, CacheTypeOK, TablesAreCurrent
<1>5. TablesAreCurrent'
  BY <1>1, <1>4 DEF CacheInv, TablesAreCurrent, Current
<1> QED
  BY <1>2, <1>3, <1>5 DEF CacheInv

LEMMA CacheStepKeeps ==
  ASSUME CacheInv, CacheStep, UNCHANGED estimateVars
  PROVE  CacheInv'
BY CleanListKeeps, CleanNextKeeps, JoinKeeps, GiveUpKeeps, RecheckKeeps, FetchSucceedsKeeps,
   FetchFailsKeeps, FallbackKeeps, SaveKeeps, SurroundingsKeep
   DEF CacheStep, CleanStep, CallStep, FlightStep

-----------------------------------------------------------------------------
(* The command                                                               *)

WorkFields == {"at", "r", "d", "memo", "lines"}

\* What the command does with its answers is no matter, as long as it cleans
\* first and prices last.
LEMMA CommandKeeps ==
  ASSUME CacheInv, UNCHANGED <<clock, flight, cleaner, since, refused>>,
         DOMAIN call' = Askers,
         \A a \in Askers : call'[a] = call[a] \/ call'[a] = Idle,
         main' \in [Procs -> {"clean", "warm", "execute", "done"}],
         \A p \in Procs : main'[p] = main[p] \/ (main'[p] # "clean" /\ cleaner[p].at = "done"),
         DOMAIN work' = Modules,
         \A m \in Modules :
           /\ DOMAIN work'[m] = WorkFields
           /\ work'[m].at = work[m].at \/ work'[m].at # "running" \/ main[procOf[m]] # "clean"
  PROVE  CacheInv'
<1> USE Constants DEF CacheInv
<1>1. \A a \in Askers : call'[a] = [at |-> call'[a].at, key |-> call'[a].key, table |-> call'[a].table]
                         /\ call'[a].at \in CallStates /\ call'[a].table \in Int
  BY DEF CacheTypeOK, Idle, CallStates, NoTable
<1>2. CacheTypeOK'
  BY <1>1 DEF CacheTypeOK, WorkFields
<1>3. \A p \in Procs : main'[p] = "clean" => main[p] = "clean"
  OBVIOUS
<1>4. \A a \in Askers : call'[a] = call[a] \/ call'[a].at = "idle"
  BY DEF Idle
<1>5. CleanedFirst'
  <2>1. \A p \in Procs : cleaner'[p].at # "done" => main'[p] = "clean"
    BY DEF CleanedFirst
  <2>2. \A m \in Modules : work'[m].at = "running" => main'[procOf[m]] # "clean"
    BY <1>3 DEF CleanedFirst
  <2>3. \A p \in Procs : main'[p] = "clean" =>
          /\ \A a \in Askers : procOf[a] = p => call'[a].at = "idle"
          /\ \A k \in Keys : flight'[p][k].at = "none"
    BY <1>3, <1>4 DEF CleanedFirst
  <2> QED
    BY <2>1, <2>2, <2>3 DEF CleanedFirst
<1>6. TablesAreCurrent'
  BY <1>4, StillCurrent
<1> QED
  BY <1>2, <1>5, <1>6

LEMMA ScanKeeps ==
  ASSUME CacheInv, NEW p \in Procs, Scan(p)
  PROVE  CacheInv'
<1>1. /\ UNCHANGED <<clock, flight, call, cleaner, since, refused>>
      /\ cleaner[p].at = "done" /\ main' = [main EXCEPT ![p] = "warm"]
      /\ work' = [m \in Modules |-> IF m \in modulesOf(p) /\ ~plan[m].readable
                                      THEN [work[m] EXCEPT !.at = "done"] ELSE work[m]]
  BY DEF Scan, cacheVars, history
<1>2. DOMAIN call = Askers /\ main \in [Procs -> {"clean", "warm", "execute", "done"}]
      /\ \A m \in Modules : DOMAIN work[m] = WorkFields
  BY DEF CacheInv, CacheTypeOK, WorkFields
<1>3. DOMAIN work' = Modules
      /\ \A m \in Modules : DOMAIN work'[m] = WorkFields /\ work'[m].at \in {work[m].at, "done"}
  BY <1>1, <1>2 DEF WorkFields
<1> QED
  BY <1>1, <1>2, <1>3, CommandKeeps

LEMMA WarmAskKeeps ==
  ASSUME CacheInv, NEW p \in Procs, WarmAsk(p)
  PROVE  CacheInv'
<1>1. PICK k \in warm[p] : GetIndex(p, k)
  BY DEF WarmAsk
<1>2. main[procOf[p]] # "clean" /\ p \in Askers
  BY Constants DEF WarmAsk
<1> QED
  BY <1>1, <1>2, GetIndexKeeps DEF WarmAsk

LEMMA OtherCommandStepsKeep ==
  ASSUME CacheInv, NEW p \in Procs, WarmTake(p) \/ EndWarm(p) \/ Assemble(p)
  PROVE  CacheInv'
<1> DEFINE M == {"clean", "warm", "execute", "done"}
<1>1. /\ UNCHANGED <<clock, flight, cleaner, since, refused, work>>
      /\ call' = call \/ call' = [call EXCEPT ![p] = Idle]
      /\ main[p] # "clean"
      /\ main' = main \/ \E s \in M \ {"clean"} : main' = [main EXCEPT ![p] = s]
  BY DEF WarmTake, EndWarm, Assemble, taken, cacheVars, history
<1>2. DOMAIN call = Askers /\ main \in [Procs -> M] /\ DOMAIN work = Modules
      /\ \A m \in Modules : DOMAIN work[m] = WorkFields
  BY DEF CacheInv, CacheTypeOK, WorkFields
<1>3. cleaner[p].at = "done"
  BY <1>1 DEF CacheInv, CleanedFirst
<1>4. DOMAIN call' = Askers /\ \A a \in Askers : call'[a] = call[a] \/ call'[a] = Idle
  BY <1>1, <1>2
<1>5. main' \in [Procs -> M] /\ \A q \in Procs : main'[q] = main[q] \/ (q = p /\ main'[q] # "clean")
  BY <1>1, <1>2
<1> QED
  BY <1>1, <1>2, <1>3, <1>4, <1>5, CommandKeeps

-----------------------------------------------------------------------------
(* The goroutine of a module                                                 *)

LEMMA AskKeeps ==
  ASSUME CacheInv, NEW m \in Modules, Ask(m)
  PROVE  CacheInv'
<1>1. PICK k : GetIndex(m, k)
  BY DEF Ask
<1>2. main[procOf[m]] # "clean" /\ m \in Askers
  BY Constants DEF Ask, pending, CacheInv, CleanedFirst
<1> QED
  BY <1>1, <1>2, GetIndexKeeps DEF Ask

\* Meeting a demand moves a module on and leaves its goroutine running.
LEMMA MetKeepsRunning ==
  ASSUME CacheInv, NEW m \in Modules, NEW t, met(m, t)
  PROVE  /\ DOMAIN work' = Modules
         /\ \A n \in Modules : DOMAIN work'[n] = WorkFields /\ work'[n].at = work[n].at
<1>1. DOMAIN work = Modules /\ \A n \in Modules : DOMAIN work[n] = WorkFields
  BY DEF CacheInv, CacheTypeOK, WorkFields
<1>2. PICK lines, memo :
        \/ work' = [work EXCEPT ![m].d = @ + 1, ![m].lines = lines, ![m].memo = memo]
        \/ work' = [work EXCEPT ![m].r = @ + 1, ![m].d = 1, ![m].lines = <<>>, ![m].memo = noMemo]
  BY DEF met
<1> QED
  BY <1>1, <1>2 DEF WorkFields

LEMMA ModuleStepKeeps ==
  ASSUME CacheInv, NEW m \in Modules, ModuleStep(m)
  PROVE  CacheInv'
<1>1. DOMAIN call = Askers /\ main \in [Procs -> {"clean", "warm", "execute", "done"}]
      /\ DOMAIN work = Modules /\ \A n \in Modules : DOMAIN work[n] = WorkFields
  BY DEF CacheInv, CacheTypeOK, WorkFields
<1>2. CASE Ask(m)
  BY <1>2, AskKeeps
<1>3. CASE Launch(m) \/ EndModule(m)
  <2>1. UNCHANGED <<clock, flight, call, cleaner, since, refused, main>>
    BY <1>3 DEF Launch, EndModule, cacheVars, history
  <2>2. PICK s \in {"running", "done"} :
          /\ work' = [work EXCEPT ![m] = [work[m] EXCEPT !.at = s]]
          /\ s = "running" => main[procOf[m]] # "clean"
    BY <1>3 DEF Launch, EndModule
  <2>3. DOMAIN work' = Modules
        /\ \A n \in Modules : /\ DOMAIN work'[n] = WorkFields
                              /\ work'[n].at = work[n].at \/ (n = m /\ work'[n].at = s)
    BY <1>1, <2>2 DEF WorkFields
  <2> QED
    BY <1>1, <2>1, <2>2, <2>3, CommandKeeps
<1>4. CASE Resolve(m)
  <2>1. PICK t : met(m, t)
    BY <1>4 DEF Resolve
  <2>2. UNCHANGED <<clock, flight, call, cleaner, since, refused, main>>
    BY <1>4 DEF Resolve, cacheVars, history
  <2> QED
    BY <1>1, <2>1, <2>2, MetKeepsRunning, CommandKeeps
<1>5. CASE Priced(m)
  <2>1. met(m, call[m].table)
    BY <1>5 DEF Priced
  <2>2. UNCHANGED <<clock, flight, cleaner, since, refused, main>> /\ call' = [call EXCEPT ![m] = Idle]
    BY <1>5 DEF Priced, taken, history
  <2>3. DOMAIN call' = Askers /\ \A a \in Askers : call'[a] = call[a] \/ call'[a] = Idle
    BY <1>1, <2>2
  <2> QED
    BY <1>1, <2>1, <2>2, <2>3, MetKeepsRunning, CommandKeeps
<1> QED
  BY <1>2, <1>3, <1>4, <1>5 DEF ModuleStep

-----------------------------------------------------------------------------
LEMMA CacheInvStep ==
  ASSUME CacheInv, [Next]_vars
  PROVE  CacheInv'
<1>1. CASE UNCHANGED vars
  <2>1. UNCHANGED <<clock, flight, call, cleaner, since, refused, main, work>>
    BY <1>1 DEF vars, cacheVars, estimateVars, history
  <2>2. CacheTypeOK' /\ CleanedFirst'
    BY <2>1 DEF CacheInv, CacheTypeOK, CleanedFirst
  <2> QED
    BY <2>1, <2>2, TablesUntouched DEF CacheInv
<1> QED
  BY <1>1, CacheStepKeeps, ScanKeeps, WarmAskKeeps, OtherCommandStepsKeep, ModuleStepKeeps DEF Next, CommandStep

\* The invariant the currency of prices follows from (pricing/cache.go:49-149):
\* a process asks for nothing before its CleanExpired is over, what a flight ends
\* with was fetched since that began or stands in for a refused fetch, and what
\* an asker has been handed is as current.
THEOREM CacheInvHolds == Spec => []CacheInv
<1>1. EstimateInit => CacheInv
  BY CacheInvInit
<1>2. CacheInv /\ [Next]_vars => CacheInv'
  BY CacheInvStep
<1> QED
  BY <1>1, <1>2, PTL DEF Spec

\* Every table a process takes from the cache is current (pricing/cache.go:49-71,
\* 126-149), whatever the other processes save or clean away, whoever leads the
\* fetch, whatever fails and whenever a command is cancelled.
THEOREM Prices == Spec => []PricesAreCurrent
<1>1. CacheInv => PricesAreCurrent
  BY DEF CacheInv, TablesAreCurrent, PricesAreCurrent, Current, answered
<1> QED
  BY <1>1, CacheInvHolds, PTL
=============================================================================
