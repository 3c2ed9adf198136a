---------------------------- MODULE PricingCache ----------------------------
(***************************************************************************)
(* The pricing cache of the cost plugin over a blob cache that several     *)
(* terraci processes share: look up, single flight per service and region, *)
(* fetch, stale fallback, save, and the cleaning of expired entries at the *)
(* start of every process.                                                 *)
(*                                                                         *)
(* A price table is known by the time it was fetched.  A key is a service  *)
(* and region, numbered in the order in which the store lists its keys.    *)
(* Askers are the goroutines that call GetIndex; the ones of one process   *)
(* share its flights and its context.  BlobStore has the store's own steps:*)
(* here one Get, Put or Delete is one step that may fail.                  *)
(***************************************************************************)
EXTENDS Integers, FiniteSets, Functions, FiniteSetsExt

CONSTANTS
  Procs,    \* terraci processes on one blob store
  Askers,   \* goroutines that ask for price tables
  procOf,   \* the process of an asker
  Keys,     \* service/region pairs
  TTL,      \* extensions.cost.blob_cache.ttl
  MaxClock, \* bound: the clock stops here
  Stored,   \* what the store may hold at first: tables, none or unreadable
  Shared    \* whether yet other processes, of which only the effect is seen,
            \* save tables and clean expired ones (of which, as CleanExpired acts
            \* on an earlier listing, any may go)

ASSUME CacheAssumption ==
  /\ procOf \in [Askers -> Procs]
  /\ IsFiniteSet(Keys) /\ Keys \subseteq Nat
  /\ TTL \in Nat /\ MaxClock \in Nat
  /\ Shared \in BOOLEAN
  /\ Stored \subseteq {-1, -2} \cup 0..TTL

VARIABLES
  clock,      \* time.Now()
  blob,       \* the stored object of every key: its table and meta.ExpiresAt
  flight,     \* per process and key: the fetch under way
  call,       \* per asker: its GetIndex
  cancelled,  \* processes whose context is done
  cleaner,    \* per process: CleanExpired
  since,      \* per process: when it began                       (history)
  refused     \* per process: keys it has failed to fetch         (history)

history == <<since, refused>>
cacheVars == <<clock, blob, flight, call, cancelled, cleaner, history>>

NoTable    == -1  \* no object, or an error in place of a table
Unreadable == -2  \* an object that does not decode or lacks required fields
EmptyTable == -3  \* a fetched table without products: usable, but incomplete
Tables     == 0..MaxClock

NoFlight == [at |-> "none", table |-> NoTable]
Idle     == [at |-> "idle", key |-> 0, table |-> NoTable]

\* pricing.Cache.isFresh
isFresh(t) == t \in Tables /\ clock - t < TTL

\* pricing.Cache.loadCachedRaw, when the store answers
loadCachedRaw(k) == IF blob[k].table \in Tables THEN blob[k].table ELSE NoTable

\* blobcache.Policy.isExpired: every object Put here carries ExpiresAt, unless
\* the TTL is not positive.
isExpired(expires) == TTL > 0 /\ clock > expires

InitCache ==
  /\ clock = TTL
  /\ \E stored \in [Keys -> Stored] :
       blob = [k \in Keys |-> [table |-> stored[k],
                              expires |-> IF stored[k] \in Tables THEN stored[k] + TTL ELSE TTL]]
  /\ flight = [p \in Procs |-> [k \in Keys |-> NoFlight]]
  /\ call = [a \in Askers |-> Idle]
  /\ cancelled = {}
  /\ cleaner = [p \in Procs |-> [at |-> "list", listed |-> [k \in {} |-> 0]]]
  /\ since = [p \in Procs |-> clock]
  /\ refused = [p \in Procs |-> {}]

-----------------------------------------------------------------------------
(* CleanExpired, called once when a process builds its runtime *)

CleanList(p) ==
  /\ cleaner[p].at = "list"
  /\ \/ cleaner' = [cleaner EXCEPT ![p] =
          [at |-> "delete",
           listed |-> [k \in {j \in Keys : blob[j].table # NoTable} |-> blob[k].expires]]]
     \/ cleaner' = [cleaner EXCEPT ![p].at = "done"]   \* List fails
  /\ since' = [since EXCEPT ![p] = clock]
  /\ UNCHANGED <<clock, blob, flight, call, cancelled, refused>>

CleanNext(p) ==
  LET expired == {k \in DOMAIN cleaner[p].listed : isExpired(cleaner[p].listed[k])}
      k == Min(expired)
      rest == {j \in DOMAIN cleaner[p].listed : j > k}
  IN  /\ cleaner[p].at = "delete"
      /\ IF expired = {}
           THEN cleaner' = [cleaner EXCEPT ![p].at = "done"] /\ UNCHANGED blob
           ELSE \/ /\ blob' = [blob EXCEPT ![k].table = NoTable]
                   /\ cleaner' = [cleaner EXCEPT ![p].listed = Restrict(@, rest)]
                \/ /\ cleaner' = [cleaner EXCEPT ![p].at = "done"]   \* Delete fails
                   /\ UNCHANGED blob
      /\ UNCHANGED <<clock, flight, call, cancelled, history>>

-----------------------------------------------------------------------------
(* GetIndex *)

\* Mutant: whatever is cached is good.
GetIndexAnyAge(a, k) ==
  LET t == loadCachedRaw(k)
  IN  call' = [call EXCEPT ![a] = [at |-> IF t # NoTable THEN "answered" ELSE "join",
                                   key |-> k, table |-> t]]

\* Called by the goroutines of the modules that use the cache.  A hit is
\* answered at once; an object that is missing, unreadable or expired, or a Get
\* that fails, is a miss.
GetIndex(a, k) ==
  LET t == loadCachedRaw(k)
  IN  \/ call' = [call EXCEPT ![a] = [at |-> "join", key |-> k, table |-> NoTable]]
      \/ /\ isFresh(t)
         /\ call' = [call EXCEPT ![a] = [at |-> "answered", key |-> k, table |-> t]]

answered(a) == call[a].at = "answered"
taken(a) == call' = [call EXCEPT ![a] = Idle]

\* singleflight.DoChan: the first asker starts the flight, the others wait.
Join(a) ==
  LET p == procOf[a]  k == call[a].key
  IN  /\ call[a].at = "join"
      /\ call' = [call EXCEPT ![a].at = "wait"]
      /\ flight' = IF flight[p][k] = NoFlight
                     THEN [flight EXCEPT ![p][k].at = "recheck"]
                     ELSE flight
      /\ UNCHANGED <<clock, blob, cancelled, cleaner, history>>

\* The select on ctx.Done.
GiveUp(a) ==
  /\ call[a].at = "wait"
  /\ procOf[a] \in cancelled
  /\ call' = [call EXCEPT ![a].at = "answered"]
  /\ UNCHANGED <<clock, blob, flight, cancelled, cleaner, history>>

waiting(p, k) == {a \in Askers : procOf[a] = p /\ call[a].at = "wait" /\ call[a].key = k}

\* The flight ends: every asker in it has the table, or the error.
publish(p, k, t) ==
  /\ flight' = [flight EXCEPT ![p][k] = NoFlight]
  /\ call' = [a \in Askers |-> IF a \in waiting(p, k)
                                 THEN [at |-> "answered", key |-> k, table |-> t]
                                 ELSE call[a]]

Recheck(p, k) ==
  LET t == loadCachedRaw(k)
  IN  /\ flight[p][k].at = "recheck"
      /\ \/ isFresh(t) /\ publish(p, k, t)
         \/ flight' = [flight EXCEPT ![p][k].at = "fetch"] /\ UNCHANGED call
      /\ UNCHANGED <<clock, blob, cancelled, cleaner, history>>

FetchSucceeds(p, k) ==
  /\ flight[p][k].at = "fetch"
  /\ p \notin cancelled
  /\ \E t \in {clock, EmptyTable} :
       flight' = [flight EXCEPT ![p][k] = [at |-> "save", table |-> t]]
  /\ UNCHANGED <<clock, blob, call, cancelled, cleaner, history>>

FetchFails(p, k) ==
  /\ flight[p][k].at = "fetch"
  /\ flight' = [flight EXCEPT ![p][k].at = "fallback"]
  /\ refused' = [refused EXCEPT ![p] = @ \cup {k}]
  /\ UNCHANGED <<clock, blob, call, cancelled, cleaner, since>>

\* Mutant: a flight without any table ends without a word.
FallbackSilent(p, k) ==
  /\ flight[p][k].at = "fallback"
  /\ IF loadCachedRaw(k) # NoTable
       THEN publish(p, k, loadCachedRaw(k))
       ELSE flight' = [flight EXCEPT ![p][k] = NoFlight] /\ UNCHANGED call
  /\ UNCHANGED <<clock, blob, cancelled, cleaner, history>>

\* A table of any age is better than none.
Fallback(p, k) ==
  /\ flight[p][k].at = "fallback"
  /\ \E t \in {loadCachedRaw(k), NoTable} : publish(p, k, t)
  /\ UNCHANGED <<clock, blob, cancelled, cleaner, history>>

\* A failed save is only warned about.
Save(p, k) ==
  LET t == flight[p][k].table
  IN  /\ flight[p][k].at = "save"
      /\ \/ blob' = [blob EXCEPT ![k] = [table |-> IF t = EmptyTable THEN Unreadable ELSE t,
                                         expires |-> clock + TTL]]
         \/ UNCHANGED blob
      /\ publish(p, k, t)
      /\ UNCHANGED <<clock, cancelled, cleaner, history>>

\* The command's timeout, or an interrupt.  Only GetIndex looks at the context,
\* so nothing is lost by cancelling it no earlier than somebody waits.
Cancel(p) ==
  /\ p \notin cancelled
  /\ \E k \in Keys : flight[p][k] # NoFlight
  /\ cancelled' = cancelled \cup {p}
  /\ UNCHANGED <<clock, blob, flight, call, cleaner, history>>

Elsewhere ==
  /\ Shared
  /\ \E k \in Keys : \E t \in {clock, NoTable} :
       blob' = [blob EXCEPT ![k] = [table |-> t, expires |-> clock + TTL]]
  /\ UNCHANGED <<clock, flight, call, cancelled, cleaner, history>>

Tick ==
  /\ clock < MaxClock
  /\ clock' = clock + 1
  /\ UNCHANGED <<blob, flight, call, cancelled, cleaner, history>>

CleanStep(p) == CleanList(p) \/ CleanNext(p)
CallStep(a) == Join(a) \/ GiveUp(a)
FlightStep(p, k) ==
  Recheck(p, k) \/ FetchSucceeds(p, k) \/ FetchFails(p, k) \/ Fallback(p, k) \/ Save(p, k)

CacheStep ==
  \/ \E p \in Procs : CleanStep(p) \/ Cancel(p)
  \/ \E a \in Askers : CallStep(a)
  \/ \E p \in Procs, k \in Keys : FlightStep(p, k)
  \/ Elsewhere
  \/ Tick

-----------------------------------------------------------------------------
(* Properties *)

\* A price is out of date only if fetching a newer one failed: a table that is
\* handed out was fetched since the process began or was fresh when it began, or
\* this process has tried to replace it in vain (pricing/cache.go:49-71,
\* 126-149).  With a ttl of zero every table is fetched anew.
PricesAreCurrent ==
  \A a \in Askers :
    LET t == call[a].table  p == procOf[a]
    IN  answered(a) /\ t \in Tables =>
          t >= since[p] \/ since[p] - t < TTL \/ call[a].key \in refused[p]
=============================================================================
