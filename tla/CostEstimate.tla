---------------------------- MODULE CostEstimate ----------------------------
(***************************************************************************)
(* terraci cost: every process cleans the cache, reads the plans of its    *)
(* modules, warms the price tables they will need, prices the modules in a *)
(* bounded number of goroutines and adds the modules up.                   *)
(*                                                                         *)
(* Rates grow with the time a table is fetched at.  A cost line is the     *)
(* status and the two monthly costs of a resource.                         *)
(***************************************************************************)
EXTENDS PricingCache, ResourceCatalog

CONSTANTS
  Modules,      \* modules with a plan file, also the askers that price them
  Plans,        \* the plan files all modules may have
  Products,     \* per key: the products on offer, at the rates of time 0
  keyOf,        \* the key of every service in the region of the modules
  Sizes,        \* per type: attributes it may have that differ in their amounts
  Concurrency   \* maxModuleConcurrency

ASSUME EstimateAssumption ==
  /\ Modules \subseteq Askers /\ Procs \subseteq Askers
  /\ \A p \in Procs : procOf[p] = p
  /\ Concurrency \in Nat \ {0}

VARIABLES
  plan,    \* per module: its plan file
  main,    \* per process: what the command is doing
  warm,    \* per process: keys still to be warmed
  work,    \* per module: the goroutine that prices it
  sum,     \* per module: its ModuleCost
  total    \* per process: the EstimateResult
estimateVars == <<plan, main, warm, work, sum, total>>
vars == <<cacheVars, estimateVars>>

-----------------------------------------------------------------------------
(* Plan files.  A resource has a type, an action, and attributes before and *)
(* after it, each a set of at most one.                                     *)

planned(f) == SelectSeq(f.resources, LAMBDA r : r.action # "read")
only(attrs) == IF attrs = {} THEN NoAttrs ELSE CHOOSE a \in attrs : TRUE
ActiveAttrs(r) == only(IF r.after # {} THEN r.after ELSE r.before)
RequiresBeforeCost(r) == r.action \in {"update", "replace"} /\ r.before # {}

known(type) == type \in ResourceTypes

\* The price tables one resource is looked up in: none or one.
tablesFor(type, a) == IF known(type) THEN {keyOf[l.service] : l \in Definition(type, a).lookup} ELSE {}

-----------------------------------------------------------------------------
(* Pricing *)

\* The products of the table for key k that was fetched at time t.
PriceIndex(k, t) ==
  IF t \in Tables THEN {[p EXCEPT !.rate = @ * (t + 1)] : p \in Products[k]} ELSE {}

line(status, monthly) == [status |-> status, monthly |-> monthly, before |-> 0]

\* A table without a matching product fails the resource, and so does no table.
resolveStandardCost(def, index) ==
  LET prices == UNION {LookupPrice(index, l) : l \in def.lookup}
  IN  IF prices = {} THEN {line("failed", 0)}
      ELSE {line("exact", m) : m \in UNION {Calc(def.cost, p, index) : p \in prices}}

\* What the resource may cost: several when the look-up leaves products open.
ResolveWithState(type, a, t) ==
  IF ~known(type) THEN {line("unsupported", 0)}
  ELSE LET def == Definition(type, a)
       IN  CASE def.category = "fixed"    -> {line("exact", def.amount)}
             [] def.category = "usage"    -> {line(IF def.amount > 0 THEN "usage_estimated"
                                                                     ELSE "usage_unknown", def.amount)}
             [] def.category = "standard" ->
                  resolveStandardCost(def, UNION {PriceIndex(k, t) : k \in tablesFor(type, a)})

\* [x \in S |-> Op(x)], put together so that TLC works every value out once.
workedOut(Op(_), S) == FoldSet(LAMBDA x, f : (x :> Op(x)) @@ f, <<>>, S)

\* What is resolved for one resource, in order: itself, its sub-resources, and
\* what it was.  A demand has the tables it is looked up in and, by table, the
\* lines it may come out at; both depend on the plan alone.
demandOf(what, type, a) ==
  [what |-> what, tables |-> tablesFor(type, a),
   skipped |-> ~known(type) \/ Definition(type, a).category = "usage",
   lines |-> workedOut(LAMBDA t : ResolveWithState(type, a, t), Tables \cup {NoTable, EmptyTable})]

demandsOf(r) ==
  <<demandOf("now", r.type, ActiveAttrs(r))>>
  \o (IF known(r.type)
        THEN LET subs == Definition(r.type, ActiveAttrs(r)).subs
             IN  [i \in DOMAIN subs |-> demandOf("sub", subs[i].type, subs[i].attrs)]
        ELSE <<>>)
  \o (IF RequiresBeforeCost(r) THEN <<demandOf("before", r.type, only(r.before))>> ELSE <<>>)

planResources == UNION {UNION {ToSet(planned(f[m])) : m \in Modules} : f \in Plans}
demands == workedOut(demandsOf, planResources)

\* A former cost that cannot be found counts as nothing.
ResolveBeforeCost(l, d, t) ==
  IF d.skipped THEN {l} ELSE {[l EXCEPT !.before = b.monthly] : b \in d.lines[t]}

NoCost == [before |-> 0, after |-> 0, unsupported |-> 0, estimated |-> 0, unknown |-> 0, error |-> FALSE]

AggregateCost(s, l, action) ==
  CASE l.status = "unsupported"   -> [s EXCEPT !.unsupported = @ + 1]
    [] l.status = "usage_unknown" -> [s EXCEPT !.unknown = @ + 1]
    [] l.status = "failed"        -> s
    [] l.status = "usage_estimated" ->
         IF action = "delete" THEN [s EXCEPT !.estimated = @ + 1, !.before = @ + l.monthly]
                              ELSE [s EXCEPT !.estimated = @ + 1, !.after = @ + l.monthly]
    [] l.status = "exact" ->
         [s EXCEPT !.before = @ + (CASE action \in {"delete", "no-op"}    -> l.monthly
                                     [] action \in {"update", "replace"} -> l.before
                                     [] OTHER                            -> 0),
                   !.after = @ + (IF action = "delete" THEN 0 ELSE l.monthly)]

addResource(s, lines, action) == FoldLeft(LAMBDA x, l : AggregateCost(x, l, action), s, lines)

-----------------------------------------------------------------------------
(* The command *)

modulesOf(p) == {m \in Modules : procOf[m] = p}
noMemo == [k \in {} |-> NoTable]

EstimateInit ==
  /\ InitCache
  /\ plan \in Plans
  /\ main = [p \in Procs |-> "clean"]
  /\ warm = [p \in Procs |-> {}]
  /\ work = [m \in Modules |-> [at |-> "new", r |-> 1, d |-> 1, memo |-> noMemo, lines |-> <<>>]]
  /\ sum = [m \in Modules |-> NoCost]
  /\ total = [p \in Procs |-> NoCost]

\* buildPrefetchPlan over the plans that could be read
prefetch(p) ==
  UNION {UNION {demands[r][1].tables : r \in ToSet(planned(plan[m]))} :
           m \in {n \in modulesOf(p) : plan[n].readable}}

\* Without any plan file the command fails here.
Scan(p) ==
  /\ main[p] = "clean"
  /\ cleaner[p].at = "done"
  /\ modulesOf(p) # {}
  /\ main' = [main EXCEPT ![p] = "warm"]
  /\ warm' = [warm EXCEPT ![p] = prefetch(p)]
  /\ sum' = [m \in Modules |-> IF m \in modulesOf(p) /\ ~plan[m].readable
                                 THEN [NoCost EXCEPT !.error = TRUE] ELSE sum[m]]
  /\ work' = [m \in Modules |-> IF m \in modulesOf(p) /\ ~plan[m].readable
                                  THEN [work[m] EXCEPT !.at = "done"] ELSE work[m]]
  /\ UNCHANGED <<cacheVars, plan, total>>

\* WarmIndexes: one key after the other, whatever comes of it.
WarmAsk(p) ==
  /\ main[p] = "warm"
  /\ call[p] = Idle
  /\ \E k \in warm[p] : GetIndex(p, k)
  /\ UNCHANGED <<clock, blob, flight, cancelled, cleaner, history, estimateVars>>

WarmTake(p) ==
  /\ main[p] = "warm"
  /\ answered(p)
  /\ warm' = [warm EXCEPT ![p] = @ \ {call[p].key}]
  /\ taken(p)
  /\ UNCHANGED <<clock, blob, flight, cancelled, cleaner, history, plan, main, work, sum, total>>

EndWarm(p) ==
  /\ main[p] = "warm"
  /\ warm[p] = {} /\ call[p] = Idle
  /\ main' = [main EXCEPT ![p] = "execute"]
  /\ UNCHANGED <<cacheVars, plan, warm, work, sum, total>>

running(p) == {m \in modulesOf(p) : work[m].at = "running"}

Launch(m) ==
  /\ main[procOf[m]] = "execute"
  /\ work[m].at = "new"
  /\ Cardinality(running(procOf[m])) < Concurrency
  /\ work' = [work EXCEPT ![m].at = "running"]
  /\ UNCHANGED <<cacheVars, plan, main, warm, sum, total>>

resource(m) == planned(plan[m])[work[m].r]
demand(m) == demands[resource(m)][work[m].d]
tables(m) == demand(m).tables
pending(m) == work[m].at = "running" /\ work[m].r \in DOMAIN planned(plan[m])

\* The current demand is met, from table t if it needs one.
met(m, t) ==
  LET w == work[m]
      d == demand(m)
      memo == IF t # NoTable THEN [k \in tables(m) |-> t] @@ w.memo ELSE w.memo
      last == w.d = Len(demands[resource(m)])
  IN  \E lines \in IF d.what = "before"
                      THEN {[w.lines EXCEPT ![1] = l] : l \in ResolveBeforeCost(w.lines[1], d, t)}
                      ELSE {Append(w.lines, l) : l \in d.lines[t]} :
        IF ~last
          THEN /\ work' = [work EXCEPT ![m].d = @ + 1, ![m].lines = lines, ![m].memo = memo]
               /\ UNCHANGED sum
          ELSE /\ work' = [work EXCEPT ![m].r = @ + 1, ![m].d = 1, ![m].lines = <<>>, ![m].memo = noMemo]
               /\ sum' = [sum EXCEPT ![m] = addResource(@, lines, resource(m).action)]

Resolve(m) ==
  /\ pending(m) /\ call[m] = Idle
  /\ \/ tables(m) = {} /\ met(m, NoTable)
     \/ \E k \in tables(m) \cap DOMAIN work[m].memo : met(m, work[m].memo[k])
  /\ UNCHANGED <<cacheVars, plan, main, warm, total>>

\* Mutant: the memo of a resource is not asked.
AskAlways(m) ==
  /\ pending(m) /\ call[m] = Idle
  /\ \E k \in tables(m) : GetIndex(m, k)
  /\ UNCHANGED <<clock, blob, flight, cancelled, cleaner, history, estimateVars>>

\* getIndex: the memo of the resource first, then the cache.
Ask(m) ==
  /\ pending(m) /\ call[m] = Idle
  /\ \E k \in tables(m) \ DOMAIN work[m].memo : GetIndex(m, k)
  /\ UNCHANGED <<clock, blob, flight, cancelled, cleaner, history, estimateVars>>

Priced(m) ==
  /\ pending(m) /\ answered(m)
  /\ met(m, call[m].table)
  /\ taken(m)
  /\ UNCHANGED <<clock, blob, flight, cancelled, cleaner, history, plan, main, warm, total>>

EndModule(m) ==
  /\ work[m].at = "running" /\ ~pending(m)
  /\ work' = [work EXCEPT ![m].at = "done"]
  /\ UNCHANGED <<cacheVars, plan, main, warm, sum, total>>

add(s, t) == [f \in DOMAIN s |-> IF f = "error" THEN s[f] \/ t[f] ELSE s[f] + t[f]]

Assemble(p) ==
  /\ main[p] = "execute"
  /\ \A m \in modulesOf(p) : work[m].at = "done"
  /\ main' = [main EXCEPT ![p] = "done"]
  /\ total' = [total EXCEPT ![p] = FoldSet(LAMBDA m, s : add(s, sum[m]), NoCost, modulesOf(p))]
  /\ UNCHANGED <<cacheVars, plan, warm, work, sum>>

CommandStep(p) == Scan(p) \/ WarmAsk(p) \/ WarmTake(p) \/ EndWarm(p) \/ Assemble(p)
ModuleStep(m) == Launch(m) \/ Resolve(m) \/ Ask(m) \/ Priced(m) \/ EndModule(m)

Next ==
  \/ CacheStep /\ UNCHANGED estimateVars
  \/ \E p \in Procs : CommandStep(p)
  \/ \E m \in Modules : ModuleStep(m)

\* A process that can take a step takes one, whichever of its goroutines it is:
\* the scheduler runs something, and a request ends because its client has a
\* timeout (awskit/fetcher.go:21).
Progress(p) ==
  \/ (CleanStep(p) \/ \E k \in Keys : FlightStep(p, k)) /\ UNCHANGED estimateVars
  \/ (\E a \in Askers : procOf[a] = p /\ CallStep(a)) /\ UNCHANGED estimateVars
  \/ CommandStep(p)
  \/ \E m \in modulesOf(p) : ModuleStep(m)

Fairness == \A p \in Procs : WF_vars(Progress(p))

Spec == EstimateInit /\ [][Next]_vars /\ Fairness

-----------------------------------------------------------------------------
(* Properties *)

Amounts == {"size", "iops", "throughput", "allocated_storage", "num_cache_nodes", "snapshot_retention_limit",
            "num_node_groups", "replicas_per_node_group"}

\* A resource that stays as it is, whose cost is one known product's: the
\* products on offer that match it are one at most.
isSettled(r) ==
  /\ r.action \in {"update", "replace", "no-op"} /\ r.before = r.after
  /\ known(r.type) =>
       LET def == Definition(r.type, ActiveAttrs(r))
       IN  /\ def.category # "usage" /\ def.subs = <<>>
           /\ \A l \in def.lookup : Cardinality(LookupPrice(Products[keyOf[l.service]], l)) <= 1

settled == FoldSet(LAMBDA r, s : IF isSettled(r) THEN s \cup {r} ELSE s, {}, planResources)

\* The change a plan makes to the bill is the change it makes to the resources:
\* a module of resources that stay as they are costs as much before as after,
\* though the price table may expire, be fetched anew or be gone between the
\* two look-ups (resolver.go:351-366, executor.go:37-48).
NoDriftWithoutChange ==
  \A m \in Modules :
    ToSet(planned(plan[m])) \subseteq settled => sum[m].before = sum[m].after

\* b is a with some amounts larger, looked up the same, and yet cheaper in the
\* price table of time t.
cheaper(type, a, b, t) ==
  LET less == Definition(type, a)
      more == Definition(type, b)
      index == UNION {PriceIndex(k, t) : k \in tablesFor(type, b)}
  IN  /\ less.lookup = more.lookup
      /\ \A k \in DOMAIN a : a[k] = b[k] \/ (k \in Amounts /\ a[k] <= b[k])
      /\ \E p \in UNION {LookupPrice(index, l) : l \in more.lookup} :
           \E x \in Calc(less.cost, p, index), y \in Calc(more.cost, p, index) : x > y

\* Per time: the types with such a pair in the price table of that time.
bargains ==
  workedOut(LAMBDA t : {type \in DOMAIN Sizes : \E a, b \in Sizes[type] : cheaper(type, a, b, t)}, Tables)

\* Asking for more of a product never lowers its price, whenever it is asked: not past the free
\* allowance of a volume, the nodes of a cache or the days a backup is kept
\* (cost_builder.go:188-204, 219-234).
MoreNeverCostsLess == clock \in Tables => bargains[clock] = {}

\* Every estimate ends, whoever leads a fetch, whatever fails and whenever the
\* command is cancelled (batch.go:65-75, pricing/cache.go:104-124).
EstimateEnds == \A p \in Procs : modulesOf(p) # {} => <>(main[p] = "done")
=============================================================================
