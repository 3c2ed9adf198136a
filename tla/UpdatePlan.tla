----------------------------- MODULE UpdatePlan -----------------------------
(***************************************************************************)
(* The planner of terraci tfupdate: for one terraform module, which        *)
(* versions of the modules it calls and of the providers it needs go       *)
(* together, and what has to change in its .tf files and its lock file.    *)
(*                                                                         *)
(* What is on disk of a module: the calls [name, source, constraint] and   *)
(* the required providers [source, constraint] of its .tf files, and per   *)
(* provider the entry of the lock file.                                    *)
(***************************************************************************)
EXTENDS VersionKit, Functions

CONSTANTS
  Providers,         \* the provider sources, in lexical order
  ProviderVersions,  \* per provider, what the registry lists
  ModuleVersions,    \* per source of a registry module, what it lists
  ModuleDeps         \* per source and version, the providers it needs: [source, constraint]

Versions == Nat \X Nat \X Nat \X {0, 1}
ASSUME RegistryAssumption ==
  /\ Providers \in Seq(Range(Providers))
  /\ \A s \in Range(Providers) : IsFiniteSet(ProviderVersions[s]) /\ ProviderVersions[s] \subseteq Versions

NoEntry == [version |-> Zero, constraint |-> <<>>, hashes |-> {}]

\* Those providers, in lexical order
inOrder(sources) == FlattenSeq([i \in DOMAIN Providers |-> IF Providers[i] \in sources THEN <<Providers[i]>> ELSE <<>>])

ShouldCheckModules(cfg) == cfg.target \in {"all", "modules"}
ShouldCheckProviders(cfg) == cfg.target \in {"all", "providers"}

-----------------------------------------------------------------------------
(* What there is to choose from.  failing are the look-ups the registry does *)
(* not answer.                                                               *)

\* A version whose needs cannot be looked up is no choice.
moduleChoices(call, current, cfg, failing) ==
  LET candidates == IF ~ShouldCheckModules(cfg) THEN {}
                    ELSE {v \in ModuleVersions[call.source] : Less(current, v) /\ withinBump(current, v, cfg.bump)}
      known == {v \in ({current} \cup candidates) \ {Zero} :
                  <<call.source, v>> \in DOMAIN ModuleDeps /\ <<call.source, v>> \notin failing}
  IN  SetToSortSeq({[version |-> v, needs |-> ModuleDeps[<<call.source, v>>]] : v \in known},
                   LAMBDA c, d : Less(d.version, c.version))

buildModulePlan(call, cfg, failing) ==
  LET current == versionFromConstraint(call.constraint)
      status == IF call.source \notin DOMAIN ModuleVersions \/ call.constraint = <<>> \/ call.source \in cfg.ignore
                  THEN "skipped" ELSE IF <<call.source>> \in failing THEN "error" ELSE "up_to_date"
  IN  [call |-> call, current |-> current, status |-> status,
       choices |-> IF status = "up_to_date" THEN moduleChoices(call, current, cfg, failing) ELSE <<>>]

newestStable(S) ==
  LET stable == {v \in S : ~isPrerelease(v)} IN IF stable = {} THEN {} ELSE {newest(stable)}

\* The locked version is the current one; without one it is the version of the
\* constraint, or the newest that satisfies it.
providerPlan(source, constraint, locked, required, failing, cfg) ==
  LET versions == ProviderVersions[source]
      base == IF constraint # <<>> THEN constraint ELSE locked.constraint
      inferred == IF locked.version # Zero THEN locked.version ELSE versionFromConstraint(base)
      current == IF inferred # Zero THEN {inferred}
                 ELSE IF base = <<>> THEN {}
                 ELSE newestStable({v \in versions : SatisfiesAll(v, base)})
      status == IF required /\ source \in cfg.ignore THEN "skipped"
                ELSE IF <<source>> \in failing THEN "error" ELSE "up_to_date"
  IN  [source |-> source, required |-> required, constraint |-> base, status |-> status,
       current |-> IF status = "up_to_date" THEN current ELSE {},
       versions |-> IF status = "up_to_date" THEN versions ELSE {},
       base |-> IF status = "up_to_date" THEN base ELSE <<>>]

\* Required providers first, then those of the lock file only.
buildProviderPlans(there, cfg, failing) ==
  LET required == [i \in DOMAIN there.required |->
                     LET r == there.required[i]
                     IN  providerPlan(r.source, r.constraint, there.lock[r.source], TRUE, failing, cfg)]
      lockedOnly == inOrder({s \in Range(Providers) : /\ there.lock[s] # NoEntry
                                                      /\ \A r \in Range(there.required) : r.source # s})
  IN  required \o [i \in DOMAIN lockedOnly |->
                     LET s == lockedOnly[i]
                     IN  providerPlan(s, there.lock[s].constraint, there.lock[s], FALSE, failing, cfg)]

-----------------------------------------------------------------------------
(* The search.  A selection is a sequence of choices, one per module call.   *)

NoChoice == [version |-> Zero, needs |-> {}]

\* mergeProviderConstraintStrings, of one provider
needsOf(selection, source) == {n.constraint : n \in {d \in UNION {c.needs : c \in Range(selection)} : d.source = source}}

\* Mutant: what the modules need is not merged in.
selectProviderVersionAlone(plan, needs, bump) ==
  LET fits == {v \in plan.versions : /\ ~isPrerelease(v) /\ SatisfiesAll(v, plan.base)
                                     /\ \A c \in plan.current : withinBump(c, v, bump)}
  IN  IF fits # {} THEN {newest(fits)} ELSE {c \in plan.current : SatisfiesAll(c, plan.base)}

\* Mutant: the newest that satisfies the constraints, whatever the bump.
selectProviderVersionAnyBump(plan, needs, bump) ==
  LET admitted(v) == SatisfiesAll(v, plan.base) /\ \A n \in needs : SatisfiesAll(v, n)
      fits == {v \in plan.versions : ~isPrerelease(v) /\ admitted(v)}
  IN  IF fits # {} THEN {newest(fits)} ELSE {c \in plan.current : admitted(c)}

\* The newest release within the bump, or else the current version if it is
\* admitted; {} for no version.
selectProviderVersion(plan, needs, bump) ==
  LET admitted(v) == SatisfiesAll(v, plan.base) /\ \A n \in needs : SatisfiesAll(v, n)
      fits == {v \in plan.versions : /\ ~isPrerelease(v) /\ admitted(v)
                                     /\ \A c \in plan.current : withinBump(c, v, bump)}
  IN  IF fits # {} THEN {newest(fits)} ELSE {c \in plan.current : admitted(c)}

solveProviders(plans, selection, bump) ==
  [i \in DOMAIN plans |-> selectProviderVersion(plans[i], needsOf(selection, plans[i].source), bump)]
solved(versions) == \A i \in DOMAIN versions : versions[i] # {}

modulesCompatibleWithLockedProviders(plans, selection) ==
  \A p \in Range(plans) : \A n \in needsOf(selection, p.source) :
    p.versions = {} => \A c \in p.current : SatisfiesAll(c, n)

\* Mutant: the newest choices, or none.
searchNewest(modulePlans, plans, bump) ==
  LET newestOf == [i \in DOMAIN modulePlans |-> IF modulePlans[i].choices = <<>> THEN NoChoice ELSE modulePlans[i].choices[1]]
  IN  IF solved(solveProviders(plans, newestOf, bump)) THEN {newestOf} ELSE {}

\* findCompatiblePlan: the newest versions first, backtracking.
search(modulePlans, plans, bump) ==
  LET offers == FoldLeft(LAMBDA offered, p : Append(offered, IF p.choices = <<>> THEN <<NoChoice>> ELSE p.choices), <<>>, modulePlans)
      isChoice(selection, c) == c # NoChoice => modulesCompatibleWithLockedProviders(plans, Append(selection, c))
      try[selection \in Seq(UNION {Range(o) : o \in Range(offers)})] ==
        IF Len(selection) = Len(offers)
          THEN IF solved(solveProviders(plans, selection, bump)) THEN {selection} ELSE {}
          ELSE LET cs == offers[Len(selection) + 1]
                   below == UNION {{<<i, s>> : s \in try[Append(selection, cs[i])]} :
                                     i \in {j \in DOMAIN cs : isChoice(selection, cs[j])}}
               IN  {x[2] : x \in {y \in below : \A z \in below : y[1] <= z[1]}}
  IN  try[<<>>]

\* What goes together: the choices with the versions of the providers.
compatible(modulePlans, plans, bump) ==
  {[selection |-> s, versions |-> solveProviders(plans, s, bump)] : s \in search(modulePlans, plans, bump)}

-----------------------------------------------------------------------------
(* What comes of it.                                                         *)

\* Nothing is said of a module without a newer version when nothing goes together.
moduleUpdate(m, p, found, i) ==
  LET chosen == IF found = {} THEN NoChoice ELSE (CHOOSE f \in found : TRUE).selection[i]
      newer == chosen # NoChoice /\ Less(p.current, chosen.version)
  IN  [module |-> m, name |-> p.call.name, source |-> p.call.source, constraint |-> p.call.constraint, current |-> p.current,
       selected |-> chosen.version,
       status |-> IF p.status # "up_to_date" THEN p.status
                  ELSE IF found = {} THEN IF \E c \in Range(p.choices) : Less(p.current, c.version) THEN "skipped" ELSE "none"
                  ELSE IF newer THEN "update_available" ELSE "up_to_date"]

providerUpdate(m, p, found, i) ==
  LET selected == IF found = {} THEN {} ELSE (CHOOSE f \in found : TRUE).versions[i]
      newer == \E v \in selected, c \in p.current : Less(c, v)
  IN  [module |-> m, source |-> p.source, constraint |-> p.constraint, file |-> p.required,
       current |-> IF p.current = {} THEN Zero ELSE CHOOSE c \in p.current : TRUE,
       selected |-> IF newer THEN CHOOSE v \in selected : TRUE ELSE Zero,
       status |-> IF p.status # "up_to_date" THEN p.status
                  ELSE IF selected = {} \/ p.current = {} THEN "skipped"
                  ELSE IF newer THEN "update_available" ELSE "up_to_date"]

\* buildLockSyncPlan: every provider that is planned or needed by a module
\* call; {} if one that is only needed has no version that suits.
lockSync(m, plans, found, cfg, failing) ==
  LET f == CHOOSE x \in found : TRUE
      planOf(s) == {i \in DOMAIN plans : plans[i].source = s}
      versionOf(s) ==
        IF planOf(s) # {} THEN UNION {f.versions[i] : i \in planOf(s)}
        ELSE IF <<s>> \in failing THEN {}
        ELSE selectProviderVersion([versions |-> ProviderVersions[s], current |-> {}, base |-> <<>>],
                                   needsOf(f.selection, s), cfg.bump)
      root(s) == IF \E i \in planOf(s) : plans[i].required /\ cfg.pin
                   THEN <<Term("=", CHOOSE v \in versionOf(s) : TRUE, 3)>>
                   ELSE IF planOf(s) = {} THEN <<>> ELSE plans[CHOOSE i \in planOf(s) : TRUE].base
      merged(s) == {plans[i].base : i \in planOf(s)} \cup needsOf(f.selection, s)
      wanted == inOrder({s \in Range(Providers) : planOf(s) # {} \/ needsOf(f.selection, s) # {}})
  IN  IF found = {} THEN {<<>>}
      ELSE IF \E s \in Range(wanted) : versionOf(s) = {} THEN {}
      ELSE {[k \in DOMAIN wanted |->
               [module |-> m, source |-> wanted[k], version |-> CHOOSE v \in versionOf(wanted[k]) : TRUE,
                constraint |-> MergeConstraints(root(wanted[k]), merged(wanted[k]))]]}

\* SolveModule; {} is an error.
SolveModule(m, there, cfg, failing) ==
  LET modulePlans == [i \in DOMAIN there.calls |-> buildModulePlan(there.calls[i], cfg, failing)]
      plans == buildProviderPlans(there, cfg, failing)
      found == compatible(modulePlans, plans, cfg.bump)
  IN  {[modules |-> IF ~ShouldCheckModules(cfg) THEN <<>>
                    ELSE [i \in DOMAIN modulePlans |-> moduleUpdate(m, modulePlans[i], found, i)],
        providers |-> IF ~ShouldCheckProviders(cfg) THEN <<>>
                      ELSE [i \in DOMAIN plans |-> providerUpdate(m, plans[i], found, i)],
        lockSync |-> sync] : sync \in lockSync(m, plans, found, cfg, failing)}
=============================================================================
