-------------------------- MODULE DependencyUpdate --------------------------
(***************************************************************************)
(* terraci tfupdate: modules are planned concurrently; with --write the    *)
(* .tf files are rewritten one dependency after the other, then the lock   *)
(* files one provider after the other, the packages of a provider being    *)
(* hashed concurrently for its platforms.                                  *)
(***************************************************************************)
EXTENDS UpdatePlan, TLC

CONSTANTS
  Modules,     \* the terraform modules, in order
  Disks,       \* what there may be on disk, per module
  Configs,     \* the effective configurations
  Platforms,   \* per provider, the platforms it is released for
  Summed,      \* per provider, those the registry has a checksum of
  MaxFaults    \* bound on failing look-ups, reads, writes and cancellations

\* Of what is on disk: an entry of a lock file has a version, and what is
\* required comes from the registry.
ASSUME DisksAssumption ==
  \A d \in Disks :
    /\ DOMAIN d = Range(Modules)
    /\ \A m \in Range(Modules) :
         /\ DOMAIN d[m] = {"tf", "calls", "required", "locked", "lock"}
         /\ d[m].calls \in Seq(Range(d[m].calls)) /\ d[m].required \in Seq(Range(d[m].required))
         /\ \A r \in Range(d[m].required) : r.source \in Range(Providers)
         /\ DOMAIN d[m].lock = Range(Providers)
         /\ \A s \in Range(Providers) : d[m].lock[s] = NoEntry \/ d[m].lock[s].version # Zero

\* validate.go accepts no other bump.
ASSUME ConfigsAssumption == Modules \in Seq(Range(Modules)) /\ \A c \in Configs : c.bump \in {"patch", "minor", "major"}

VARIABLES
  disk, cfg,
  worker,      \* per module, its goroutine: [at, seen, plan]
  baseErrors,  \* UpdateResult.baseErrors
  result,      \* [modules, providers], the updates
  todo,        \* what Apply has left to do
  hashing,     \* per platform of the provider being synced, how far it is
  phase,       \* "plan", "apply", "ended" or "failed"
  cancelled,   \* the context is
  faults,
  before       \* history: the disk at first
vars == <<disk, cfg, worker, baseErrors, result, todo, hashing, phase, cancelled, faults, before>>

Idle == [p \in {} |-> "todo"]
NoResult == [modules |-> <<>>, providers |-> <<>>]

Init ==
  /\ disk \in Disks
  /\ before = disk
  /\ cfg \in Configs
  /\ worker = [m \in Range(Modules) |-> [at |-> "todo", seen |-> 0, plan |-> {}]]
  /\ baseErrors = 0
  /\ result = NoResult
  /\ todo = <<>>
  /\ hashing = Idle
  /\ phase = "plan"
  /\ cancelled = FALSE
  /\ faults = 0

fault == faults < MaxFaults /\ faults' = faults + 1

\* --timeout, or ctrl+c
Cancel ==
  /\ phase \in {"plan", "apply"} /\ ~cancelled /\ fault
  /\ cancelled' = TRUE
  /\ UNCHANGED <<disk, cfg, worker, baseErrors, result, todo, hashing, phase, before>>

-----------------------------------------------------------------------------
(* planModules                                                               *)

\* One look-up fails, or none.
lookups(there) == {<<s>> : s \in Range(Providers) \cup {c.source : c \in Range(there.calls)}} \cup DOMAIN ModuleDeps

\* A file with broken syntax is read for what can be made of it: nothing here.
parsed(there) == IF there.tf = "broken" THEN [there EXCEPT !.calls = <<>>, !.required = <<>>] ELSE there

Plan(m) ==
  /\ phase = "plan" /\ worker[m].at = "todo"
  /\ \/ /\ cancelled
        /\ worker' = [worker EXCEPT ![m].at = "cancelled"]
        /\ UNCHANGED faults
     \/ \E failing \in {{}} \cup {{l} : l \in lookups(disk[m])} :
          LET there == parsed(disk[m])
              plan == IF there.tf = "unreadable" THEN {} ELSE SolveModule(m, there, cfg, failing)
          IN  /\ IF failing = {} THEN UNCHANGED faults ELSE fault
              /\ worker' = [worker EXCEPT ![m] = [at |-> IF plan = {} THEN "failing" ELSE "planned",
                                                  seen |-> 0, plan |-> plan]]
  /\ UNCHANGED <<disk, cfg, baseErrors, result, todo, hashing, phase, cancelled, before>>

\* builder.RecordError() of a goroutine: baseErrors++ without a lock.
RecordErrorRead(m) ==
  /\ worker[m].at = "failing"
  /\ worker' = [worker EXCEPT ![m].at = "recording", ![m].seen = baseErrors]
  /\ UNCHANGED <<disk, cfg, baseErrors, result, todo, hashing, phase, cancelled, faults, before>>
RecordErrorWrite(m) ==
  /\ worker[m].at = "recording"
  /\ worker' = [worker EXCEPT ![m].at = "failed"]
  /\ baseErrors' = worker[m].seen + 1
  /\ UNCHANGED <<disk, cfg, result, todo, hashing, phase, cancelled, faults, before>>

\* The plan of a module, if it has one
planned(m) == worker[m].plan # {}
planOf(m) == CHOOSE p \in worker[m].plan : TRUE

plansInOrder ==
  FlattenSeq([i \in DOMAIN Modules |-> IF planned(Modules[i]) THEN <<planOf(Modules[i])>> ELSE <<>>])

\* What Apply does with a result, in order.
applyTasks(r, syncs) ==
  LET tasks(kind, s) == [i \in DOMAIN s |-> [kind |-> kind, i |-> i]]
  IN  tasks("module", r.modules) \o tasks("provider", r.providers)
        \o (IF cfg.pin THEN tasks("pin_module", r.modules) \o tasks("pin_provider", r.providers) ELSE <<>>)
        \o [i \in DOMAIN syncs |-> [kind |-> "lock", i |-> syncs[i]]]

EndPlan ==
  /\ phase = "plan"
  /\ \A m \in Range(Modules) : worker[m].at \in {"planned", "failed", "cancelled"}
  /\ IF \E m \in Range(Modules) : worker[m].at = "cancelled"
       THEN phase' = "failed" /\ UNCHANGED <<result, todo>>
       ELSE LET ps == plansInOrder
            IN  /\ phase' = "apply"
                /\ result' = [modules |-> FlattenSeq([i \in DOMAIN ps |-> ps[i].modules]),
                              providers |-> FlattenSeq([i \in DOMAIN ps |-> ps[i].providers])]
                /\ todo' = IF cfg.write THEN applyTasks(result', FlattenSeq([i \in DOMAIN ps |-> ps[i].lockSync]))
                                        ELSE <<>>
  /\ UNCHANGED <<disk, cfg, worker, baseErrors, hashing, cancelled, faults, before>>

-----------------------------------------------------------------------------
(* Apply                                                                     *)

task == todo[1]
doing(kind) == phase = "apply" /\ todo # <<>> /\ task.kind = kind
done == todo' = Tail(todo)
mark(list, i, status) == result' = [result EXCEPT ![list][i].status = status]

newConstraint(u) ==
  IF cfg.pin THEN <<Term("=", u.selected, 3)>> ELSE BumpConstraint(u.constraint, u.selected)

\* tfwrite: reads, replaces and writes the file in place.
nameIn(list, x) == IF list = "calls" THEN x.name ELSE x.source
setConstraint(m, list, name, constraint) ==
  [disk EXCEPT ![m][list] = [i \in DOMAIN @ |->
     IF nameIn(list, @[i]) = name THEN [@[i] EXCEPT !.constraint = constraint] ELSE @[i]]]

WriteTF(m, list, name, constraint, onSuccess, onError) ==
  \/ /\ disk[m].tf = "ok"
     /\ disk' = setConstraint(m, list, name, constraint)
     /\ onSuccess
     /\ UNCHANGED faults
  \/ /\ disk[m].tf # "ok"
     /\ onError
     /\ UNCHANGED <<disk, faults>>
  \/ /\ disk[m].tf = "ok" /\ fault
     /\ \E tf \in {"ok", "broken"} : disk' = [disk EXCEPT ![m].tf = tf]
     /\ onError

\* The context is looked at before each dependency; when it is cancelled, what
\* is pending from there on becomes an error and nothing more is done.
ApplyCancelled ==
  /\ doing("module") \/ doing("provider")
  /\ cancelled
  /\ LET pending(list, from) == [i \in DOMAIN result[list] |->
                                   IF i >= from /\ result[list][i].status = "update_available"
                                     THEN [result[list][i] EXCEPT !.status = "error"] ELSE result[list][i]]
     IN  result' = [modules |-> IF task.kind = "module" THEN pending("modules", task.i) ELSE result.modules,
                    providers |-> pending("providers", IF task.kind = "module" THEN 1 ELSE task.i)]
  /\ todo' = <<>>
  /\ UNCHANGED <<disk, cfg, worker, baseErrors, hashing, phase, cancelled, faults, before>>

ApplyModule ==
  /\ doing("module") /\ ~cancelled
  /\ LET u == result.modules[task.i]
     IN  IF u.status # "update_available" THEN UNCHANGED <<disk, result, faults>>
         ELSE WriteTF(u.module, "calls", u.name, newConstraint(u),
                      mark("modules", task.i, "applied"), mark("modules", task.i, "error"))
  /\ done
  /\ UNCHANGED <<cfg, worker, baseErrors, hashing, phase, cancelled, before>>

\* A provider of the lock file only has no .tf file to write.
ApplyProvider ==
  /\ doing("provider") /\ ~cancelled
  /\ LET u == result.providers[task.i]
     IN  IF u.status # "update_available" \/ ~u.file THEN UNCHANGED <<disk, result, faults>>
         ELSE WriteTF(u.module, "required", u.source, newConstraint(u),
                      mark("providers", task.i, "applied"), mark("providers", task.i, "error"))
  /\ done
  /\ UNCHANGED <<cfg, worker, baseErrors, hashing, phase, cancelled, before>>

\* PinModules and PinProviders: what is up to date gets its exact version; a
\* failure is logged.
Pin ==
  /\ doing("pin_module") \/ doing("pin_provider")
  /\ LET list == IF task.kind = "pin_module" THEN "modules" ELSE "providers"
         u == result[list][task.i]
         v == IF list = "modules" /\ u.selected # Zero THEN u.selected ELSE u.current
         place == IF list = "modules" THEN "calls" ELSE "required"
     IN  IF u.status # "up_to_date" \/ v = Zero \/ isExactConstraint(u.constraint, v) \/ (list = "providers" /\ ~u.file)
           THEN UNCHANGED <<disk, faults>>
           ELSE WriteTF(u.module, place, nameIn(place, u), <<Term("=", v, 3)>>, TRUE, TRUE)
  /\ done
  /\ UNCHANGED <<cfg, worker, baseErrors, result, hashing, phase, cancelled, before>>

-----------------------------------------------------------------------------
(* SyncProvider                                                              *)

zh(s, v, p) == [kind |-> "zh", source |-> s, version |-> v, platform |-> p]
h1(s, v, p) == [zh(s, v, p) EXCEPT !.kind = "h1"]
h1Platforms(s) == IF cfg.platforms = {} THEN Platforms[s] ELSE cfg.platforms \cap Platforms[s]

\* markLockSyncError and markLockSyncApplied: the first update of the provider
\* in the file, whatever became of it before; one without a file is any
\* module's when the lock was synced, and none's when it was not.
markLockSync(sync, status) ==
  LET isOf(u) == /\ u.source = sync.source
                 /\ \/ u.file /\ u.module = sync.module
                    \/ status = "applied" /\ ~u.file
      i == SelectInSeq(result.providers, isOf)
  IN  IF i = 0 THEN UNCHANGED result ELSE mark("providers", i, status)

LockSyncCancelled ==
  /\ doing("lock") /\ hashing = Idle /\ cancelled
  /\ todo' = <<>>
  /\ UNCHANGED <<disk, cfg, worker, baseErrors, result, hashing, phase, cancelled, faults, before>>

\* ProviderPlatforms may not be answered.
StartSync ==
  /\ doing("lock") /\ hashing = Idle /\ ~cancelled
  /\ \/ /\ hashing' = [p \in Platforms[task.i.source] |-> "todo"]
        /\ UNCHANGED <<result, todo, faults>>
     \/ /\ fault
        /\ markLockSync(task.i, "error")
        /\ done
        /\ UNCHANGED hashing
  /\ UNCHANGED <<disk, cfg, worker, baseErrors, phase, cancelled, before>>

\* A package is looked up and, for its h1 hash, downloaded and checked.  The
\* first failure cancels those that have not begun, and those that run may
\* fail for it.
groupCancelled == cancelled \/ \E p \in DOMAIN hashing : hashing[p] = "failed"
Hash(p) ==
  /\ doing("lock") /\ p \in DOMAIN hashing /\ hashing[p] = "todo"
  /\ \/ hashing' = [hashing EXCEPT ![p] = "hashed"] /\ UNCHANGED faults
     \/ hashing' = [hashing EXCEPT ![p] = "failed"] /\ IF groupCancelled THEN UNCHANGED faults ELSE fault
  /\ UNCHANGED <<disk, cfg, worker, baseErrors, result, todo, phase, cancelled, before>>

\* Mutant: what has been hashed is taken.
collectWhatThereIs(sync) ==
  LET ps == {p \in DOMAIN hashing : hashing[p] = "hashed"}
  IN  {{zh(sync.source, sync.version, p) : p \in ps \cap Summed[sync.source]}
         \cup {h1(sync.source, sync.version, p) : p \in ps \cap h1Platforms(sync.source)}}
\* {} after an error.
collectAllHashes(sync) ==
  IF \E p \in DOMAIN hashing : hashing[p] = "failed" THEN {}
  ELSE {{zh(sync.source, sync.version, p) : p \in DOMAIN hashing \cap Summed[sync.source]}
          \cup {h1(sync.source, sync.version, p) : p \in h1Platforms(sync.source)}}

\* writeProviderEntry: the entry is replaced but for its hashes, which are kept.
EndSync ==
  /\ doing("lock") /\ hashing # Idle
  /\ \A p \in DOMAIN hashing : hashing[p] # "todo"
  /\ LET sync == task.i
         m == sync.module
         hashes == collectAllHashes(sync)
         entry(h) == [version |-> sync.version, constraint |-> sync.constraint,
                      hashes |-> h \cup disk[m].lock[sync.source].hashes]
         writable == hashes # {} /\ disk[m].locked = "ok"
     IN  \/ /\ writable
            /\ \E h \in hashes : disk' = [disk EXCEPT ![m].lock[sync.source] = entry(h)]
            /\ markLockSync(sync, "applied")
            /\ UNCHANGED faults
         \/ /\ ~writable
            /\ markLockSync(sync, "error")
            /\ UNCHANGED <<disk, faults>>
         \/ /\ writable /\ fault
            /\ \E l \in {"ok", "broken"} : disk' = [disk EXCEPT ![m].locked = l]
            /\ markLockSync(sync, "error")
  /\ hashing' = Idle
  /\ done
  /\ UNCHANGED <<cfg, worker, baseErrors, phase, cancelled, before>>

\* finishUpdateCheck: the command fails if there is an error in the summary.
Errors ==
  baseErrors + Cardinality({i \in DOMAIN result.modules : result.modules[i].status = "error"})
             + Cardinality({i \in DOMAIN result.providers : result.providers[i].status = "error"})
End ==
  /\ phase = "apply" /\ todo = <<>>
  /\ phase' = IF Errors = 0 THEN "ended" ELSE "failed"
  /\ UNCHANGED <<disk, cfg, worker, baseErrors, result, todo, hashing, cancelled, faults, before>>

Next ==
  \/ Cancel
  \/ \E m \in Range(Modules) : Plan(m) \/ RecordErrorRead(m) \/ RecordErrorWrite(m)
  \/ EndPlan
  \/ ApplyCancelled \/ ApplyModule \/ ApplyProvider \/ Pin
  \/ LockSyncCancelled \/ StartSync \/ (\E p \in DOMAIN hashing : Hash(p)) \/ EndSync
  \/ End

Spec == Init /\ [][Next]_vars

-----------------------------------------------------------------------------
(* Properties *)

synced(m) == {s.source : s \in Range(planOf(m).lockSync)}
lockOf(m, s) == disk[m].lock[s].version

\* What terraform init asks of a module's lock file: each provider the lock was
\* planned for is in it, in a version its .tf files, those excepted aside, and
\* the selected versions of the modules it calls accept.
inStepBut(m, excepted) ==
  /\ disk[m].tf = "ok" /\ disk[m].locked = "ok"
  /\ \A r \in Range(disk[m].required) :
       r.source \in synced(m) =>
         lockOf(m, r.source) # Zero /\ (r.source \in excepted \/ SatisfiesAll(lockOf(m, r.source), r.constraint))
  /\ synced(m) # {} =>
       \A u \in Range(result.modules) : u.module = m /\ u.selected # Zero =>
         \A n \in ModuleDeps[<<u.source, u.selected>>] : SatisfiesAll(lockOf(m, n.source), n.constraint)

inStepBefore(m) ==
  /\ before[m].tf = "ok" /\ before[m].locked = "ok"
  /\ \A r \in Range(before[m].required) :
       before[m].lock[r.source] # NoEntry => SatisfiesAll(before[m].lock[r.source].version, r.constraint)

\* The providers of which a module had a newer version than it is given now,
\* when what is up to date is pinned: to the version it had.
pinnedBack(m) ==
  {u.source : u \in {x \in Range(result.providers) : cfg.pin /\ x.module = m /\ x.file /\ Less(lockOf(m, x.source), x.current)}}

\* When nothing goes wrong, --write leaves .tf files and lock file in step:
\* through the search, the rewriting of constraints, the pinning of what is up
\* to date, and the versions of providers that are only needed by a module
\* (compatibility.go, constraints.go, apply_*.go, lock_sync.go).  The one
\* exception is a provider that is pinned to the version it had while its lock
\* goes back to an older one, for a module that needs that (materialize.go:108).
InStepWhenNothingFails ==
  phase = "ended" /\ cfg.write /\ faults = 0 =>
    \A m \in Range(Modules) : planned(m) /\ inStepBefore(m) => inStepBut(m, pinnedBack(m))

\* docs/config/tfupdate.md:249, of the lock file's synchronization: "This ensures
\* that `terraform init` will not fail due to stale lock file entries after an
\* update."  It fails for the exception above.
InitWillNotFail ==
  phase = "ended" /\ cfg.write /\ faults = 0 =>
    \A m \in Range(Modules) : planned(m) /\ inStepBefore(m) => inStepBut(m, {})

\* The search gives up only if no versions go together, and of those that do it
\* takes none that is newer in a call, and older in none, than its own.  What
\* goes together is the code's notion (compatibility.go:73-98): a provider stays
\* within the constraint it has in the .tf files, so that "~> 5.0" never becomes
\* "~> 6.0" (docs/cli/tfupdate.md:150 says it does for --bump major), and one that
\* is ignored has no version, so that nothing goes together with it.
NewestThatFit ==
  \A m \in Range(Modules) :
    phase = "plan" /\ planned(m) /\ disk[m].tf = "ok" /\ faults = 0 =>
      LET mps == [i \in DOMAIN disk[m].calls |-> buildModulePlan(disk[m].calls[i], cfg, {})]
          pps == buildProviderPlans(disk[m], cfg, {})
          choices(i) == IF mps[i].choices = <<>> THEN {NoChoice} ELSE Range(mps[i].choices)
          selections == {s \in [DOMAIN mps -> UNION {choices(i) : i \in DOMAIN mps}] : \A i \in DOMAIN mps : s[i] \in choices(i)}
          fit(s) == \A p \in Range(pps) :
                      \E v \in p.versions \cup p.current :
                        /\ v \in p.current \/ (~isPrerelease(v) /\ \A c \in p.current : withinBump(c, v, cfg.bump))
                        /\ SatisfiesAll(v, p.base) /\ \A n \in needsOf(s, p.source) : SatisfiesAll(v, n)
          found == search(mps, pps, cfg.bump)
      IN  /\ found = {} <=> \A s \in selections : ~fit(s)
          /\ \A f \in found : ~\E s \in selections :
               /\ fit(s) /\ s # f
               /\ \A i \in DOMAIN s : AtMost(f[i].version, s[i].version)

\* Whatever fails or is cancelled in the middle, a lock entry that has been
\* touched is whole: of its version, the checksum of every platform the registry
\* has one of, and the hash of every platform asked for (service_hashes.go).
WholeEntries ==
  \A m \in Range(Modules), s \in Range(Providers) :
    LET e == disk[m].lock[s]
    IN  e # before[m].lock[s] =>
          /\ {zh(s, e.version, p) : p \in Platforms[s] \cap Summed[s]} \subseteq e.hashes
          /\ {h1(s, e.version, p) : p \in h1Platforms(s)} \subseteq e.hashes

\* No lock goes further than the bump allows from where it was.
LockedWithinBump ==
  \A m \in Range(Modules), s \in Range(Providers) :
    before[m].lock[s] # NoEntry => withinBump(before[m].lock[s].version, lockOf(m, s), cfg.bump)
=============================================================================
