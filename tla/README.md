# TerraCi in TLA+

TerraCi finds the Terraform modules of a monorepo, works out how they depend on
each other, and turns the ones a change affects into a CI pipeline, which it
writes out for GitLab or GitHub or runs itself.  This directory specifies it:
TLA+ modules that follow the code, TLC runs that check them on small instances,
and TLAPS proofs that do not depend on the size of the instance.

A path below is relative to the repository's `src/`.  `PROJECT.json` maps every
definition to the lines it models, and lists the components with what is left
out of each, the runs, the mutants (a plausible bug for each property, which TLC
must find), the hazards and the theorems.

## 1. The system

```
 directories ─┐                        ┌─ jobs contributed by plugins
 .tf files   ─┼─> workflow ─> graph ───┴─> builder ─> IR ─┬─> GitLab / GitHub YAML ─> CI runs
 git history ─┘   walk         sort                       ├─> schedule ─> executor
                  filters      cycles                     └─> local-exec rounds
                  extraction   affected, views                      │ jobs
                                                   plans, results, reports in a workspace
 init wizard ─> .terraci.yaml ─> plugins                            │
 registry APIs ─> tfupdate ─> .tf, lock files        summary ─> comment, labels, local output
 price lists ─> pricing cache over blob store ─> cost estimate
```

A command gets plugin instances of its own, loads the configuration, lets the
plugins that are on check theirs, and then calls the workflow (walk, filter,
extract dependencies, build the graph, select targets) and hands graph and
targets to the pipeline builder.  Builder and plugins interact through resource
requests: a plugin contributes a job and names what it consumes and produces,
the builder finds out which jobs it has to wait for.  The IR is translated by a
generator plugin or scheduled and executed in process.  Plugins running as jobs
of different processes share nothing but files: plan outputs, results, reports,
the blob store.

| Component | State | Operations | What is hard | What makes it correct |
|---|---|---|---|---|
| IR and validation `pkg/pipeline/validate.go` | none (value) | `Validate` | two cycle checks, here and in `Schedule` | accepts exactly what can be run |
| Scheduler `pkg/pipeline/schedule.go` | pending jobs, in-degrees, groups | `Schedule` | duplicate dependencies, release inside a layer | layers respect dependencies, lose no job, waste no barrier |
| Builder `pkg/pipeline/builder.go`, `resource_resolver.go` | jobs so far | `BuildProjectIR` | requests resolved against jobs made from requests | fails for a reason; everything asked for is delivered in time |
| Executor `pkg/execution` | goroutines, semaphore, errgroup, results | `Execute` | slot against cancellation, error against release | dependencies first, bound, barrier, right error, returns |
| Graph `pkg/graph` | nodes, edges, library usage | build, sort, levels, cycles, affected, subgraph, scope, views | Go map order, names cut to aliases | deterministic; views show the graph |
| Workflow, discovery, filters, git `pkg/workflow`, `pkg/discovery`, `plugins/git` | modules, filtered modules, targets | `PlanProject` | nested modules and libraries, two selection passes, histories that have diverged | nothing excluded runs, nothing affected is missed |
| Parser `pkg/parser` | parsed modules, backend index | extraction session | parallel collection, backend keys used twice, partial failure | the edges do not depend on goroutine order |
| GitLab, GitHub `plugins/gitlab`, `plugins/github` | generated jobs; remote comments and labels | generate, upsert, label sync | settings on top of the IR, two pipelines at once, half done syncs | the CI system runs the IR; one comment, labels as computed |
| Local execution `plugins/localexec` | one working copy over many rounds | `Run` | plans and reports of failed rounds | what is applied was planned in this round |
| Disk blob store `plugins/diskblob` | two files per key, temp files, a mutex per key | `Get Open Put PutStream Delete List` | two commits per write, readers without lock, crashes | last successful write survives |
| Blob cache, pricing cache `pkg/cache/blobcache`, `plugins/cost/internal/pricing` | tables with times, single flights | `GetIndex`, clean-up at start | one fetch for many callers, stale fallback, clock | no stale price without a failed fetch |
| Cost engine and tables `plugins/cost` | batch of estimates | `Estimate` | shared pool, look-ups at different times, free tiers | no drift, monotone prices, ends |
| Reports `pkg/ci`, `pkg/ci/plan`, `plugins/policy` | files of a workspace that is reused | scan plans, publish, select, compose | non-atomic files, old reports, failed publications | a summary is about its plans and says what was found |
| Registry, commands, configuration `pkg/plugin`, `cmd/terraci`, `pkg/config` | instances, lifecycle stage, the file | prepare, resolve, init | several commands per process, plugins switched on in three ways | nothing runs unchecked; init is understood |
| tfupdate `plugins/tfupdate` | `.tf` and lock files, registry cache | plan, apply, lock sync | a backtracking search, writes one after another | files and lock in step; entries whole |
| Paths, diagnostics, error types, xterraci | none worth modelling | | | |

## 2. Modules

Modules extend those they build on, so that one run checks a component together
with what feeds it.

| Module | Extends | Models |
|---|---|---|
| `PipelineIR` | | the IR and `IR.Validate` |
| `PipelineSchedule` | `PipelineIR` | `Schedule` as three kinds of step: index, count, append a layer |
| `Executor` | `PipelineSchedule` | `Execute` and the worker pool, with a goroutine per job |
| `DagRun` | | abstract specification of running a pipeline, implemented by `Executor` |
| `Contributions` | `PipelineIR` | resource requests, contributed jobs and the jobs of the repository's plugins |
| `DependencyGraph` | | `pkg/graph` as operators on a graph record |
| `GraphBuild` | `DependencyGraph` | `BuildFromDependencies` with its map iteration |
| `CycleDetection` | `GraphBuild` | `DetectCycles` as a depth-first search with an explicit stack |
| `GraphViews` | `CycleDetection` | `terraci graph`: DOT, PlantUML, lists, levels, scopes, statistics |
| `GitHistory` | | references, merge bases and diffs of a checkout |
| `TargetSelection` | `DependencyGraph`, `GitHistory` | `PlanProject`: walk, extract, changes, targets |
| `PipelineBuilder` | `Contributions`, `DependencyGraph` | `BuildProjectIR` |
| `CIPipelines` | `PipelineBuilder` | the GitLab and GitHub pipelines made from the IR, and runs of them |
| `LocalRun` | `CIPipelines` | rounds of local-exec in one working copy |
| `DependencyMatching` | | which module a remote state path or a backend key means |
| `DependencyExtraction` | `DependencyMatching` | `ExtractAllDependencies`: two bounded groups of goroutines over a shared parse cache |
| `BlobStore` | | the disk blob store under concurrent calls, I/O errors and crashes |
| `PricingCache` | | look up, single flight, fetch, stale fallback, save, clean |
| `ResourceCatalog` | | what each AWS resource is looked up as and how its price is worked out |
| `CostEstimate` | `PricingCache`, `ResourceCatalog` | the batch of modules and the resolver |
| `PolicyCheck` | | sources, overrides, decisions of the policy plugin |
| `Reports` | `PolicyCheck` | plans, results, reports and their freshness in a workspace |
| `MergeRequest` | `Reports` | pipelines of one merge request posting comment and labels |
| `ReportContents` | `MergeRequest` | what a report says, what makes it invalid and what its reader sees |
| `Startup` | | preparation of a command: registry, configuration, preflight, contributions, CI provider |
| `InitWizard` | `Startup` | `terraci init` from flags or a form |
| `VersionKit`, `UpdatePlan` | | versions and constraints; the solver of tfupdate |
| `DependencyUpdate` | `UpdatePlan` | tfupdate: concurrent planning, writes, lock sync, hashes, failures, cancellation |
| `SequenceLemmas` | | lemmas about numbers, sequences and folds that several proofs cite |
| `ExecutorProofs` | `Executor` | theorems about scheduler and executor, the refinement of `DagRun` |
| `GenerateProofs` | `LocalRun`, `TargetSelection` | theorems about targets, the IR, runs of generated pipelines and local rounds |
| `ExtractionProofs` | `DependencyExtraction` | theorems about both passes |
| `BlobStoreProofs`, `CacheProofs` | `BlobStore`; `CostEstimate` | theorems about the store; about prices handed out |
| `ReviewProofs` | `ReportContents` | theorems about reports, summary, comment and labels |
| `CommandProofs` | `InitWizard`, `DependencyUpdate` | theorems about commands, init and tfupdate |
| `MCExecutor`, `MCCost`, `MCReports` | `Executor`; `CostEstimate`; `ReportContents` | instances for TLC; `BlobStore.cfg` needs no module of its own |
| `MCGenerate` | `LocalRun`, `TargetSelection` | instances of both halves of `terraci generate` |
| `MCDependencies` | `GraphViews`, `DependencyExtraction` | instances of finding dependencies and of the graph made of them |
| `MCCommands` | `InitWizard`, `DependencyUpdate` | instances of the start of commands and of tfupdate |

The last three have a variable `part` that says which of two specifications takes
steps; the other stays in an initial state, so the states are the sum of both.

### Executor

`Execute` is the process `MainStep`, each job's goroutine the process
`Goroutine(n)`.

| Model | Code |
|---|---|
| `ValidateIR`, `CallSchedule`, `ScheduleReturns` | the head of `Execute` |
| `BeginGroup` | one turn of the loop: new errgroup, context, semaphore of `limit` slots, a goroutine for each job |
| `AcquireSlot`, `GiveUp` | the two cases of the `select`; both may be enabled and Go picks either |
| `RunnerReturns` | `runner.Run` returns, the result is recorded under the mutex |
| `ReleaseSlot`, then `ReportToGroup` | the deferred release runs before errgroup learns of the error: another goroutine can start in between |
| `AbortRun`, `FinishRun` | `group.Wait` returned |
| `CallerCancel` | the context given to `Execute` ends |

`recorded`, `groupErr`, `runDone`, `sem` are the code's variables; `pc` is the
place of each goroutine.  Result times, events and the jobs' commands are left
out.  `runner.Run` is external: it returns success or failure after any time.

`DagRun` says what a user is promised without groups or goroutines: a job starts
when its dependencies have succeeded, at most `Parallelism` at a time, each once;
the run ends well exactly when all have succeeded and never while one is running.
`ImplementsDagRun` is the refinement, with the status of a job read off `pc` and
`recorded`.

### Graph, cycles, views

A graph is a record of the code's four maps.  Slices stay sequences because
their order is observable.  Functions of the code are operators here
(`TopologicalSort`, `levelsOf`, `GetAffectedModules`, `Subgraph`,
`ScopeToModule`); what iterates over a Go map in a way that could matter is an
action: `AddModuleDependencies(m)` for the modules of a dependency map in any
order, `StartRoot(m)` for the roots of `DetectCycles`.  The recursion of
`DetectCycles` is a stack of frames, `Descend`, `ReportOrSkip` and `Leave` its
steps.  A view is a value made from the graph; names are sequences of segments of
words, so that what an alias, a label or a heading drops is dropped here too.

### GitHistory, TargetSelection

A checkout is its commits with parents and trees, its references (local, remote,
tags, `origin/HEAD`), its HEAD and whether it is shallow; go-git's look-ups, merge
base and tree diff are modelled from how `plugins/git` uses them.  A repository is
a list of directories (sequences of path elements) with the remote states and
module calls found in each, the filters as the directories they reject, library
paths as they are written in the configuration, a checkout and a request.  `Scan`,
`Extract`, `DetectChanges` and the two resolving actions are the stages of
`PlanProject`, with the code's own walk (hidden directories, directories without
`.tf` files), its way of finding the module of a file (innermost ancestor), cutting
a library path to the first element below its root, falling back when the
libraries select nothing, and looking for targets first among filtered modules and
then among all.  As in the code, only filtered modules are parsed: what libraries
call is in the repository and not in the graph.  HCL expressions and glob matching
are inputs.

### PipelineBuilder, CIPipelines, LocalRun

Stages `PrepareModuleGraph`, `BuildJobs`, `ResolveResources`, `ValidateIR`.
A resource is its reference (kind, module, producer); job names are sequences of
words, so `web/api` and `web-api` clash as they do in the code.

`Generate` renders the IR job by job, with `job_defaults` and `overwrites` applied
in the code's order.  A dependency that an IR job names twice is needed twice, as
`jobNeeds` appends them; `entry` tells such needs apart.  What GitLab and GitHub
then do is external and comes from the meaning of the keywords generated: `needs`,
`optional`, `stage`, `rules`, `when` of a job and of the rule that matches,
artifacts, `resource_group`; `needs`, `if`, `concurrency`, upload and download of
artifacts.  GitLab refuses a need that is there twice; `always` and `on_failure`
start a job after a dependency has failed, `manual` waits for a person who may not
come.  Two pipelines of one branch may run at a time.

`LocalRun` executes the same IR in a working copy that lives on: plan files and
reports of earlier rounds are there when the next begins, applies change what
later plans see, every job may fail or be killed.  The executor itself is module
`Executor`; here a layer is worked off by as many jobs as the profile allows.

### DependencyExtraction

`collectionRunner.run` is called twice, to fill the backend index and to resolve
the remote states of every module.

| Model | Code |
|---|---|
| `Start` | `group.Go`, which blocks while `Limit` goroutines run |
| `Get(m)` | `parsedModuleCache.Get`: only a success is kept, so a module may fail in one pass and load in the other |
| `IndexBackend(m)` | the rest of a goroutine of `backendModuleIndex.Build`; a failure leaves no entry and says nothing |
| `Collect(m)` | the rest of a goroutine of `resultCollector.run`, with the whole `dependencySession` |
| `EndPass` | `group.Wait` |
| `Cancel` | the caller's context ends |

A remote state carries what its key expression evaluates to, once or for each
element of `for_each`; a path that does not evaluate is the value `Unevaluable`.
Paths are sequences of elements, so that the matching rules (trailing elements,
context prefix, submodules) are the code's and only the splitting of strings is
not shown.

### BlobStore, PricingCache, ResourceCatalog, CostEstimate

A call of the store is a record `op[c]`: where it is, its key, and the number of
the Put it performs or has read.  Every system call that other calls or a crash
can observe is a step: `CreateTemp`, `RenameData`, `CreateMetaTemp`, `RenameMeta`,
`RemoveData`, `RemoveMeta`, `ReadData`, `ReadMeta`, `ReadDir`, `VisitFile`.
`FailPut` and `FailDelete` are the error returns with their deferred clean-up.
`Crash` drops calls and mutexes and keeps files.  `last` and `torn` are history
variables: the last write that returned nil, and the keys whose last write ended
between its two commits.

Over it, `PricingCache` takes one call of the store as one step that may fail, and
models what the store is used for: a price table is the time it was fetched, a
process joins or leads the flight of a service and region, the leader's context
serves all, a failed fetch falls back to a stale table, and another process may
save and clean at any time.  `CostEstimate` gives the tables prices, and to every
module of a plan its goroutine, its place in the pool and the look-ups the
resolver makes before and after the change.  `ResourceCatalog` is the cost builder
and the AWS resources written with it.

### Reports, PolicyCheck, MergeRequest, ReportContents

A workspace holds plan, results and report files, each absent, torn or of some
content, whatever an earlier pipeline left.  `RunPlan`, `Produce` and `Compose`
are the jobs of a pipeline; `Produce` is the whole of `PublishArtifacts`, which
may be refused, cut short, killed or fail at either file.  `MergeRequest` goes on
with the composed summary: `ReadComment`, `FindNote`, `UpsertNote`, `RemoveLabels`,
`AddLabels` are requests, each of which may fail with or without its effect;
people edit labels in between.

`ReportContents` is about texts: a text is the sequence of its words.  It models
how cost, policy and tfupdate make a report of their results, the validation that
may refuse it, the plan rows and sections of the summary, and the two renderers.
An address is module, mode, type and name, and key of a resource;
`formatResourceAddress` prints type and name alone for a resource outside modules
and cuts what is longer than `MaxAddress` words (80 characters in the code).

### Startup, InitWizard

A plugin is its factory (how it is switched on, what it can do), a section of the
configuration is what plugins tell apart in it (does it decode, is it valid, does
it switch the plugin on).  `RegisterFactory` is a plugin's `init` function, which
panics on a second registration of a name; `Prepare` is the preparation of a
command, once all have registered, from registry to preflight; `Generate`,
`PluginCommand` and `Look` what commands then ask of the plugins, and `fails` how a
command ends that they refuse.  In the wizard `Answer(k)` sets a field in any
order, groups are shown and hidden by the answers, and `Save` writes what the
plugins make of the state, with the defaults each leaves out; later commands load
it with theirs.

### UpdatePlan, DependencyUpdate

A version is its numbers, a constraint a sequence of terms; what the registry
lists, which providers a module version needs, and which look-ups fail are inputs.
`search` is the code's backtracking, a recursive function on the selections made so
far; `lockSync` merges the constraints of the `.tf` files and of all selected
modules into the lock entry, pinned or not.  `Summed` says for which platforms the
registry has checksums.  `DependencyUpdate` has a goroutine per module
for planning, then the writes to `.tf` files, pinning, and the lock files provider
by provider, with a goroutine per platform hashing packages into a shared cache; the
first failing platform cancels the rest; the run may be cancelled anywhere.

## 3. Runs

| Run | Instance | Shows |
|---|---|---|
| `executor` | three jobs with any relation, four with any acyclic one, repeated and unknown dependencies, a name used twice; two slots; any job may fail; the caller may cancel | layers, outcome, fail-fast, termination, refinement of `DagRun` |
| `dependencies`, graph | three modules with any dependencies, an unknown module included, and in several orders of each list; four with loops among all of them; libraries inside libraries | sort, levels and affected sets are functions of the relation; a cycle is reported iff the sort fails, each one is one, none twice; every view shows its graph |
| `dependencies`, extract | four modules by two goroutines, 180 repositories; loading may fail in either pass, the caller may cancel | every edge has a reason, nothing is lost without an error, a clean result is complete, the order of goroutines does not show |
| `generate`, select | one layout with a module inside a module, a library inside a library, a library calling another, a hidden directory and one without `.tf` files; linear histories with all filters, reads and calls; diverged, merged, crossed, unrelated, shallow and missing histories with nine ways to name the base | selection from below and from above |
| `generate`, build | subgraphs of a five-edge cyclic graph, target sets, three intents, nine sets of plugin jobs; five requests, one with a repeated dependency, rendered under six configurations and run in two pipelines; four requests over two rounds of local-exec | the builder's three properties; the CI system runs the IR; one terraform per module; local rounds |
| `blobs` | two clients, two keys, two Puts, one crash, failing I/O | store properties and termination of calls |
| `cost` | one process with two modules on one table, any plan of five, other processes saving and cleaning, a clock of two ticks; a grid of volumes, databases and cache clusters around the free allowances | current prices, no drift, monotone prices, termination |
| `reports` | two pipelines of one request, the first in a workspace that may hold anything, one fault, one edit of labels; and results of three producers for two modules | summaries, publication, comment, labels, what the reader is told |
| `commands`, startup | two commands of one process over four configurations with one thing wrong each, and what init writes from flags or from a form answered in any order; one write that fails | plugin isolation, preflight, init |
| `commands`, update | two modules, up to two module calls that need the same provider in versions that exclude each other (`rds` asks for an older provider as it gets newer), five kinds of constraint, locked or not, five configurations, two faults or cancellations | files and lock in step, newest versions that fit, whole entries, bump limit |
| `clone`, `library_users`, `image_optional`, `bump_default`, `init_in_step` | the halves above: as `git clone` leaves the histories; where the library that is called by a library is edited; the configurations of init; tfupdate without faults | the five findings, section 6 |

The three runs with two halves reach 132,332 (`generate`), 1,690,796
(`dependencies`) and 661,532 (`commands`) distinct states.

**Bounds.**  Three jobs are the fewest with a layer released inside another's
release, a self-loop beside a cycle, and a diamond's half; four give the diamond
and two jobs that wait for two slots.  `Parallelism = 2` with up to three jobs in
a group has a job that waits and a slot that is handed on.  Four graph nodes are
needed for two cycles that share a node and for a level that differs from the
distance.  The layout of `generate` has every relation the code distinguishes:
file in a module, below it, in a nested module, in a library root, in a library,
below one.  Five commits are the least with two merge bases.  The four modules of
`dependencies` are two of one context, a submodule of one of them and one of another
service, which give every rule of path matching a hit and a miss; two goroutines
leave two modules for `Start` to wait with, and each can be indexed before or after
the other.  Two blob clients are the least that can race; `MaxPuts = 2` makes one
Put overwrite or race another, `MaxCrashes = 1` leaves a state from which everything
runs again.  Two CI pipelines of up to four jobs (`MaxShared`) can each be anywhere
while the other plans or applies; a longer IR runs in one.  `MaxRounds = 2` gives a
round something old to find.  `MaxClock = 2` with a lifetime of 1 lets a table
expire between two look-ups, `Concurrency = 2` makes two modules share a flight.
`MaxFaults` bounds the files and requests that go wrong, 1 where one leaves
everything else to go on from (`reports`; `MaxSaveFaults` of `commands`), 2
for tfupdate, where a failed look-up and a failed write can meet.  Two module calls
are the fewest over which the search backtracks: the newest version of the first is
given up for one that goes with the second.  `MaxPublished = 2` is two producers
whose reports stand side by side, `MaxCommands = 2` one command after another,
`Asked` the fields of the form that differ from their defaults, chosen so that
each hidden group has one.  These bound otherwise unbounded counters; the theorems
hold for all values.  There is no symmetry: instances use fixed names.

`CHECK_DEADLOCK FALSE` stands in the runs of what ends (functions, extraction,
estimates, updates, pipelines, rounds, commands), and of the blob store, where a
state without calls left to make after `MaxPuts` may stop.  The executor is checked
for deadlock: only a returned `Execute` may stand still.

**Fairness.**  `Executor`: weak fairness of `MainStep` and of each goroutine, since
the Go scheduler runs what can run; that `runner.Run` returns is an assumption
about terraform and shell processes.  No fairness on `CallerCancel`.
`CostEstimate`: weak fairness of `Progress(p)`, some step of the process, not one
of each goroutine; a fetch ends because its HTTP client has a timeout
(`awskit/fetcher.go:21`); none on the clock, on cancellation and on other processes.
`BlobStore`: weak fairness of a running call's steps, strong fairness of `Lock`,
because `sync.Mutex` hands the lock to a waiter it has starved for a millisecond.
No client is obliged to call.

## 4. Properties

* `LayersAreTight`: each job is in the layer after the last of its dependencies.
  `ValidPipelinesAreSchedulable`: the depth-first check of `Validate` and the
  in-degrees of `Schedule` agree.
* `OutcomeTellsWhatHappened`: cancellations that follow from a failure never hide
  it, and the result lists what ran.  This needs the runner's error to reach errgroup
  before the context is cancelled by it, which the order *release, report, cancel*
  gives.  `NoGroupAfterFailure`, `ExecuteReturns`, `ImplementsDagRun`.
* `OrdersAreCanonical`, `CyclesAgreeWithSort`, `ViewsAgreeWithGraph`.
* `AffectedSelected`: whatever a diff certainly touches is selected, with its
  dependents and the modules whose own blocks call a library.
  `NothingElseSelected`: nothing filtered out, and nothing the diff could not have
  reached, calls inside libraries included.  The first stops where the code does, at
  what modules call themselves; that the documentation promises more is finding 3
  (`LibraryUsersSelected`).  Both against reference
  definitions on the repository and the history; where commits have several merge
  bases the first speaks of the files that differ from all of them, the second of
  those that differ from one.
* `BuildFailsForAReason`: the builder rejects a request exactly for the faults a
  user can name: cyclic targets, clashing names, a required resource nobody
  produces, two producers, a plan that needs an unplanned module, an unknown job,
  plugins that wait for each other.  The faults are defined from the request
  alone.  `PlanAfterDependencies`: the plan of a module waits for everything the
  module depends on among the targets.  Both except a request in which some other
  job goes by the name of a plan that is not made (`impostor`): a name is all by which
  jobs are told apart, so what needs that plan waits for the other job.
  `PluginsGetWhatTheyAskFor`.
* `CIRunsTheIR`: a generated pipeline is one the CI system takes, unless rules leave out
  a job that another needs, or a dependency is named twice, by a plugin or by two
  modules of one name; in every run a script runs after those it depends on and finds
  its files, except where the user's settings say otherwise (`if: always()`, `when`
  `always` or `on_failure` of the job or of a rule, artifacts of their own).
  `OneTerraformPerModule`: no two terraform processes work on one module, in whichever
  pipelines.  `LocalRoundsAreWhole`: a round applies only what it planned after its
  dependencies were applied, and shows the reports it made.
* `CleanMeansComplete`: the first pass swallows its errors, so a backend that failed
  to load is missing from the index; still an extraction that reports no error
  has every edge, because what the index does not resolve becomes an error.
  `NothingSilentlyDropped` is the accounting behind it, `SameOnEveryRun` the
  independence of both passes from goroutine order, `EdgesAreJustified` the
  absence of invented edges.  Two modules that share a backend key in one
  bucket are excepted: the last one indexed wins.
* `AtRestHoldsLastWrite`, `ListIsExactAtRest`, `EveryCallReturns`: the blob store
  after any mix of races, failures and crashes.
* `PricesAreCurrent`, `NoDriftWithoutChange`, `MoreNeverCostsLess`, `EstimateEnds`.
  The second holds although the table may expire or be cleaned between the look-ups,
  because the engine works with products that are the only match; for several matches see
  section 7.
* `SummaryIsOfItsPlans`: each report of a summary was made from the plans it shows
  or from none, and none that was published is missing.  `ReportsFollowResults`: no
  report stands beside results it does not belong to.  `ReaderIsTold`: what a
  producer found is in its report or the report says that it is not, the status is
  never milder than a finding, and resources are listed in their order, each by the
  beginning of its address or counted among the rest.  A name is not always one
  resource's: see section 7.  `OneComment`, `LabelsFollowComment`:
  the latter only while no request fails, since the comment already records the
  labels that a failed sync did not remove.
* `PluginsSeeOnlyThisConfig`.  `NothingRunsUnchecked`: about commands that skip neither
  configuration nor preflights.  `InitIsUnderstood`: what init wrote is loaded as it
  was answered, and of the commands that start only those fail that have nothing to
  do; the image of GitLab and the bump of tfupdate, which init leaves out, are
  excepted by name and are findings 2 and 4 (`ImageIsOptional`, `BumpHasDefault`).
* `InStepWhenNothingFails`: after `--write` without a fault each provider is locked at a
  version that the `.tf` files and the selected modules accept.  The one exception,
  a provider that is pinned to the version it had while its lock goes back to an older
  one, is finding 5 (`InitWillNotFail`).  `NewestThatFit`: the search is compared with
  all selections; what goes together is the code's notion, in which a provider stays
  within the constraint it has and an ignored one has no version.  `WholeEntries`,
  `LockedWithinBump`: whatever fails.

## 5. Theorems

`ExecutorProofs`, for every finite set of names, every set of pipelines over
them, every integer `Parallelism`, with or without cancellation
(`NamesAssumption`, `IRsAssumption`, `ExecutorAssumption`):

* `TypeCorrect`: `Spec => []TypeOK`
* `DependenciesFirst`: `Spec => []StartedAfterDependencies`
* `NothingLeftBehind`: `Spec => []NoStrayGoroutines`
* `Bounded`: `Spec => []AtMostParallelism`
* `EveryJobOnce`: `Spec => []GroupsPartitionJobs`
* `FailFast`: `Spec => NoGroupAfterFailure`, an action property

`StartedAfterDependencies` is not inductive: that a job's dependencies have succeeded
follows from their being in earlier groups, and those having finished without
error.  The invariant is `TypeOK /\ ScheduleInv /\ RunInv /\ SlotInv`.
`ScheduleInv` follows `Schedule`: `indegree[n]` is the number of n's entries that
are still pending, so a job with none left has all of them in groups already
appended (`EntriesSplit` is the counting lemma).  `RunInv` follows the groups:
those before the current one are gone with success, a goroutine that left without
error has recorded a success, one that left with an error has set `groupErr`,
and `BeginGroup` asks for `groupErr = NoErr`.  `SlotInv` equates `sem` with the
number of goroutines that hold a slot.  There is one lemma per action.

Further, from the same assumptions:

* `Tight`: `Spec => []LayersAreTight`
* `Refinement`: `Spec => ImplementsDagRun`
* `Outcome`: `Spec => []OutcomeTellsWhatHappened`
* `TrueError`: what `Execute` returns is true: nil exactly when every job has
  succeeded, a failure only of a job that has failed, a cancellation only of a
  context that is done (`ErrorIsTrue`)

`LayersAreTight` needs one more fact about `Schedule`: a job still pending waits for a
job of the group appended last, because `indegree` reaches 0 in the turn that takes its
last dependency.  `OutcomeInv` ties every error to its cause: a goroutine that holds a
failure has recorded one for its job, one that gave up has recorded nothing and found
the run's context done, that context is done only by the caller or by `groupErr`, and
`groupErr` comes from a goroutine that is gone, so that a cancellation that follows from
a failure comes after it.  `Outcome` adds to `ErrorIsTrue` what the Result lists: the
jobs recorded, put in the order of the groups, each once because the names of a schedule
are unique (`ResultInv`), so that a job stands behind its dependencies.  For the
refinement a job is *running* from the step that takes a slot to the one in which the
runner returns; each action of `Executor` is then a step of `DagRun` or leaves what it
sees unchanged.  At most `Parallelism` running follows from `SlotInv`, dependencies
first from `ScheduleInv` and `RunInv`, a true end from `OutcomeInv`.

`ExtractionProofs`, for any finite set of modules with paths at least as long as the
structure pattern (`MatchingAssumption`), any repositories over them, any limit, with
or without failing I/O and cancellation (`ExtractionAssumption`):

* `TypeCorrect`: `Spec => []TypeOK`, which contains the limit
* `EdgesHaveReasons`: `Spec => []EdgesAreJustified`
* `NothingIsLost`: `Spec => []NothingSilentlyDropped`
* `CleanIsComplete`: `Spec => []CleanMeansComplete`
* `Deterministic`: `Spec => []SameOnEveryRun`

An index with missing entries is never wrong: its keys lead to modules whose
files declare them (`Honest`).  `ResultInv` says that a result was computed from
some honest index and that its errors are recorded, which stays true although
`items` may differ later; `AccountInv` that whoever was started is running, has a
result or has an error.  A path resolved by an honest index is resolved the same
way by the complete one when keys are distinct, and one it does not resolve is
an error.  `SteadyInv` is for the runs in which nothing fails: then every module
started in the first pass is in the index or still running (`PassInv`), so `EndPass`
leaves the complete index, and the results and errors of the second pass are those
the complete index gives (`FullInv`).

`BlobStoreProofs`, for any clients, keys and bounds, with or without I/O errors
(`BlobStoreAssumption`):

* `TypeCorrect`: `Spec => []TypeOK`, which contains mutual exclusion
* `LastWriteHolds`: `Spec => []AtRestHoldsLastWrite`
* `ListIsExact`: `Spec => []ListIsExactAtRest`

The invariant adds what a call between its commits has done (`HalfwayInv`: a Put
past its first rename has its data in place), that a key with no such call and
not torn holds its last write (`SettledInv`), and that before a crash every temp
file has an owner (`TempInv`).  `Exclusion` is where the mutex is used: a
rename by one call leaves what another has half done untouched because their keys
differ.

`GenerateProofs`, about the targets, for any repositories, histories, filters and
requests whose walk gives each directory once, below the root and with its parents
(`WalkAssumption`: `filepath.WalkDir` does; `SelectionSpec`):

* `OnlyRunnable`: no target is filtered out or lies under a library root
* `Everything`: without a diff the targets are exactly the runnable modules the
  request names
* `Owners`: with a diff and no module path, a runnable module that holds a changed
  Terraform file is a target

These are the parts of `AffectedSelected` and `NothingElseSelected` that do not go
through the graph.  The argument for `Owners` is that ancestors of one file with
paths of one length are one directory, so the innermost owner the code searches
for is the module the file is in.

`GenerateProofs`, about the IR and what is made of it, for any projects, plugin jobs,
numbers of pipelines and configurations whose types are those of the code
(`BuildsAssumption`, `LocalBuildsAssumption`, `ConfigsAssumption`; for local rounds also
`LocalJobsAssumption`, a plugin's job reads every plan or none, and
`LocalRequestsAssumption`); `LocalSpec` is what the `generate` run checks in its second
half:

* `PluginsAreServed`: `LocalSpec => []PluginsGetWhatTheyAskFor`
* `PlansAreOrdered`: `LocalSpec => []PlanAfterDependencies`
* `RunsTheIR`: `LocalSpec => []CIRunsTheIR`
* `Ordered`: `LocalSpec => []AfterDependencies`, a conjunct of `CIRunsTheIR`, with the
  exceptions of section 4: a job the user has set to run anyway, by `if: always()` or
  by a `when` of the job or of one of its rules
* `OneTerraform`: `LocalSpec => []OneTerraformPerModule`
* `OneAtATime`: no two jobs of a module run at once, in whichever pipelines
  (`OneJobPerModule`, a conjunct of `OneTerraformPerModule`)
* `LocalRounds`: `LocalSpec => []LocalRoundsAreWhole`, for any number of rounds

`BuildInv` follows the builder.  From `BuildJobs` on, the terraform jobs of the IR are
exactly those the builder makes of the targets, with the dependencies of the subgraph
(`TerraformJobs`, which rests on Kahn's algorithm returning every node of a graph it
accepts: `SortedModules`); every job has one input for each artifact, from a
job it depends on, and the artifacts are those of the producers (`InputsInv`);
once the requests are resolved each contributed job takes what answers its requests,
and its inputs are optional only where they may be (`Answered`).  `ResolutionOf` and
`InputsOf` are what the resolver makes of requests and resources, whatever their order
and however often one is named.

`CIInv` says that a document is the image of a valid IR job by job (`DocInv`: its
needs are the dependencies and inputs whatever defaults and overwrites apply, in either
back end), that a queued job's dependencies have succeeded already and a job that
succeeded has left its files (`RunInv`, needed because the CI system looks at the
dependencies when it queues a job and at the files when it starts it), and that running
jobs differ in their group (`AloneInv`).  `RunsTheIR` needs both: GitLab refuses a job
that needs one of a later stage, and the stages, computed in rounds until none
changes, follow the dependencies only because the dependencies of a job are jobs of
the IR (`StagesFollowEdges`), and it refuses a job that needs one twice, which a job does
only if its dependencies are not distinct (`AcceptedUnlessRules` names the two ways to
that); a script finds its files because a job has one input per artifact.

`OneTerraform` and `PlansAreOrdered` speak of modules that depend on one another through
any number of modules, the builder of direct dependencies only.  The transitive closure
is least (`ClosureIsLeast`, for any finite set): a relation that has the edges and is
transitive contains it.  The relation is, for the first, "if e[1] is being planned or
applied, e[2] has been applied", which is transitive because a module that has been
applied has been at work; for the second, "the plan of e[1] waits for the last job
of e[2]".

`LocalRounds` has an invariant of its own over the same two (`LocalInv`).  A job that has
begun finds the terraform jobs it waits for successful (`TerraformFirst`); a plan that
has succeeded is on disk as this round made it, and the state it saw of everything its
module depends on is still the state there is (`PlansHold`); a report of this round was
made when every plan was (`ReportsHold`), which is why a job that reads one plan has to
read them all.  Local execution starts jobs layer by layer and never looks at
dependencies, so `TerraformFirst` is a fact about layers: what depends on a terraform
job is in a strictly later layer (`StagesAfterTerraform`).  The layers are computed in
as many rounds as there are jobs, and each terraform job is final by the round
of its place in the order of modules (`StagesStrict`, `height`); that rank exists
because Kahn's algorithm puts a module behind all it depends on: a counter is never
less than the number of dependencies still open (`KahnCounts`).  That what is being
applied changes nothing under a plan that exists is the closure argument again
(`AppliedBefore`).

`CacheProofs`, for any number of modules, services, clock, lifetime, other
processes:

* `Prices`: `Spec => []PricesAreCurrent`

`PricesAreCurrent` speaks of the tables a process was given.  The invariant carries
it back to where they come from: `TablesAreCurrent` (a flight that saves holds a
table fetched since the process began, one that falls back has had its fetch refused,
an answered caller has one of these or a table that was fresh when it was read) and
`CleanedFirst` (nobody asks before the clean-up is over, so `since` does not move
under a caller).  What the store holds is not in it: other processes may do as they
like.  The proof failed for a lifetime of 0, for which the property had said that a
table of the very tick the process began in is expired; it now allows it.

`ReviewProofs`, for any modules, producers, pipelines, labels and bounds
(`ReportsAssumption`; `OwnLabelsAssumption`: the labels TerraCI makes are not among
those people use):

* `Summaries`: `ReportsSpec => []SummaryIsOfItsPlans`
* `Publications`: `ReportsSpec => []ReportsFollowResults`
* `Comments`: `ReportsSpec => []OneComment`
* `Labels`: `ReportsSpec => []LabelsFollowComment`

`FilesInv` says what a producer that reported no error has left as long as its plans
stand (`TellsTruth`), and what a summary composed after all of them shows
(`ShowsTruth`), whatever the workspace held at first.  `PostInv` follows a pipeline
along its requests: a pipeline about to write a comment knows of the only one there
is, or knows that there is none, and is the only one posting (`Alone`); and at each
request the labels are those before, less those already removed (`Way`,
`LabelsOnTheWay`).  `ReadComment` is where overlap breaks it, hence the hypothesis in
the properties.

`CommandProofs`, about commands and init, for any factories in any order of
registration, configurations, environments, requests and number of commands
(`FactoriesAssumption`, `ConfigFileAssumption`; `ContributorsAssumption`: which plugins
take part in init and how each is switched on; `AppSpec`):

* `OwnConfig`: `AppSpec => []PluginsSeeOnlyThisConfig`
* `Checked`: `AppSpec => []NothingRunsUnchecked`
* `Understood`: `AppSpec => []InitIsUnderstood`

`AppInv`: the catalog has the factories registered so far, each under its own name
(`CatalogInv`); the instances are those the present command decoded from its own
configuration, and a command only runs when they were accepted (`CommandInv`); until
someone edits it the file is what `init` made of its answers (`FileInv`), and a command
that loads it runs with that or fails for a reason of its own (`LoadInv`).  What is
left for `Understood` is that each section `init` writes is one the plugin's decoder
and preflight accept, plugin by plugin, with the missing image of section 6 excepted,
and that a command that starts fails only for what was declined, or for the bump that
is missing.

`CommandProofs`, about tfupdate, for any registries, modules, lock files, bumps and
bounds, whatever fails or is cancelled (`RegistryAssumption`, `DisksAssumption`,
`ConfigsAssumption`; `Spec` of `DependencyUpdate`):

* `LockEntriesAreWhole`: `Spec => []WholeEntries`
* `LocksStayWithinBump`: `Spec => []LockedWithinBump`

What reaches a lock file has come a long way: a goroutine reads a module's files, makes
plans of them, searches a selection, derives what is to be locked from it, the main
process collects that into `todo` and pins it, and a provider at a time is hashed and
written.  `PlanOk` and `SyncOk` carry the bound along that way (`WorkerInv`, `TodoInv`);
`StageInv` says that nothing is written while plans are made, so that what a goroutine
has read is still there, and that the hashes being gathered are those of the provider
about to be locked.  The search enters by one fact only: the providers of a
solution are solved (`FoundFor`).

**Assumptions.**  Every `ASSUME` above is evaluated by TLC in a run on the instance
checked there.  They speak of the types of inputs and of what a walk, a registry or a
configuration is; none is about what the code proved about does.  `BuildsAssumption`
says that targets are nodes of the graph and that requests, contributed jobs and intents
are values of their types.  `LocalJobsAssumption` speaks of the plugins of the repository:
a plugin elsewhere whose job read the plans of some modules only could leave a report that a
later plan of the same round makes stale.

**Model-checked only**, and why:

* liveness (`ExecuteReturns`, `EveryCallReturns`, `EstimateEnds`): outside of what the
  prover does;
* what a depth-first search, a backtracking search or an arithmetic fold computes
  for every input, against a definition of its result that is not recursive:
  induction over data.  These are `ValidPipelinesAreSchedulable` and
  `BuildFailsForAReason` (the search for a cycle in `Validate`), `OrdersAreCanonical`,
  `CyclesAgreeWithSort`, `ViewsAgreeWithGraph`, `NewestThatFit`, the closures in
  `AffectedSelected` and `NothingElseSelected`, `NoDriftWithoutChange`,
  `MoreNeverCostsLess`;
* `InStepWhenNothingFails` and `ReaderIsTold`: no obstacle of principle, but the first
  needs what each rewriting of a constraint does to every version it accepts,
  and the renderers in the second are written with operators from the community
  modules (`SelectSeq`, `FoldLeft` with an operator argument) the provers see into
  only through one lemma for each use.

## 6. Findings

1. `clone`: `HEAD` is looked up like any other name, as a branch and then as a branch
   of origin.  In a clone, which has `refs/remotes/origin/HEAD`, the diff therefore
   starts at the tip of the default branch instead of the point where HEAD has left it
   (`plugins/git/internal/gitclient/client.go:106`, against
   `docs/guide/git-integration.md:26`).  The `generate` run uses checkouts as CI
   runners make them, without that reference.
2. `image_optional`: `terraci init` for GitLab leaves the image out when it is the one
   the wizard proposes, or when flags are all it is given, and the plugin's preflight
   dereferences the image (`plugins/gitlab/internal/config/validate.go:37`, against
   `docs/config/gitlab.md:23`): the next `terraci generate` panics.  The images the
   generator would choose instead are therefore never used.  `InitIsUnderstood` excepts
   this case.
3. `library_users`: only filtered modules are parsed
   (`pkg/workflow/module_workflow.go:119`), so what a library calls is unknown, and a
   change in a library does not select the modules that use it through another one
   (against `docs/config/filters.md:343`).
4. `bump_default`: the wizard leaves out tfupdate's bump when it is `minor`
   (`plugins/tfupdate/init_wizard.go:114`), the plugin's default configuration has none
   (`internal/config.go:94-110`), and `terraci tfupdate` refuses a configuration without
   one (`config.go:156-158`, against `docs/cli/tfupdate.md:149`).
5. `init_in_step`: a provider whose selected version is older than its locked one is "up
   to date" (`plugins/tfupdate/internal/planner/materialize.go:101-108`): pinning writes
   the locked version (`apply_pinning.go:14`) while the lock goes to the selected one.
   In the trace aws is locked at 5.1.0 and a newer `rds` needs `~> 5.0.0`: `.tf` says
   5.1.0 and the lock 5.0.0, which `terraform init` refuses (against
   `docs/config/tfupdate.md:249`).

## 7. Read in the code while modelling it

Where code and documentation part, or a limit of the code that a reader of the
properties should know, beyond the findings.  None of these has a run of its own.

**Selection and graph.**  A dependency on or through a module that filters exclude is
unknown (`pkg/workflow/module_workflow.go:119`).  A pipeline for affected
modules loses the order of two of them when the module between is not affected
(`pkg/graph/dependency.go:216`; `docs/guide/git-integration.md:63`).  `HEAD~n` past
the root resolves to the root, so a repository of one commit has an empty diff; a
stale local `main` is preferred to `origin/main`; short hashes do not resolve; edits
that are not committed are never looked at (`GetUncommittedChanges` has no caller).
`DetectCycles` skips an edge to a node it has left, so of two cycles that share one
it may list only the first (`pkg/graph/algorithms.go:107`, against the comment at
line 89).  PlantUML aliases join what differs in `/`, `-`, `.`, `_` only; DOT and
PlantUML edges come in Go map order; the list names dependencies without service
and environment; library edges point from library to consumer, module edges from
dependent to dependency.

**Extraction.**  A remote state whose key two modules use in different buckets
resolves by path, whatever its bucket (`pkg/parser/internal/dependency/session.go:161`,
against `docs/guide/dependencies.md:174`); a path that matches nothing is not
resolved by the remote state's name (`session.go:122`, against line 179 there); an
element of `for_each` that does not evaluate is skipped without a warning
(`resolve/foreach.go:35`, against `docs/cli/validate.md:151`).

**Blob store and prices.**  `Get` beside `Put` or `Delete` of its key may fail or mix
two writes (`plugins/diskblob/internal/fsstore/store.go:128`, against
`pkg/cache/blobcache/store.go:14-16`).  A temp file left by a killed process makes
`List`, and with it `CleanExpired`, fail from then on (`fsstore/store.go:252` and `:232`).
`CleanExpired` deletes what its listing called expired though a Put may have made it
fresh.  Of several products that match, the first in Go map order is taken
(`pricing/fetcher.go:7`), and of several price dimensions any one (`fetcher.go:135`).
Sub-resources get no cost before the change (`runtime/resolver.go:265`, against
`docs/config/cost.md:61`).  Fallback rates are not reached, since a missing product
fails first (`resolver.go:326`), and charges are dropped when the base rate is 0
(`cost_builder.go:175`).

**Pipelines.**  `if: always()`, and `when: always` or `on_failure` of a job or a rule,
run a job whatever its dependencies did.  A plugin that names a dependency twice is let
through by the builder and `Validate` (`pkg/pipeline/contribution.go:204-208`), and the
GitLab back end makes two needs of it
(`plugins/gitlab/internal/generate/job_builder.go:134-147`), a pipeline GitLab refuses.
Artifacts set in `job_defaults` or `overwrites` replace those of the plan; a command job
named `plan` or `apply` takes the overwrites of that type.  GitHub's concurrency group
cancels older pending jobs of other pipelines.

**Local execution.**  `Result.Failed` returns the first failed job in schedule order, so a
sibling killed by the cancellation may be blamed (`pkg/execution/results.go:164`); after a
failure the promised summary (`commands.go:46`) is not printed; two rounds at once in
one working copy share plan files without a lock; a plan without a JSON consumer
leaves an older `plan.json` beside the new binary plan.

**Policy.**  Whether the policy job may fail without failing the pipeline is decided from
the top-level decisions, whether it does fail from those after overrides
(`plugins/policy/internal/config.go:230`): with `deny: warn` and an override
`deny: block` the pipeline is told to ignore the failure (against
`docs/config/policy.md:98`).

**Reports.**  A policy message without words makes the whole report invalid.  A plan of
imports alone shows "No changes", since no-op imports are not counted.  Outside modules
the instances that `count` or `for_each` make of a resource are listed under one name, a
data source reads like a resource of its type and name, and long addresses that begin
alike read alike (`internal/terraform/plan/format.go:142-151`).  Two pipelines that post
at once may create two comments (`plugins/gitlab/internal/mr/service.go:59`), and labels
whose removal failed are not tried again, since the comment no longer lists them
(`plugins/summary/internal/summaryengine/posting.go:58`).  A report of `policy check
--module` carries the fingerprint of all plans.

**Start-up and wizard.**  The image the wizard proposes is terraform's even when tofu
was chosen (`plugins/gitlab/init_wizard.go:87-95`).  Commands that skip preflights run
with what a preflight would have refused; `NothingRunsUnchecked` is about the others.
`init --force` cannot replace a configuration that does not load, because init
itself loads it first (against `docs/cli/init.md:25`).  An unknown `--provider` or
extension is accepted.

**tfupdate.**  An error writing a `.tf` file is overwritten with "applied" when the lock
sync that follows succeeds, and the command exits with zero
(`plugins/tfupdate/internal/apply_lock_sync.go:64`, against `docs/cli/tfupdate.md:25`); a
cancellation after the last `.tf` write leaves the lock files old, silently (lines
22-24, against `docs/config/tfupdate.md:259`); errors of lock-only providers are lost, and
those of pinning only logged.  A provider never leaves the constraint it has, which the
selected version has to satisfy too (`planner/compatibility.go:97-111`): `~> 5.0` is
bumped to `~> 5.82` but not to `~> 6.0`, nor `~> 5.0.1` to `~> 5.1.3`, whatever the bump
(against `docs/cli/tfupdate.md:150` and `:165`).  One provider that is ignored or
does not answer makes its whole module incompatible, so that nothing is updated there
(against `docs/config/tfupdate.md:82`).  A constraint of several terms loses its upper
bound when it is bumped.  `baseErrors` is counted by
several goroutines without a lock (`usecase/service.go:104`).

## 8. What is left

Next, in this order: `InStepWhenNothingFails` as a theorem; torn reads as an abstract
register that `Get` would have to implement; expiry of `CleanExpired` against a
concurrent Put with the store's own steps.

Not modelled, and not planned: evaluation of HCL expressions and of Rego
policies, glob matching, the terraform and git processes and the registry client,
the syntax of YAML, HCL and Markdown, parsers of price lists and of resource
attributes, symbolic links, images, caches, secrets and id tokens of CI jobs, shell
completion, man pages and the schema command, path cleaning, diagnostics and error
types, and the `xterraci` build.  They are pure functions of large inputs, belong to
other programs, or keep no state that anything depends on.
