------------------------------- MODULE LocalRun -------------------------------
(***************************************************************************)
(* terraci local-exec: the IR is executed in the working copy itself, one  *)
(* layer of jobs after another, and the reports it leaves are shown.  A    *)
(* working copy lives on: the plan files and reports of earlier rounds are *)
(* there when the next one starts, and every job may fail or be killed     *)
(* anywhere.  (The executor itself is module Executor; here a layer is     *)
(* worked off by as many jobs at a time as the profile allows.)            *)
(***************************************************************************)
EXTENDS CIPipelines

CONSTANTS
  LocalBuilds,        \* what consecutive rounds may be asked to build
  LocalRequests,      \* [mode, parallelism] from the command line
  ExecutionConfigs,   \* [binary, init, parallelism] of the configuration
  MaxRounds           \* bound on the rounds in one working copy

VARIABLES
  round,     \* the number of rounds begun, 0 before the first
  local,     \* "idle", "running", "failed", "skipped" or "completed"
  profile,   \* terraformrun.Profile, or NoProfile
  job,       \* per job: "waiting", "running", "success" or "failed"
  saw,       \* per module: infra when its plan was last begun
  disk,      \* per plan file: when it was written and saw by then
  infra,     \* per module: how often it was applied
  report,    \* per producer: the report file, in a set that is empty without one
  shown      \* the reports of the summary

localVars == <<round, local, profile, job, saw, disk, infra, report, shown>>

ASSUME LocalBuildsAssumption == LocalBuilds \subseteq Builds

\* A job of a plugin reads every plan or none (plugins/*/pipeline.go).
ASSUME LocalJobsAssumption ==
  \A b \in LocalBuilds : \A c \in ToSet(b.jobs) :
    c.consumes = <<>> \/ AllPlanResources("plan_json") \in ToSet(c.consumes)

\* mapExecuteRequest refuses every other mode.
ASSUME LocalRequestsAssumption == \A request \in LocalRequests : request.mode \in {"run", "plan"}

NoProfile == [binary |-> "none", initEnabled |-> FALSE, parallelism |-> 0]
DefaultParallelism == 4
AllModules == build.G.nodes

-----------------------------------------------------------------------------
(* Request and profile *)

ParseBinary(raw) == CASE raw = "" -> "terraform" [] raw \in {"terraform", "tofu"} -> raw [] OTHER -> "error"

\* NewProfile, in a set that is empty on an error.
NewProfile(c) ==
  {p \in {[binary |-> ParseBinary(c.binary), initEnabled |-> c.init,
           parallelism |-> IF c.parallelism = 0 THEN DefaultParallelism ELSE c.parallelism]} :
     p.binary # "error" /\ p.parallelism > 0}

WithParallelism(p, n) == IF n <= 0 THEN p ELSE [p EXCEPT !.parallelism = n]

profileForRequest(c, request) == {WithParallelism(p, request.parallelism) : p \in NewProfile(c)}

\* mapExecuteRequest and NormalizeRequest know these two modes.
intentForMode(mode) ==
  CASE mode = "run"  -> newBuildIntent(TRUE, <<>>)
    [] mode = "plan" -> newBuildIntent(FALSE, <<AllPlanResources("plan_binary")>>)

\* UseCase.Run up to the execution: the IR was built by the actions of
\* PipelineBuilder, and whatever stops it stops the run.
Begin ==
  /\ stage \in {"done", "failed"} /\ config = NoConfig
  /\ local = "idle" /\ round < MaxRounds
  /\ build \in LocalBuilds
  /\ \E request \in LocalRequests, c \in ExecutionConfigs :
       /\ intentForMode(request.mode) = newBuildIntent(build.apply, build.required)
       /\ LET ps == profileForRequest(c, request)
          IN  /\ local' = IF build.targets = {} THEN "skipped"
                          ELSE IF ps = {} \/ stage = "failed" THEN "failed" ELSE "running"
              /\ profile' = IF local' = "running" THEN CHOOSE p \in ps : TRUE ELSE NoProfile
              /\ job' = IF local' = "running" THEN [n \in JobNames(ir) |-> "waiting"] ELSE Nothing
  /\ round' = round + 1
  /\ shown' = {}
  /\ UNCHANGED <<vars, ciVars, saw, disk, infra, report>>

-----------------------------------------------------------------------------
(* Jobs *)

runningJobs == {n \in DOMAIN job : job[n] = "running"}
failing == \E n \in DOMAIN job : job[n] = "failed"
layer == Min({stages(ir)[n] : n \in {k \in DOMAIN job : job[k] \in {"waiting", "running"}}})

\* A job starts; terraform plan reads the state of what the module depends on.
jobStarted(n) ==
  /\ local = "running" /\ job[n] = "waiting" /\ ~failing
  /\ Cardinality(runningJobs) < profile.parallelism
  /\ job' = [job EXCEPT ![n] = "running"]
  /\ LET j == FindJob(ir, n)
     IN  saw' = IF j.kind = "plan" THEN [saw EXCEPT ![j.module] = infra] ELSE saw
  /\ UNCHANGED <<vars, ciVars, round, local, profile, disk, infra, report, shown>>

\* Mutant: a layer is not waited for.
StartAnyJob(n) == jobStarted(n)

\* Execute: the jobs of a layer, when those of the layers before have ended.
StartJob(n) == jobStarted(n) /\ stages(ir)[n] = layer

DetailedPlan(j) == Len(j.produces) > 1

\* RunPlan ends well, or after any of its writes: the binary (written by
\* terraform), then plan.txt and plan.json, both when either was asked for.
planFiles(j) ==
  <<"plan_binary">> \o IF DetailedPlan(j) THEN <<"plan_text", "plan_json">> ELSE <<>>

RunPlan(n) ==
  LET j == FindJob(ir, n)
      files == planFiles(j)
      version == [round |-> round, saw |-> saw[j.module]]
  IN  /\ j.kind = "plan"
      /\ \E written \in 0..Len(files), result \in {"success", "failed"} :
           /\ result = "success" => written = Len(files)
           /\ disk' = [ref \in DOMAIN disk |->
                 IF \E k \in 1..written : ref = PlanResource(files[k], j.module) THEN version ELSE disk[ref]]
           /\ job' = [job EXCEPT ![n] = result]
      /\ UNCHANGED <<infra, report>>

\* RunApply applies the plan file; terraform refuses one that is not of the
\* state it finds, or is not there.  A failed apply may have changed something.
RunApply(n) ==
  LET j == FindJob(ir, n)
      plan == disk[PlanResource("plan_binary", j.module)]
      stale == plan.round = 0 \/ plan.saw[j.module] # infra[j.module]
  IN  /\ j.kind = "apply"
      /\ \/ ~stale /\ job' = [job EXCEPT ![n] = "success"] /\ infra' = [infra EXCEPT ![j.module] = @ + 1]
         \/ job' = [job EXCEPT ![n] = "failed"] /\ infra' \in {infra, [infra EXCEPT ![j.module] = @ + 1]}
      /\ UNCHANGED <<disk, report>>

\* The plan.json files a plugin's command finds; the fingerprint in its report.
scanned == [m \in {x \in AllModules : disk[PlanResource("plan_json", x)].round > 0} |->
              disk[PlanResource("plan_json", m)]]

producersIn(j) == {r.producer : r \in {x \in ToSet(j.produces) : x.kind = "plugin_report"}}

\* A plugin's command publishes a report made from the plans it found, or
\* fails before or after that; commandRunner.Run makes a failure a success
\* when the job may fail.
RunCommands(n) ==
  LET j == FindJob(ir, n)
  IN  /\ j.kind = "command"
      /\ \E works, published \in BOOLEAN :
           /\ works => published
           /\ job' = [job EXCEPT ![n] = IF works \/ j.allow THEN "success" ELSE "failed"]
           /\ report' = [p \in DOMAIN report |->
                IF published /\ p \in producersIn(j)
                  THEN {[producer |-> p, round |-> round, of |-> IF j.consumes = <<>> THEN {} ELSE {scanned}]}
                  ELSE report[p]]
      /\ UNCHANGED <<disk, infra>>

\* operationDispatcher.Run
EndJob(n) ==
  /\ job[n] = "running"
  /\ RunPlan(n) \/ RunApply(n) \/ RunCommands(n)
  /\ UNCHANGED <<vars, ciVars, round, local, profile, saw, shown>>

-----------------------------------------------------------------------------
(* The end of a round *)

SelectCurrentReports ==
  {r \in UNION {report[p] : p \in DOMAIN report} : r.of \in {{}, {scanned}}}

\* Execute returns an error when a job failed; otherwise storeLoader.Load and
\* Completed show what there is.
EndRound ==
  /\ local = "running" /\ runningJobs = {}
  /\ \/ /\ failing
        /\ local' = "failed" /\ UNCHANGED shown
     \/ /\ \A n \in DOMAIN job : job[n] = "success"
        /\ local' = "completed" /\ shown' = SelectCurrentReports
  /\ UNCHANGED <<vars, ciVars, round, profile, job, saw, disk, infra, report>>

\* The user comes back, after a kill too (whatever ran then has failed), and
\* asks for something else.
NextRound ==
  /\ local # "idle" /\ runningJobs = {} /\ round < MaxRounds
  /\ local' = "idle" /\ job' = Nothing /\ profile' = NoProfile /\ shown' = {}
  /\ build' \in LocalBuilds /\ build'.G.nodes = AllModules
  /\ stage' = "prepare" /\ subgraph' = NewDependencyGraph /\ ir' = <<>>
  /\ UNCHANGED <<ciVars, round, saw, disk, infra, report>>

LocalInit ==
  /\ CIInit
  /\ round = 0 /\ local = "idle" /\ profile = NoProfile /\ job = Nothing
  /\ infra = [m \in AllModules |-> 0]
  /\ saw = [m \in AllModules |-> infra]
  /\ disk = [ref \in [kind : PlanKinds, module : AllModules, producer : {NoProducer}] |-> [round |-> 0, saw |-> infra]]
  /\ report = [p \in {"cost", "policy", "tfupdate"} |-> {}]
  /\ shown = {}

LocalNext ==
  \/ CINext /\ local = "idle" /\ UNCHANGED localVars
  \/ Begin
  \/ \E n \in DOMAIN job : StartJob(n) \/ EndJob(n)
  \/ EndRound
  \/ NextRound

LocalSpec == LocalInit /\ [][LocalNext]_<<vars, ciVars, localVars>>

-----------------------------------------------------------------------------
(* Properties *)

dependenciesOf(m) == {e[2] : e \in {x \in closure(build.targets, targetEdges) : x[1] = m}}

\* Whatever earlier rounds left in the working copy, what is applied was
\* planned in this round, after everything the module depends on had been
\* applied for the last time (usecase.go:168-220, terraform.go:27-82); and a
\* round that ends well shows the report of every job that published one in
\* it (loader.go:59-84): nothing it runs makes a report of its own stale.
LocalRoundsAreWhole ==
  /\ \A n \in runningJobs : FindJob(ir, n).kind = "apply" =>
       LET m == FindJob(ir, n).module
           plan == disk[PlanResource("plan_binary", m)]
       IN  plan.round = round /\ \A d \in dependenciesOf(m) : plan.saw[d] = infra[d]
  /\ local = "completed" =>
       \A p \in DOMAIN report : \A r \in report[p] : r.round = round => r \in shown
=============================================================================
