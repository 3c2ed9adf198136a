----------------------------- MODULE CIPipelines -----------------------------
(***************************************************************************)
(* What becomes of an IR in a CI system: the GitLab pipeline or GitHub     *)
(* workflow that plugins/gitlab and plugins/github generate, and the runs  *)
(* of it.  The CI systems themselves are external: what is modelled is     *)
(* what the generated keywords (needs, stage, rules, artifacts, if,        *)
(* resource_group, concurrency) make them do.                              *)
(*                                                                         *)
(* A configuration is a record [backend, defaults, overwrites]; defaults   *)
(* and each overwrite are job settings                                     *)
(*   artifacts   GitLab: the paths configured instead, or Unset            *)
(*   rules       GitLab: "", or what the rules come to for the job:        *)
(*               "no_match", "match", or the when of the rule that matches *)
(*   when        GitLab: "" or when the job runs                           *)
(*   ifExpr      GitHub: "" or "always()"                                  *)
(* with, for an overwrite, the type of the jobs it is for.                 *)
(***************************************************************************)
EXTENDS PipelineBuilder

CONSTANTS
  Pipelines,    \* pipelines of one branch, any of which may be running
  Configs,      \* configurations of extensions.gitlab and extensions.github
  Executed,     \* the requests to build whose pipelines are run
  MaxShared     \* bound: with more jobs than this, one pipeline only

VARIABLES
  config,       \* the configuration the generator was bound to, or NoConfig
  doc,          \* the generated jobs, per name; nothing before Generate
  status,       \* per pipeline and job
  stored,       \* per pipeline and job, the paths in the artifact it uploaded
  restored      \* per pipeline and job, the paths restored when it started

ciVars == <<config, doc, status, stored, restored>>

Unset == {NoArtifact}
Nothing == <<>>
NoConfig == [backend |-> ""]

\* With these a job runs although one that it needs has failed.
RunsAnyway == {"always", "on_failure"}
Whens == {"on_success", "manual", "delayed"} \cup RunsAnyway

\* A GitHub workflow has neither rules nor when; never is for rules only.
ASSUME ConfigsAssumption ==
  \A c \in Configs :
    /\ c.backend \in {"gitlab", "github"}
    /\ c.overwrites \in Seq(ToSet(c.overwrites))
    /\ \A x \in {c.defaults} \cup ToSet(c.overwrites) :
         /\ x.rules \in {"", "match", "no_match", "never"} \cup Whens
         /\ x.when \in {""} \cup Whens
         /\ c.backend = "github" => x.rules = "" /\ x.when = ""

-----------------------------------------------------------------------------
(* Generators *)

jobOverwriteType(job) == IF job.kind = "command" THEN job.name ELSE <<job.kind>>

\* applyJobConfig: what is set replaces what was; here in the order of settings.
applyJobConfig(job, settings, field, unset) ==
  LET given == {i \in DOMAIN settings : settings[i][field] # unset}
  IN  IF given = {} THEN job[field] ELSE settings[Max(given)][field]

\* applyResolvedJobConfig: the defaults, then every overwrite of the job's type.
applyResolvedJobConfig(job, type, cfg) ==
  LET setting(i) == IF i = 0 THEN cfg.defaults ELSE cfg.overwrites[i]
      settings == [i \in {k \in 0..Len(cfg.overwrites) : k = 0 \/ setting(k).type = type} |-> setting(i)]
  IN  [job EXCEPT !.artifacts = applyJobConfig(job, settings, "artifacts", Unset),
                  !.rules = applyJobConfig(job, settings, "rules", ""),
                  !.when = applyJobConfig(job, settings, "when", ""),
                  !.ifExpr = applyJobConfig(job, settings, "ifExpr", "")]

\* Mutant: the inputs of a job are left out of its needs.
jobNeedsControlOnly(job) ==
  {[job |-> job.deps[k], entry |-> k, artifacts |-> FALSE, optional |-> FALSE] : k \in DOMAIN job.deps}

\* jobNeeds: a job waits for what it depends on, and takes the artifact of a
\* dependency it has an input from.  A dependency that is there twice is
\* needed twice; entry tells the needs apart.
jobNeeds(job) ==
  LET inputs == {i \in ToSet(job.inputs) : Configured(i.artifact)}
      from(d) == {i \in inputs : i.producer = d}
      need(d, k) == [job |-> d, entry |-> k, artifacts |-> from(d) # {}, optional |-> \E i \in from(d) : i.optional]
  IN  {need(job.deps[k], k) : k \in DOMAIN job.deps}
        \cup {need(i.producer, 0) : i \in {x \in inputs : x.producer \notin ToSet(job.deps)}}

\* stagePlanner.plan: a stage per group of Schedule, which is the layer of the
\* longest chain of dependencies (PipelineSchedule).
stages(ir1) ==
  LET deeper(acc, round) ==
        [n \in JobNames(ir1) |-> LET d == ToSet(FindJob(ir1, n).deps)
                                 IN  IF d = {} THEN 0 ELSE 1 + Max({acc[x] : x \in d})]
  IN  FoldLeft(deeper, [n \in JobNames(ir1) |-> 0], ir1)

\* Mutant: only applies are kept apart.
renderApplyGrouped(job, stageByJob) ==
  [stage |-> stageByJob[job.name], needs |-> jobNeeds(job), artifacts |-> ToSet(job.output.paths),
   group |-> IF job.kind = "apply" THEN job.module ELSE NoModule, allow |-> job.allow,
   rules |-> "", when |-> "", ifExpr |-> ""]

\* jobBuilder.renderJob of the GitLab generator.
renderGitLabJob(job, stageByJob) ==
  [stage |-> stageByJob[job.name], needs |-> jobNeeds(job), artifacts |-> ToSet(job.output.paths),
   group |-> job.module, allow |-> job.allow, rules |-> "", when |-> "", ifExpr |-> ""]

\* jobBuilder.renderJob of the GitHub generator: a step downloads each input.
renderGitHubJob(job) ==
  [stage |-> 0, artifacts |-> ToSet(job.output.paths),
   needs |-> {[job |-> d, artifacts |-> FALSE, optional |-> FALSE] : d \in ToSet(job.deps)}
               \cup {[job |-> i.producer, artifacts |-> TRUE, optional |-> i.optional] :
                       i \in {x \in ToSet(job.inputs) : Configured(x.artifact)}},
   group |-> job.module, allow |-> job.allow, rules |-> "", when |-> "", ifExpr |-> ""]

\* Generator.Generate: transform, with AddJob and Build; names are unique (Validate).
Generate ==
  /\ stage = "done" /\ config = NoConfig
  /\ config' \in Configs
  /\ LET stageByJob == stages(ir)
         plain(job) == IF config'.backend = "gitlab" THEN renderGitLabJob(job, stageByJob)
                       ELSE renderGitHubJob(job)
     IN  doc' = [n \in JobNames(ir) |->
                   LET job == FindJob(ir, n)
                   IN  applyResolvedJobConfig(plain(job), jobOverwriteType(job), config')]
  /\ UNCHANGED <<vars, status, stored, restored>>

-----------------------------------------------------------------------------
(* The CI systems *)

gitlab == config.backend = "gitlab"
live == {"waiting", "queued", "running"}
started(p) == DOMAIN status[p] # {}
done(p, n) == status[p][n] \notin live

LeaveOut == {"no_match", "never"}
admitted == {n \in DOMAIN doc : doc[n].rules \notin LeaveOut}

\* The rule that matches says when a job runs, and the job when the rule does not.
whenOf(n) == IF doc[n].rules \in {"", "match"} THEN doc[n].when ELSE doc[n].rules
always(n) == doc[n].ifExpr = "always()" \/ whenOf(n) = "always"

\* GitLab creates a pipeline when the jobs that are needed are in it, in no
\* later stage, and needed once.
Accepted ==
  gitlab => LET jobs == admitted IN \A n \in jobs : \A need \in doc[n].needs :
    /\ IF need.job \in jobs THEN doc[need.job].stage <= doc[n].stage ELSE need.optional
    /\ \A other \in doc[n].needs : other.job = need.job => other = need

Push(p) ==
  /\ build \in Executed /\ DOMAIN doc # {}
  /\ Accepted
  /\ ~started(p)
  /\ Cardinality(DOMAIN doc) > MaxShared => \A q \in Pipelines : ~started(q)
  /\ status' = [status EXCEPT ![p] = [n \in admitted |-> "waiting"]]
  /\ stored' = [stored EXCEPT ![p] = [n \in admitted |-> {}]]
  /\ restored' = [restored EXCEPT ![p] = [n \in admitted |-> {}]]
  /\ UNCHANGED <<vars, config, doc>>

needed(p, n) == {need.job : need \in doc[n].needs} \cap DOMAIN status[p]

\* Two jobs of a resource_group or concurrency group never run at once.
busy(g) ==
  g # NoModule /\ \E q \in Pipelines : \E k \in DOMAIN status[q] :
                    doc[k].group = g /\ status[q][k] = "running"

allDone(p, n) == \A k \in needed(p, n) : done(p, k)
someFailed(p, n) == \E k \in needed(p, n) : status[p][k] = "failed"

\* A manual job waits for a person too, who may never come, a delayed one for
\* its time; what needs it waits with it.
ready(p, n) ==
  /\ status[p][n] = "waiting"
  /\ \/ whenOf(n) # "on_failure" /\ \A k \in needed(p, n) : status[p][k] = "success"
     \/ always(n) /\ allDone(p, n)
     \/ whenOf(n) = "on_failure" /\ allDone(p, n) /\ someFailed(p, n)

\* GitHub keeps one pending job of a group: the one queued last.
Queue(p, n) ==
  /\ ready(p, n)
  /\ status' = [q \in Pipelines |-> [k \in DOMAIN status[q] |->
                  IF q = p /\ k = n THEN "queued"
                  ELSE IF ~gitlab /\ doc[n].group # NoModule /\ doc[k].group = doc[n].group
                          /\ status[q][k] = "queued" THEN "canceled"
                  ELSE status[q][k]]]
  /\ UNCHANGED <<vars, config, doc, stored, restored>>

\* A job starts in a fresh checkout and takes the artifacts it needs; when a
\* download of GitHub's that is not optional finds nothing, the job ends there.
Start(p, n) ==
  LET takes == {need \in doc[n].needs : need.artifacts /\ need.job \in DOMAIN status[p]}
      absent == {need \in takes : stored[p][need.job] = {}}
  IN  /\ status[p][n] = "queued" /\ ~busy(doc[n].group)
      /\ restored' = [restored EXCEPT ![p][n] = UNION {stored[p][need.job] : need \in takes}]
      /\ status' = [status EXCEPT ![p][n] =
                      IF ~gitlab /\ \E need \in absent : ~need.optional THEN "failed" ELSE "running"]
      /\ UNCHANGED <<vars, config, doc, stored>>

\* renderTerraformPlan: with text or JSON asked for, -detailed-exitcode says 2
\* when there are changes, which the script makes a success; a failed plan
\* leaves no binary, and what of text and JSON was redirected into.
renderTerraformPlan(job) ==
  LET detailed == Len(job.produces) > 1
      files == ToSet(job.output.paths)
      exits == IF detailed THEN {0, 1, 2} ELSE {0, 1}
  IN  {[works |-> exit # 1, left |-> IF exit = 1 THEN files \ {PlanResource("plan_binary", job.module)} ELSE files] :
         exit \in exits}
        \cup {[works |-> FALSE, left |-> {}]}    \* cd or init failed

\* RenderOperation, and what running the lines may come to.
RenderOperation(job) ==
  IF job.kind = "plan" THEN renderTerraformPlan(job)
  ELSE {[works |-> TRUE,  left |-> ToSet(job.output.paths)],
        [works |-> FALSE, left |-> ToSet(job.output.paths)], [works |-> FALSE, left |-> {}]}

\* The script of a job that may fail never does (allowFailureScript); what
\* there is of the artifact's paths is uploaded whatever the result.
Finish(p, n) ==
  /\ status[p][n] = "running"
  /\ \E r \in RenderOperation(FindJob(ir, n)) :
       /\ status' = [status EXCEPT ![p][n] = IF r.works \/ doc[n].allow THEN "success" ELSE "failed"]
       /\ stored' = [stored EXCEPT ![p][n] = r.left \cap doc[n].artifacts]
  /\ UNCHANGED <<vars, config, doc, restored>>

\* What can no longer start is skipped.
Skip(p, n) ==
  /\ status[p][n] = "waiting" /\ ~always(n)
  /\ IF whenOf(n) = "on_failure" THEN allDone(p, n) /\ ~someFailed(p, n)
     ELSE \E k \in needed(p, n) : done(p, k) /\ status[p][k] # "success"
  /\ status' = [status EXCEPT ![p][n] = "skipped"]
  /\ UNCHANGED <<vars, config, doc, stored, restored>>

CIInit ==
  /\ Init
  /\ config = NoConfig
  /\ doc = Nothing
  /\ status = [p \in Pipelines |-> Nothing]
  /\ stored = [p \in Pipelines |-> Nothing]
  /\ restored = [p \in Pipelines |-> Nothing]

CINext ==
  \/ Next /\ UNCHANGED ciVars
  \/ Generate
  \/ \E p \in Pipelines :
       \/ Push(p)
       \/ \E n \in DOMAIN status[p] : Queue(p, n) \/ Start(p, n) \/ Finish(p, n) \/ Skip(p, n)

CISpec == CIInit /\ [][CINext]_<<vars, ciVars>>

-----------------------------------------------------------------------------
(* Properties *)

\* The settings a user made for the jobs of a type, if any.
sets(n, Set(_)) ==
  \/ Set(config.defaults)
  \/ \E ow \in ToSet(config.overwrites) : ow.type = jobOverwriteType(FindJob(ir, n)) /\ Set(ow)

anyway(c) == c.ifExpr = "always()" \/ c.when \in RunsAnyway \/ c.rules \in RunsAnyway
ownArtifacts(c) == c.artifacts # Unset

\* Of the targets no two share the name of their jobs.  Two that do are refused
\* (UniqueNames), if both have a job.
OneName == \A m, d \in build.targets : Words[m] = Words[d] => m = d

\* GitLab refuses a job that needs another twice; a plugin may name one twice
\* (contribution.go:204-208), and the builder and Validate let it.
AcceptedUnlessRules ==
  ~Accepted => \/ \E n \in DOMAIN doc : doc[n].rules \in LeaveOut
               \/ \E c \in ToSet(build.jobs) : ~IsInjective(c.deps)
               \/ ~OneName

\* A job's script runs only after those of the jobs it depends on ended in
\* success, unless the user has set it to run anyway: by if: always(), or by
\* when: always or on_failure, of the job or of one of its rules.
AfterDependencies ==
  \A p \in Pipelines : \A n \in DOMAIN status[p] : status[p][n] \in {"running", "success"} =>
    \A k \in ToSet(FindJob(ir, n).deps) \cap DOMAIN status[p] : status[p][k] = "success" \/ sets(n, anyway)

\* It finds each file its inputs promise.
FindsInputs ==
  \A p \in Pipelines : \A n \in DOMAIN status[p] : status[p][n] \in {"running", "success"} =>
    \A input \in ToSet(FindJob(ir, n).inputs) :
      \/ ToSet(input.artifact.paths) \subseteq restored[p][n]
      \/ sets(input.producer, ownArtifacts) \/ sets(n, anyway)
      \/ FindJob(ir, input.producer).allow
      \/ input.optional /\ input.producer \notin DOMAIN status[p]

\* A generated pipeline is one the CI system takes, unless rules keep a job out
\* of it that another needs, or a plugin or two modules of one name name a
\* dependency twice; and in every run of it a job's script runs only after those
\* of the jobs it depends on ended in success, and finds each file its inputs
\* promise (job_builder.go:119-159 and job_config.go:45-57 of GitLab,
\* job_builder.go:26-90 of GitHub).
\* The exceptions are the user's: a job set to run anyway, artifacts replaced by
\* the configuration or left out of the pipeline with an optional producer, and
\* producers allowed to fail.
CIRunsTheIR ==
  /\ AcceptedUnlessRules
  /\ AfterDependencies
  /\ FindsInputs

\* No two jobs of one module run at once, in whichever pipelines they are.
OneJobPerModule ==
  \A p, q \in Pipelines : \A n \in DOMAIN status[p], k \in DOMAIN status[q] :
    status[p][n] = "running" /\ status[q][k] = "running" =>
      LET m == FindJob(ir, n).module
      IN  m = FindJob(ir, k).module /\ m # NoModule => p = q /\ n = k

\* No two terraform processes work on one module at once, in whichever
\* pipelines their jobs are (job_builder.go:41-44, 83-88; docs/guide/
\* pipeline-generation.md:219), and within a pipeline a module is not touched
\* while one it depends on is being applied.
OneTerraformPerModule ==
  /\ OneJobPerModule
  /\ \A p \in Pipelines : \A n, k \in {x \in DOMAIN status[p] : status[p][x] = "running"} :
       LET i == FindJob(ir, n)  j == FindJob(ir, k)
       IN  j.kind = "apply" /\ i.module # NoModule /\ <<i.module, j.module>> \in closure(build.targets, targetEdges)
             => \E x \in DOMAIN status[p] : sets(x, anyway)
=============================================================================
