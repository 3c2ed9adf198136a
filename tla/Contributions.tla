----------------------------- MODULE Contributions -----------------------------
(***************************************************************************)
(* What plugins hand to the pipeline builder: requests for resources and   *)
(* command jobs (pkg/pipeline/contribution.go, resources.go, intent.go),   *)
(* and the jobs of the plugins of the repository (plugins/*/pipeline.go).  *)
(*                                                                         *)
(* A contributed job is a record [name, commands, deps, consumes,          *)
(* produces, allow], a contribution a sequence of them; a resource request *)
(* is [kind, scope, module, producer, optional].                           *)
(***************************************************************************)
EXTENDS PipelineIR

ResourceRequest(kind, scope, m, p, opt) ==
  [kind |-> kind, scope |-> scope, module |-> m, producer |-> p, optional |-> opt]

AllPlanResources(kind) == ResourceRequest(kind, "all_modules", NoModule, NoProducer, FALSE)
ModulePlanResource(kind, m) == ResourceRequest(kind, "module", m, NoProducer, FALSE)
AllPluginResources(kind, opt) == ResourceRequest(kind, "all_producers", NoModule, NoProducer, opt)
PluginProducerResource(kind, p, opt) == ResourceRequest(kind, "producer", NoModule, p, opt)

PluginResultAndReportResources(p) ==
  <<PluginResource("plugin_result", p), PluginResource("plugin_report", p)>>

validateResourceRequest(r) ==
  \/ r.scope = "all_modules"   /\ r.kind \in PlanKinds   /\ r.module = NoModule /\ r.producer = NoProducer
  \/ r.scope = "module"        /\ r.kind \in PlanKinds   /\ r.module # NoModule /\ r.producer = NoProducer
  \/ r.scope = "all_producers" /\ r.kind \in PluginKinds /\ r.module = NoModule /\ r.producer = NoProducer
  \/ r.scope = "producer"      /\ r.kind \in PluginKinds /\ r.module = NoModule /\ r.producer # NoProducer

validateContributedJob(job) ==
  /\ job.name # <<>>
  /\ job.commands # <<>>
  /\ \A n \in ToSet(job.deps) : n # <<>>
  /\ \A r \in ToSet(job.consumes) : validateResourceRequest(r)
  /\ \A ref \in ToSet(job.produces) : validateResourceRef(ref)
  /\ IsInjective(job.produces)

\* NewContribution: names and outputs are unique within one contribution only.
NewContribution(jobs) ==
  /\ \A job \in ToSet(jobs) : validateContributedJob(job)
  /\ IsInjective([i \in DOMAIN jobs |-> jobs[i].name])
  /\ IsInjective(FlattenSeq([i \in DOMAIN jobs |-> jobs[i].produces]))

\* ContributionSet.Jobs
ContributedJobs(contributions) == FlattenSeq(contributions)

\* newBuildIntent for ApplyBuildIntent and PlanBuildIntent.
newBuildIntent(apply, rs) == [apply |-> apply, required |-> rs]
ValidIntent(intent) == \A r \in ToSet(intent.required) : validateResourceRequest(r)

-----------------------------------------------------------------------------
(* The plugins of the repository                                            *)

PluginCommandJob(name, command, consumes, produces, allow) ==
  [name |-> name, commands |-> <<command>>, deps |-> <<>>,
   consumes |-> consumes, produces |-> produces, allow |-> allow]

\* Neither missing prices nor missing credentials stop a pipeline.
CostJob ==
  PluginCommandJob(<<"cost", "estimation">>, "terraci cost",
    <<AllPlanResources("plan_json")>>, PluginResultAndReportResources("cost"), TRUE)

PolicyJob(canBlock) ==
  PluginCommandJob(<<"policy", "check">>, "terraci policy check",
    <<AllPlanResources("plan_json")>>, PluginResultAndReportResources("policy"), ~canBlock)

\* With extensions.tfupdate.pipeline only (PipelineContributionEnabled).
UpdateJob ==
  PluginCommandJob(<<"tfupdate", "check">>, "terraci tfupdate",
    <<>>, PluginResultAndReportResources("tfupdate"), TRUE)

SummaryJob ==
  PluginCommandJob(<<"terraci", "summary">>, "terraci summary",
    <<AllPlanResources("plan_json"), AllPluginResources("plugin_report", TRUE)>>, <<>>, FALSE)
=============================================================================
