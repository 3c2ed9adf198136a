--------------------------- MODULE PipelineBuilder ---------------------------
(***************************************************************************)
(* pipeline.BuildProjectIR: from the dependency graph, the target modules, *)
(* the intent and the jobs the plugins contribute to a validated IR.       *)
(*                                                                         *)
(* A request to build is a record                                          *)
(*   G          the graph of the filtered modules                          *)
(*   targets    the target modules, nodes of G                             *)
(*   apply      BuildIntent.applyEnabled                                   *)
(*   required   BuildIntent.resources, a sequence of resource requests     *)
(*   jobs       the contributed jobs, in contribution order                *)
(* A module ID is a number; its path, cut at slashes and dashes, is        *)
(* Words[m], so that two modules may have one job name.                    *)
(***************************************************************************)
EXTENDS Contributions, DependencyGraph

CONSTANTS
  Words,    \* per module ID, the words of its path
  Builds    \* the requests BuildProjectIR is called with

VARIABLES
  build,    \* the request
  stage,    \* "prepare", "jobs", "resolve", "validate", "done" or "failed"
  subgraph, \* plan.subgraph
  ir        \* the jobs so far

vars == <<build, stage, subgraph, ir>>

ASSUME WordsAssumption == \A m \in IDs : Words[m] \in Seq(ToSet(Words[m]))

ASSUME BuildsAssumption ==
  \A b \in Builds :
    /\ b.targets \subseteq b.G.nodes /\ b.G.nodes \subseteq IDs /\ b.G.edges \in [IDs -> Seq(IDs)]
    /\ \A i \in IDs : IsInjective(b.G.edges[i])    \* AddEdge
    /\ b.apply \in BOOLEAN /\ ValidIntent(b)
    /\ b.jobs \in Seq(ToSet(b.jobs))
    /\ \A job \in ToSet(b.jobs) :
         /\ NewContribution(<<job>>) /\ job.deps \in Seq(ToSet(job.deps))
         /\ job.consumes \in Seq(ToSet(job.consumes)) /\ job.produces \in Seq(ToSet(job.produces))
         /\ \A r \in ToSet(job.consumes) : r.optional \in BOOLEAN

Init ==
  /\ build \in Builds
  /\ stage = "prepare"
  /\ subgraph = NewDependencyGraph
  /\ ir = <<>>

PrepareModuleGraph ==
  /\ stage = "prepare"
  /\ subgraph' = Subgraph(build.G, build.targets)
  /\ stage' = IF TopologicalSort(subgraph').ok THEN "jobs" ELSE "failed"
  /\ UNCHANGED <<build, ir>>

-----------------------------------------------------------------------------
(* The jobs of the modules and of the plugins.                              *)

jobName(kind, m) == <<kind>> \o Words[m]

\* resolveDependencyNames: the jobs of a module's dependencies among the targets.
resolveDependencyNames(m, kind) ==
  [i \in DOMAIN subgraph.edges[m] |-> jobName(kind, subgraph.edges[m][i])]

\* allResourceRequests
requests == ToSet(build.required) \cup UNION {ToSet(job.consumes) : job \in ToSet(build.jobs)}

asksFor(r, m) ==
  /\ r.kind \in PlanKinds
  /\ r.scope = "module" => r.module = m

moduleNeedsPlanJob(m) == build.apply \/ \E r \in requests : asksFor(r, m)

\* requestedPlanOutputs: whether text and JSON renderings of the plan are wanted.
planOutputs(m, kind) == \E r \in requests : r.kind = kind /\ asksFor(r, m)

\* NewPlanOperation
planResources(m) ==
  LET optional(kind) == IF planOutputs(m, kind) THEN <<PlanResource(kind, m)>> ELSE <<>>
  IN  <<PlanResource("plan_binary", m)>> \o optional("plan_text") \o optional("plan_json")

planArtifact(m) == [name |-> jobName("plan", m), paths |-> planResources(m)]

\* Mutant: a plan waits for the plans of what the module depends on.
buildPlanJobAfterPlans(m) ==
  [name |-> jobName("plan", m), kind |-> "plan", module |-> m,
   deps |-> resolveDependencyNames(m, "plan"),
   inputs |-> <<>>, output |-> planArtifact(m), consumes |-> <<>>,
   produces |-> planResources(m), allow |-> FALSE]

buildPlanJob(m) ==
  [name |-> jobName("plan", m), kind |-> "plan", module |-> m,
   deps |-> resolveDependencyNames(m, IF build.apply THEN "apply" ELSE "plan"),
   inputs |-> <<>>, output |-> planArtifact(m), consumes |-> <<>>,
   produces |-> planResources(m), allow |-> FALSE]

\* With an apply there always is a plan job (moduleNeedsPlanJob).
buildApplyJob(m) ==
  [name |-> jobName("apply", m), kind |-> "apply", module |-> m,
   deps |-> <<jobName("plan", m)>> \o resolveDependencyNames(m, "apply"),
   inputs |-> <<[artifact |-> planArtifact(m), producer |-> jobName("plan", m), optional |-> FALSE]>>,
   output |-> NoArtifact, consumes |-> <<PlanResource("plan_binary", m)>>,
   produces |-> <<>>, allow |-> FALSE]

buildModuleJobs ==
  LET jobsOf(m) == (IF moduleNeedsPlanJob(m) THEN <<buildPlanJob(m)>> ELSE <<>>)
                     \o (IF build.apply THEN <<buildApplyJob(m)>> ELSE <<>>)
      order == TopologicalSort(subgraph).order
  IN  FlattenSeq([i \in DOMAIN order |-> jobsOf(order[i])])

\* newCommandJob; what it consumes is resolved later.
newCommandJob(job) ==
  [name |-> job.name, kind |-> "command", module |-> NoModule, deps |-> job.deps,
   inputs |-> <<>>,
   output |-> IF job.produces = <<>> THEN NoArtifact
              ELSE [name |-> Append(job.name, "results"), paths |-> job.produces],
   consumes |-> <<>>, produces |-> job.produces, allow |-> job.allow]

BuildJobs ==
  /\ stage = "jobs"
  /\ ir' = buildModuleJobs \o [i \in DOMAIN build.jobs |-> newCommandJob(build.jobs[i])]
  /\ stage' = "resolve"
  /\ UNCHANGED <<build, subgraph>>

-----------------------------------------------------------------------------
(* resolvePipelineResources                                                  *)

\* resourceIndex.all: [ref, job, artifact], in IR order.
resourceIndex ==
  FlattenSeq([i \in DOMAIN ir |->
    [k \in DOMAIN ir[i].produces |->
       [ref |-> ir[i].produces[k], job |-> ir[i].name, artifact |-> ir[i].output]]])

resourceMatches(r, ref) ==
  /\ r.kind = ref.kind
  /\ CASE r.scope = "module"        -> ref.module = r.module
       [] r.scope = "producer"      -> ref.producer = r.producer
       [] r.scope = "all_modules"   -> ref.module # NoModule
       [] r.scope = "all_producers" -> ref.producer # NoProducer

matchingResources(r, consumer) ==
  LET all == resourceIndex
  IN  elementsAt(all, {k \in DOMAIN all : all[k].job # consumer /\ resourceMatches(r, all[k].ref)})

\* emptyResourceRequestAllowed, when there is no target at all.
emptyResourceRequestAllowed(r) == build.targets = {} /\ r.scope = "all_modules"

unavailable(r, consumer) ==
  /\ matchingResources(r, consumer) = <<>>
  /\ ~r.optional
  /\ ~emptyResourceRequestAllowed(r)

NoConsumer == <<>>   \* the pipeline itself: no job has this name

\* Mutant: one optional request makes the resource optional.
resolveOptionalIfAny(rs, consumer) ==
  LET matches == FlattenSeq([i \in DOMAIN rs |-> matchingResources(rs[i], consumer)])
      optional(ref) == \E r \in ToSet(rs) : resourceMatches(r, ref) /\ r.optional
      resolved(x) == [ref |-> x.ref, job |-> x.job, artifact |-> x.artifact, optional |-> optional(x.ref)]
  IN  elementsAt([k \in DOMAIN matches |-> resolved(matches[k])],
                 {k \in DOMAIN matches : \A h \in 1..k - 1 : matches[h].ref # matches[k].ref})

\* resolveResourceRequests: each resource once, optional when every request
\* that matches it is.
resolveResourceRequests(rs, consumer) ==
  LET matches == FlattenSeq([i \in DOMAIN rs |-> matchingResources(rs[i], consumer)])
      optional(ref) == \A r \in ToSet(rs) : resourceMatches(r, ref) => r.optional
      resolved(x) == [ref |-> x.ref, job |-> x.job, artifact |-> x.artifact, optional |-> optional(x.ref)]
  IN  elementsAt([k \in DOMAIN matches |-> resolved(matches[k])],
                 {k \in DOMAIN matches : \A h \in 1..k - 1 : matches[h].ref # matches[k].ref})

\* mergeJobDependency: the producers that are not waited for yet.
mergeJobDependency(deps, resolved) ==
  LET names == [k \in DOMAIN resolved |-> resolved[k].job]
  IN  deps \o elementsAt(names, {k \in DOMAIN names : /\ ~Contains(deps, names[k])
                                                      /\ \A h \in 1..k - 1 : names[h] # names[k]})

\* resolveResourceRequestsForJob: an artifact is an input once, optional when
\* every resource wanted from it is.
inputArtifacts(resolved) ==
  LET optional(name) == \A x \in ToSet(resolved) : x.artifact.name = name => x.optional
      input(x) == [artifact |-> x.artifact, producer |-> x.job, optional |-> optional(x.artifact.name)]
  IN  elementsAt([k \in DOMAIN resolved |-> input(resolved[k])],
                 {k \in DOMAIN resolved : \A h \in 1..k - 1 : resolved[h].artifact.name # resolved[k].artifact.name})

\* Mutant: the producers are not waited for.
resolveWithoutWaiting(job, contributed) ==
  LET resolved == resolveResourceRequests(contributed.consumes, job.name)
  IN  [job EXCEPT !.consumes = [k \in DOMAIN resolved |-> resolved[k].ref],
                  !.inputs = inputArtifacts(resolved)]

resolveJob(job, contributed) ==
  LET resolved == resolveResourceRequests(contributed.consumes, job.name)
  IN  [job EXCEPT !.consumes = [k \in DOMAIN resolved |-> resolved[k].ref],
                  !.inputs = inputArtifacts(resolved),
                  !.deps = mergeJobDependency(@, resolved)]

\* The contributed jobs are the last ones of the IR.
ResolveResources ==
  /\ stage = "resolve"
  /\ LET start == Len(ir) - Len(build.jobs)
         missing == \/ \E r \in ToSet(build.required) : unavailable(r, NoConsumer)
                    \/ \E job \in ToSet(build.jobs) : \E r \in ToSet(job.consumes) : unavailable(r, job.name)
     IN  IF buildResourceIndex(ir) /\ ~missing
           THEN /\ ir' = [i \in DOMAIN ir |-> IF i <= start THEN ir[i]
                                              ELSE resolveJob(ir[i], build.jobs[i - start])]
                /\ stage' = "validate"
           ELSE /\ stage' = "failed"
                /\ UNCHANGED ir
  /\ UNCHANGED <<build, subgraph>>

ValidateIR ==
  /\ stage = "validate"
  /\ stage' = IF Validate(ir) THEN "done" ELSE "failed"
  /\ UNCHANGED <<build, subgraph, ir>>

Next == PrepareModuleGraph \/ BuildJobs \/ ResolveResources \/ ValidateIR

Spec == Init /\ [][Next]_vars

-----------------------------------------------------------------------------
(* Reference definitions, from the request alone.                           *)

targetEdges == {e \in build.targets \X build.targets : Contains(build.G.edges[e[1]], e[2])}

closure(S, E) ==
  LET through(x, R) == R \cup {p \in S \X S : <<p[1], x>> \in R /\ <<x, p[2]>> \in R}
  IN  FoldSet(through, E, S)

cyclicTargets == \E m \in build.targets : <<m, m>> \in closure(build.targets, targetEdges)

wanted == {m \in build.targets : moduleNeedsPlanJob(m)}

\* Kind and module of the terraform jobs there have to be.
terraformJobs == ({"plan"} \X wanted) \cup IF build.apply THEN {"apply"} \X build.targets ELSE {}

\* Two jobs of one name: two modules whose paths differ in a slash and a dash
\* only, or a plugin that takes another job's name.
clash ==
  \/ \E j, k \in terraformJobs : j # k /\ jobName(j[1], j[2]) = jobName(k[1], k[2])
  \/ \E j \in terraformJobs, c \in ToSet(build.jobs) : jobName(j[1], j[2]) = c.name
  \/ \E c, d \in DOMAIN build.jobs : c # d /\ build.jobs[c].name = build.jobs[d].name

\* A plugin's job waits for a job that does not exist.
unknownJob ==
  \E c \in ToSet(build.jobs) : \E n \in ToSet(c.deps) :
    /\ \A d \in ToSet(build.jobs) : d.name # n
    /\ \A j \in terraformJobs : jobName(j[1], j[2]) # n

offered ==
  [kind : {"plan_binary"}, module : wanted, producer : {NoProducer}]
    \cup {PlanResource(r.kind, m) : r \in {q \in requests : q.kind \in PlanKinds}, m \in wanted}
    \cup UNION {ToSet(c.produces) : c \in ToSet(build.jobs)}

\* What a request of the given consumer is answered with.
answers(r, own) ==
  {ref \in offered \ own : /\ ref.kind = r.kind
                           /\ r.scope = "module" => ref.module = r.module
                           /\ r.scope = "producer" => ref.producer = r.producer
                           /\ r.kind \in {"plan_text", "plan_json"} => planOutputs(ref.module, r.kind)}

unanswered(r, own) ==
  ~r.optional /\ answers(r, own) = {} /\ ~(build.targets = {} /\ r.scope = "all_modules")

starved ==
  \/ \E r \in ToSet(build.required) : unanswered(r, {})
  \/ \E c \in ToSet(build.jobs) : \E r \in ToSet(c.consumes) : unanswered(r, ToSet(c.produces))

twoProducers ==
  \E c, d \in DOMAIN build.jobs :
    c # d /\ ToSet(build.jobs[c].produces) \cap ToSet(build.jobs[d].produces) # {}

\* A plan job waits for the plan of a module that has none.
planOfUnplanned == ~build.apply /\ \E e \in targetEdges : e[1] \in wanted /\ e[2] \notin wanted

\* The plugins' jobs wait for each other.
pluginEdges ==
  {e \in (DOMAIN build.jobs) \X (DOMAIN build.jobs) :
     LET c == build.jobs[e[1]]
         d == build.jobs[e[2]]
     IN  \/ d.name \in ToSet(c.deps)
         \/ e[1] # e[2] /\ \E r \in ToSet(c.consumes) : answers(r, ToSet(c.produces)) \cap ToSet(d.produces) # {}}
pluginsInCircle == \E i \in DOMAIN build.jobs : <<i, i>> \in closure(DOMAIN build.jobs, pluginEdges)

\* Another job goes by the name of the plan of a target that has none.
impostor ==
  \E m \in build.targets \ wanted :
    \/ \E j \in terraformJobs : jobName(j[1], j[2]) = jobName("plan", m)
    \/ \E c \in ToSet(build.jobs) : c.name = jobName("plan", m)

(* Properties *)

after(ir1) == closure(JobNames(ir1), {e \in JobNames(ir1) \X JobNames(ir1) :
                                        e[2] \in ToSet(FindJob(ir1, e[1]).deps)})

\* A build fails for the reasons a user can read off the repository and the
\* configuration and for no other (builder.go:20-50): IR.Validate never rejects
\* what the builder made of a request that has none of these faults, and never
\* accepts one that has.  (A name is all it has to tell jobs apart: what waits
\* for a plan that is not made waits for any job that goes by its name.)
BuildFailsForAReason ==
  stage \in {"done", "failed"} /\ ~impostor =>
    (stage = "failed" <=> \/ cyclicTargets \/ clash \/ starved \/ twoProducers
                          \/ planOfUnplanned \/ unknownJob \/ pluginsInCircle)

\* terraform plan of a module runs when everything it needs among the targets
\* has been applied (or, when nothing is applied, planned), through any number
\* of modules (builder.go:164-218): a plan never reads state an apply of the
\* same pipeline is about to change.
PlanAfterDependencies ==
  stage = "done" /\ ~impostor =>
    LET R == after(ir)
        before == IF build.apply THEN "apply" ELSE "plan"
    IN  \A e \in closure(build.targets, targetEdges) :
          e[1] \in wanted => <<jobName("plan", e[1]), jobName(before, e[2])>> \in R

\* A plugin's job gets everything its requests name, from whichever jobs
\* produce it: each resource is in an artifact that is restored before the job
\* runs, and its producer has run (resource_resolver.go:95-205).  An artifact
\* may be missing only if every request it serves is optional.
PluginsGetWhatTheyAskFor ==
  stage = "done" =>
    \A c \in ToSet(build.jobs) : \A r \in ToSet(c.consumes) :
      LET job == FindJob(ir, c.name)
      IN  \A ref \in answers(r, ToSet(c.produces)) :
            \E input \in ToSet(job.inputs) :
              /\ ref \in ToSet(input.artifact.paths)
              /\ input.producer \in ToSet(job.deps)
              /\ r.optional \/ ~input.optional
=============================================================================
