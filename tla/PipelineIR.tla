----------------------------- MODULE PipelineIR -----------------------------
(***************************************************************************)
(* The provider-agnostic pipeline IR of pkg/pipeline and IR.Validate.      *)
(*                                                                         *)
(* An IR is a sequence of jobs.  A job is a record                         *)
(*   name      a job name (a sequence of words: "plan-a-b" is              *)
(*             <<"plan", "a", "b">>)                                       *)
(*   kind      "plan", "apply" or "command"                                *)
(*   module    the module of a terraform job, NoModule otherwise           *)
(*   deps      the names of the jobs it depends on, a sequence             *)
(*   inputs    [artifact, producer, optional], restored before it runs     *)
(*   output    the artifact it publishes                                   *)
(*   consumes, produces   sequences of resources                           *)
(*   allow     allowFailure                                                *)
(* A resource is its ResourceRef [kind, module, producer]; its path is a   *)
(* function of the ref (pkg/pipeline/paths.go, resources.go), so the paths *)
(* of an artifact are written as the refs stored at them.                  *)
(***************************************************************************)
EXTENDS Naturals, Sequences, FiniteSets, SequencesExt

NoModule   == 0    \* module IDs are positive
NoProducer == "no_producer"

PlanKinds   == {"plan_binary", "plan_text", "plan_json"}
PluginKinds == {"plugin_result", "plugin_report"}

PlanResource(kind, module)     == [kind |-> kind, module |-> module, producer |-> NoProducer]
PluginResource(kind, producer) == [kind |-> kind, module |-> NoModule, producer |-> producer]

\* Artifact.Configured.  Artifact{} has neither name nor paths.
NoArtifact    == [name |-> <<>>, paths |-> <<>>]
Configured(a) == a.name # <<>> /\ a.paths # <<>>

JobNames(ir) == {ir[i].name : i \in DOMAIN ir}

\* ir.FindJob, and the byName map of Validate: names are unique by then.
FindJob(ir, n) == ir[CHOOSE i \in DOMAIN ir : ir[i].name = n]

-----------------------------------------------------------------------------
UniqueNames(ir) == \A i, j \in DOMAIN ir : ir[i].name = ir[j].name => i = j

validateResourceRef(ref) ==
  \/ ref.kind \in PlanKinds   /\ ref.module # NoModule /\ ref.producer = NoProducer
  \/ ref.kind \in PluginKinds /\ ref.module = NoModule /\ ref.producer # NoProducer

\* validateJob with validateOperation: the operation of a job is built from
\* its kind (NewPlanOperation, NewApplyOperation, newCommandOperation), so
\* what is left of validateOperation is that a terraform job has a module.
validateJob(job) ==
  /\ job.kind \in {"plan", "apply", "command"}
  /\ job.kind \in {"plan", "apply"} => job.module # NoModule
  /\ (job.output.name = <<>>) <=> (job.output.paths = <<>>)
  /\ \A r \in ToSet(job.produces) \cup ToSet(job.consumes) : validateResourceRef(r)

validateJobEdges(ir) ==
  \A job \in ToSet(ir) :
    /\ ToSet(job.deps) \subseteq JobNames(ir)
    /\ \A input \in ToSet(job.inputs) :
         Configured(input.artifact) =>
           /\ input.producer \in JobNames(ir) \cap ToSet(job.deps)
           /\ input.artifact = FindJob(ir, input.producer).output

\* buildResourceIndex: who produces what; an error when a resource has two
\* producers or a producer publishes no artifact.
producersOf(ir, ref) ==
  UNION {{i} \X {k \in DOMAIN ir[i].produces : ir[i].produces[k] = ref} : i \in DOMAIN ir}

buildResourceIndex(ir) ==
  \A job \in ToSet(ir) : \A ref \in ToSet(job.produces) :
    /\ Configured(job.output)
    /\ Cardinality(producersOf(ir, ref)) = 1

producerOf(ir, ref) == ir[(CHOOSE p \in producersOf(ir, ref) : TRUE)[1]]

validateConsumedResources(ir, job) ==
  \A ref \in ToSet(job.consumes) :
    /\ producersOf(ir, ref) # {}
    /\ LET producer == producerOf(ir, ref)
       IN  producer.name # job.name =>
             /\ producer.name \in ToSet(job.deps)
             /\ \E input \in ToSet(job.inputs) :
                  /\ input.producer = producer.name
                  /\ Configured(input.artifact)
                  /\ input.artifact = producer.output

validateResourceClosure(ir) ==
  /\ buildResourceIndex(ir)
  /\ \A job \in ToSet(ir) :
       /\ ToSet(job.produces) \subseteq ToSet(job.output.paths)
       /\ validateConsumedResources(ir, job)

\* validateAcyclicJobs: depth-first search with the marks visiting and visited.
\* visit[n, marks] is the marks after visit(n) and whether it met a cycle.
visit(ir) ==
  LET v[n \in JobNames(ir), marks \in [JobNames(ir) -> {"new", "visiting", "visited"}]] ==
        CASE marks[n] = "visiting" -> [cycle |-> TRUE,  marks |-> marks]
          [] marks[n] = "visited"  -> [cycle |-> FALSE, marks |-> marks]
          [] OTHER ->
               LET dep(acc, d) == IF acc.cycle THEN acc ELSE v[d, acc.marks]
                   below == FoldLeft(dep, [cycle |-> FALSE,
                                           marks |-> [marks EXCEPT ![n] = "visiting"]],
                                     FindJob(ir, n).deps)
               IN  IF below.cycle THEN below
                   ELSE [cycle |-> FALSE, marks |-> [below.marks EXCEPT ![n] = "visited"]]
  IN  v

\* Mutant: only a job that depends on itself is rejected.
validateNoSelfLoops(ir) == \A job \in ToSet(ir) : job.name \notin ToSet(job.deps)

validateAcyclicJobs(ir) ==
  LET root(acc, job) == IF acc.cycle THEN acc ELSE visit(ir)[job.name, acc.marks]
  IN  ~ FoldLeft(root, [cycle |-> FALSE, marks |-> [n \in JobNames(ir) |-> "new"]], ir).cycle

\* IR.Validate, in its order.
Validate(ir) ==
  /\ UniqueNames(ir)
  /\ \A job \in ToSet(ir) : validateJob(job)
  /\ validateJobEdges(ir)
  /\ validateResourceClosure(ir)
  /\ validateAcyclicJobs(ir)
=============================================================================
