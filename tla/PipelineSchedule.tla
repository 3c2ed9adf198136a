-------------------------- MODULE PipelineSchedule --------------------------
(***************************************************************************)
(* pipeline.Schedule: the IR is cut into barrier groups, layer by layer.   *)
(*                                                                         *)
(* The function is sequential; its three loops are three kinds of step so  *)
(* that its own variables can carry an invariant.  A group is the set of   *)
(* its jobs' names: the order inside a group is that of the IR             *)
(* (inOrder).                                                              *)
(***************************************************************************)
EXTENDS PipelineIR

CONSTANTS
  Names,   \* the names jobs and dependencies may have
  IRs      \* the pipelines handed to Schedule

ASSUME NamesAssumption == IsFiniteSet(Names)

ASSUME IRsAssumption ==
  \A p \in IRs :
    /\ p \in Seq(ToSet(p))
    /\ \A i \in DOMAIN p : p[i].name \in Names /\ p[i].deps \in Seq(Names)

VARIABLES
  ir,        \* the argument
  sched,     \* where Schedule is: "called", "indexed", "layering", "done", or its error
  pending,   \* names not yet put into a group
  indegree,  \* per name, dependency entries not yet scheduled
  groups     \* the layers so far

schedVars == <<ir, sched, pending, indegree, groups>>

ScheduleErrors == {"duplicate_job", "unknown_dependency", "cycle"}

deps(n) == FindJob(ir, n).deps

\* The entries of n's dependency list that name a job of S.  A dependency
\* listed twice counts twice, in indegree and in the decrements alike.
entriesIn(n, S) == {i \in DOMAIN deps(n) : deps(n)[i] \in S}

InitSchedule ==
  /\ ir \in IRs
  /\ sched = "called"
  /\ pending = {}
  /\ indegree = [n \in {} |-> 0]
  /\ groups = <<>>

IndexJobs ==
  /\ sched = "called"
  /\ IF UniqueNames(ir)
       THEN /\ sched' = "indexed"
            /\ pending' = JobNames(ir)
            /\ indegree' = [n \in JobNames(ir) |-> 0]
       ELSE /\ sched' = "duplicate_job"
            /\ UNCHANGED <<pending, indegree>>
  /\ UNCHANGED <<ir, groups>>

CountDependencies ==
  /\ sched = "indexed"
  /\ IF \A n \in JobNames(ir) : ToSet(deps(n)) \subseteq JobNames(ir)
       THEN /\ sched' = "layering"
            /\ indegree' = [n \in JobNames(ir) |-> Cardinality(entriesIn(n, JobNames(ir)))]
       ELSE /\ sched' = "unknown_dependency"
            /\ UNCHANGED indegree
  /\ UNCHANGED <<ir, pending, groups>>

\* Mutant: one job per group.
layerOfOne == {n \in pending : indegree[n] = 0 /\ \A m \in pending :
                 indegree[m] = 0 => \E i \in DOMAIN ir : /\ ir[i].name = n
                                                         /\ \A j \in 1..(i-1) : ir[j].name # m}

layer == {n \in pending : indegree[n] = 0}

AppendLayer ==
  /\ sched = "layering"
  /\ layer # {}
  /\ groups' = Append(groups, layer)
  /\ pending' = pending \ layer
  /\ indegree' = [n \in JobNames(ir) |-> indegree[n] - Cardinality(entriesIn(n, layer))]
  /\ UNCHANGED <<ir, sched>>

FinishSchedule ==
  /\ sched = "layering"
  /\ layer = {}
  /\ sched' = IF pending = {} THEN "done" ELSE "cycle"
  /\ UNCHANGED <<ir, pending, indegree, groups>>

ScheduleStep == IndexJobs \/ CountDependencies \/ AppendLayer \/ FinishSchedule

\* The jobs of a group in the order Schedule lists them.
inOrder(group) ==
  FlattenSeq([i \in DOMAIN ir |-> IF ir[i].name \in group THEN <<ir[i].name>> ELSE <<>>])

-----------------------------------------------------------------------------
(* Properties *)

Scheduled == UNION ToSet(groups)

\* What Schedule's layering promises its callers (schedule.go:54-80): a job is
\* put into a group only when every job it depends on is in an earlier group.
LayersRespectDependencies ==
  \A k \in DOMAIN groups : \A n \in groups[k] : \A i \in DOMAIN deps(n) :
    \E m \in 1..(k-1) : deps(n)[i] \in groups[m]

\* No job is scheduled twice and none is lost: the groups are disjoint and,
\* with the pending ones, are all the jobs (schedule.go:70-78, 82).
GroupsPartitionJobs ==
  sched \in {"layering", "done", "cycle"} =>
    /\ \A k, m \in DOMAIN groups : groups[k] \cap groups[m] # {} => k = m
    /\ Scheduled \cap pending = {}
    /\ Scheduled \cup pending = JobNames(ir)

\* A job sits right behind the last of its dependencies, neither before it nor
\* later than need be: the groups are the longest chains of dependencies, as
\* few as possible (schedule.go:54-80).
LayersAreTight ==
  /\ LayersRespectDependencies
  /\ \A k \in DOMAIN groups : \A n \in groups[k] :
       k > 1 => \E i \in DOMAIN deps(n) : deps(n)[i] \in groups[k-1]
=============================================================================
