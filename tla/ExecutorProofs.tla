--------------------------- MODULE ExecutorProofs ---------------------------
(***************************************************************************)
(* Theorems about Executor for any set of names, any pipelines, any        *)
(* parallelism and with or without a caller that cancels.                  *)
(*                                                                         *)
(* ScheduleInv says what Schedule's variables mean while it runs: indegree *)
(* counts the dependency entries that are still pending, the groups and    *)
(* the pending jobs are disjoint, and dependencies are in earlier groups.  *)
(* RunInv says what the goroutines have done: the groups before the        *)
(* current one have succeeded, a goroutine that is alive belongs to the    *)
(* current group, and a goroutine that has gone without error has recorded *)
(* a success.  On top of that, the layers of Schedule are as few as        *)
(* possible, what Execute returns is the truth about its jobs, and Execute *)
(* implements DagRun.                                                      *)
(***************************************************************************)
EXTENDS Executor, SequenceLemmas

Layered == {"layering", "done", "cycle"}

ScheduleInv ==
  /\ sched \notin Layered => groups = <<>>
  /\ sched = "indexed" => pending = JobNames(ir)
  /\ sched \in Layered =>
       /\ pending \subseteq JobNames(ir)
       /\ indegree = [n \in JobNames(ir) |-> Cardinality(entriesIn(n, pending))]
       /\ \A n \in JobNames(ir) : \A i \in DOMAIN deps(n) : deps(n)[i] \in JobNames(ir)
       /\ \A n \in JobNames(ir) : n \in pending \/ \E k \in DOMAIN groups : n \in groups[k]
       /\ \A k \in DOMAIN groups : groups[k] \subseteq JobNames(ir) \ pending
       /\ \A k, m \in DOMAIN groups : groups[k] \cap groups[m] # {} => k = m
       /\ LayersRespectDependencies

Holders == {n \in Names : pc[n] \in {"running", "recorded"}}

RunInv ==
  /\ g > 0 => phase \in {"running", "returned"}
  /\ phase = "running" => sched = "done"
  /\ phase = "called" => sched = "called"
  /\ NoStrayGoroutines
  /\ \A n \in Names : pc[n] # "idle" => \E k \in 1..g : n \in groups[k]
  /\ \A k \in 1..g : k < g => \A n \in groups[k] : pc[n] = "gone" /\ recorded[n] = "succeeded"
  /\ \A n \in Names : recorded[n] # "none" => pc[n] \in {"recorded", "leaving", "gone"}
  /\ \A n \in Names : pc[n] \in {"recorded", "leaving", "gone"} /\ jobErr[n] = "none"
                        => recorded[n] = "succeeded"
  /\ \A n \in Names : pc[n] = "gone" /\ jobErr[n] # "none" => groupErr # NoErr

SlotInv ==
  /\ sem = Cardinality(Holders)
  /\ Parallelism > 0 => sem <= Parallelism

-----------------------------------------------------------------------------
\* The dependency list of a job of the pipeline (schedule.go:43-50) is a list of
\* names.
LEMMA DepsAreNames ==
  ASSUME ir \in IRs, NEW n \in JobNames(ir)
  PROVE  n \in Names /\ deps(n) \in Seq(Names)
<1>1. \E i \in DOMAIN ir : ir[i].name = n
  BY DEF JobNames
<1> DEFINE j == CHOOSE i \in DOMAIN ir : ir[i].name = n
<1>2. j \in DOMAIN ir /\ ir[j].name = n
  BY <1>1
<1>3. deps(n) = ir[j].deps
  BY DEF deps, FindJob
<1> QED
  BY <1>2, <1>3, IRsAssumption

\* Counting entries (schedule.go:49, 76): when the jobs of L leave P, the count
\* of n's entries in P drops by the count of its entries in L.
LEMMA EntriesSplit ==
  ASSUME ir \in IRs, NEW n \in JobNames(ir), NEW P, NEW L \in SUBSET P
  PROVE  /\ Cardinality(entriesIn(n, P)) \in Nat
         /\ Cardinality(entriesIn(n, P \ L)) =
              Cardinality(entriesIn(n, P)) - Cardinality(entriesIn(n, L))
         /\ Cardinality(entriesIn(n, P)) = 0 => entriesIn(n, P) = {}
<1>1. deps(n) \in Seq(Names)
  BY DepsAreNames
<1>2. DOMAIN deps(n) = 1..Len(deps(n)) /\ Len(deps(n)) \in Nat
  BY <1>1
<1>3. IsFiniteSet(DOMAIN deps(n))
  BY <1>2, FS_Interval
<1>4. IsFiniteSet(entriesIn(n, P))
  BY <1>3, FS_Subset DEF entriesIn
<1>5. entriesIn(n, P \ L) = entriesIn(n, P) \ entriesIn(n, L)
  BY DEF entriesIn
<1>6. entriesIn(n, P) \cap entriesIn(n, L) = entriesIn(n, L)
  BY DEF entriesIn
<1>7. Cardinality(entriesIn(n, P)) \in Nat
  BY <1>4, FS_CardinalityType
<1>8. Cardinality(entriesIn(n, P) \ entriesIn(n, L)) =
        Cardinality(entriesIn(n, P)) - Cardinality(entriesIn(n, P) \cap entriesIn(n, L))
  BY <1>4, FS_Difference
<1>9. Cardinality(entriesIn(n, P)) = 0 => entriesIn(n, P) = {}
  BY <1>4, FS_EmptySet
<1> QED
  BY <1>5, <1>6, <1>7, <1>8, <1>9

\* Nothing that is read off the pipeline changes while the pipeline does not.
LEMMA SamePipeline ==
  ASSUME ir' = ir
  PROVE  /\ JobNames(ir)' = JobNames(ir)
         /\ \A n : deps(n)' = deps(n)
<1>1. JobNames(ir)' = JobNames(ir)
  BY DEF JobNames
<1>2. ASSUME NEW n PROVE deps(n)' = deps(n)
  <2>1. deps(n)' = FindJob(ir', n).deps
    BY DEF deps, FindJob
  <2>2. FindJob(ir', n) = FindJob(ir, n)
    OBVIOUS
  <2> QED
    BY <2>1, <2>2 DEF deps
<1> QED
  BY <1>1, <1>2

\* Appending a group leaves the groups before it where they are.
LEMMA AppendGroup ==
  ASSUME NEW S, NEW s \in Seq(S), NEW e \in S
  PROVE  /\ Len(s) \in Nat
         /\ DOMAIN s = 1..Len(s)
         /\ DOMAIN Append(s, e) = 1..(Len(s) + 1)
         /\ \A k \in 1..Len(s) : Append(s, e)[k] = s[k]
         /\ Append(s, e)[Len(s) + 1] = e
  OBVIOUS

LEMMA LastOrBefore ==
  ASSUME NEW N \in Nat, NEW k \in 1..(N + 1)
  PROVE  k = N + 1 \/ k \in 1..N
  OBVIOUS

LEMMA BelowIsBefore ==
  ASSUME NEW N \in Nat, NEW k \in 1..(N + 1), NEW m \in 1..(k - 1)
  PROVE  m \in 1..N
  OBVIOUS

LEMMA UnchangedKeepsInv ==
  ASSUME ScheduleInv, UNCHANGED schedVars
  PROVE  ScheduleInv'
<1>1. ir' = ir /\ sched' = sched /\ pending' = pending /\ indegree' = indegree /\ groups' = groups
  BY DEF schedVars
<1> QED
  BY <1>1, SamePipeline DEF ScheduleInv, entriesIn, LayersRespectDependencies, Layered

LEMMA IndexJobsKeepsInv ==
  ASSUME ScheduleInv, IndexJobs
  PROVE  ScheduleInv'
BY SamePipeline DEF IndexJobs, ScheduleInv, Layered

LEMMA CountDependenciesKeepsInv ==
  ASSUME ScheduleInv, CountDependencies
  PROVE  ScheduleInv'
<1>1. pending' = pending /\ pending = JobNames(ir) /\ groups' = <<>> /\ ir' = ir
  BY DEF CountDependencies, ScheduleInv, Layered
<1>2. CASE sched' = "unknown_dependency"
  BY <1>1, <1>2 DEF ScheduleInv, Layered
<1>3. CASE sched' = "layering"
  <2>1. \A n \in JobNames(ir) : \A i \in DOMAIN deps(n) : deps(n)[i] \in JobNames(ir)
    BY <1>3 DEF CountDependencies, ToSet
  <2>2. indegree' = [n \in JobNames(ir) |-> Cardinality(entriesIn(n, JobNames(ir)))]
    BY <1>3 DEF CountDependencies
  <2>3. DOMAIN groups' = {}
    BY <1>1
  <2>4. LayersRespectDependencies'
    BY <2>3 DEF LayersRespectDependencies
  <2> QED
    BY <1>1, <1>3, <2>1, <2>2, <2>3, <2>4, SamePipeline DEF ScheduleInv, Layered, entriesIn
<1> QED
  BY <1>2, <1>3 DEF CountDependencies

LEMMA FinishScheduleKeepsInv ==
  ASSUME ScheduleInv, FinishSchedule
  PROVE  ScheduleInv'
<1>1. ir' = ir /\ pending' = pending /\ indegree' = indegree /\ groups' = groups
  BY DEF FinishSchedule
<1>2. sched = "layering" /\ sched' \in {"done", "cycle"}
  BY DEF FinishSchedule
<1> QED
  BY <1>1, <1>2, SamePipeline DEF ScheduleInv, Layered, entriesIn, LayersRespectDependencies

\* The layer that leaves pending (schedule.go:54-80): its jobs have no entry
\* that is pending, so their dependencies are in the groups before.
LEMMA AppendLayerKeepsInv ==
  ASSUME ir \in IRs, pending \subseteq Names, groups \in Seq(SUBSET Names),
         ScheduleInv, AppendLayer
  PROVE  ScheduleInv'
<1> DEFINE N == Len(groups)
<1>1. /\ sched = "layering" /\ sched' = "layering" /\ ir' = ir
      /\ groups' = Append(groups, layer) /\ pending' = pending \ layer
      /\ indegree' = [n \in JobNames(ir) |-> indegree[n] - Cardinality(entriesIn(n, layer))]
  BY DEF AppendLayer
<1>2. layer \subseteq pending /\ layer \in SUBSET Names
  BY DEF layer
<1>3. /\ pending \subseteq JobNames(ir)
      /\ indegree = [n \in JobNames(ir) |-> Cardinality(entriesIn(n, pending))]
      /\ \A n \in JobNames(ir) : \A i \in DOMAIN deps(n) : deps(n)[i] \in JobNames(ir)
      /\ \A n \in JobNames(ir) : n \in pending \/ \E k \in DOMAIN groups : n \in groups[k]
      /\ \A k \in DOMAIN groups : groups[k] \subseteq JobNames(ir) \ pending
      /\ \A k, m \in DOMAIN groups : groups[k] \cap groups[m] # {} => k = m
      /\ LayersRespectDependencies
  BY <1>1 DEF ScheduleInv, Layered
<1>4. N \in Nat /\ DOMAIN groups = 1..N
  BY AppendGroup, <1>2
<1>5. /\ DOMAIN groups' = 1..(N + 1)
      /\ \A k \in 1..N : groups'[k] = groups[k]
      /\ groups'[N + 1] = layer
  BY <1>1, <1>2, AppendGroup
<1> HIDE DEF N
<1>6. ASSUME NEW n \in JobNames(ir)
      PROVE  indegree[n] - Cardinality(entriesIn(n, layer)) = Cardinality(entriesIn(n, pending \ layer))
  <2>1. indegree[n] = Cardinality(entriesIn(n, pending))
    BY <1>3
  <2> QED
    BY <1>2, <2>1, EntriesSplit
<1>7. indegree' = [n \in JobNames(ir) |-> Cardinality(entriesIn(n, pending \ layer))]
  BY <1>1, <1>6
<1>8. ASSUME NEW n \in layer, NEW i \in DOMAIN deps(n)
      PROVE  \E k \in 1..N : deps(n)[i] \in groups[k]
  <2>1. n \in JobNames(ir) /\ indegree[n] = 0
    BY <1>2, <1>3 DEF layer
  <2>2. Cardinality(entriesIn(n, pending)) = 0
    BY <1>3, <2>1
  <2>3. entriesIn(n, pending) = {}
    BY <2>1, <2>2, EntriesSplit
  <2>4. deps(n)[i] \notin pending
    BY <2>3 DEF entriesIn
  <2> QED
    BY <1>3, <1>4, <2>1, <2>4
<1>9. ASSUME NEW k \in 1..(N + 1), NEW n \in groups'[k], NEW i \in DOMAIN deps(n)
      PROVE  \E m \in 1..(k - 1) : deps(n)[i] \in groups'[m]
  <2>1. CASE k = N + 1
    <3>1. PICK m \in 1..N : deps(n)[i] \in groups[m]
      BY <1>5, <1>8, <2>1
    <3>2. m \in 1..(k - 1)
      BY <1>4, <2>1
    <3> QED
      BY <1>5, <3>1, <3>2
  <2>2. CASE k \in 1..N
    <3>1. k \in DOMAIN groups /\ n \in groups[k]
      BY <1>4, <1>5, <2>2
    <3>2. PICK m \in 1..(k - 1) : deps(n)[i] \in groups[m]
      BY <1>3, <3>1 DEF LayersRespectDependencies
    <3>3. m \in 1..N
      BY <1>4, BelowIsBefore
    <3> QED
      BY <1>5, <3>2, <3>3
  <2> QED
    BY <1>4, <2>1, <2>2, LastOrBefore
<1>10. LayersRespectDependencies'
  <2>1. ASSUME NEW k \in DOMAIN groups', NEW n \in groups'[k], NEW i \in DOMAIN deps(n)'
        PROVE  \E m \in 1..(k - 1) : deps(n)'[i] \in groups'[m]
    <3>1. deps(n)' = deps(n)
      BY <1>1, SamePipeline
    <3> QED
      BY <1>5, <1>9, <3>1
  <2> QED
    BY <2>1 DEF LayersRespectDependencies
<1>11. ASSUME NEW n \in JobNames(ir), n \notin pending'
       PROVE  \E k \in DOMAIN groups' : n \in groups'[k]
  <2>1. CASE n \in layer
    <3>1. N + 1 \in DOMAIN groups'
      BY <1>4, <1>5
    <3> QED
      BY <1>5, <2>1, <3>1
  <2>2. CASE n \notin pending
    <3>1. PICK k \in 1..N : n \in groups[k]
      BY <1>3, <1>4, <2>2
    <3>2. k \in DOMAIN groups'
      BY <1>4, <1>5
    <3> QED
      BY <1>5, <3>1, <3>2
  <2> QED
    BY <1>1, <1>11, <2>1, <2>2
<1>12. ASSUME NEW k \in 1..(N + 1)
       PROVE  groups'[k] \subseteq JobNames(ir) \ pending'
  <2>1. CASE k = N + 1
    BY <1>1, <1>2, <1>3, <1>5, <2>1
  <2>2. CASE k \in 1..N
    BY <1>1, <1>3, <1>4, <1>5, <2>2
  <2> QED
    BY <1>4, <2>1, <2>2, LastOrBefore
<1>13. ASSUME NEW k \in 1..(N + 1), NEW m \in 1..(N + 1), groups'[k] \cap groups'[m] # {}
       PROVE  k = m
  <2>1. \A j \in 1..N : groups[j] \cap layer = {}
    BY <1>2, <1>3, <1>4
  <2>2. CASE k = N + 1 /\ m \in 1..N
    BY <1>5, <1>13, <2>1, <2>2
  <2>3. CASE k \in 1..N /\ m = N + 1
    BY <1>5, <1>13, <2>1, <2>3
  <2>4. CASE k \in 1..N /\ m \in 1..N
    BY <1>3, <1>4, <1>5, <1>13, <2>4
  <2>5. (k = N + 1 \/ k \in 1..N) /\ (m = N + 1 \/ m \in 1..N)
    BY <1>4, LastOrBefore
  <2> QED
    BY <2>2, <2>3, <2>4, <2>5
<1> QED
  <2>1. \A n \in JobNames(ir) : n \in pending' \/ \E k \in DOMAIN groups' : n \in groups'[k]
    BY <1>11
  <2>2. \A k \in DOMAIN groups' : groups'[k] \subseteq JobNames(ir) \ pending'
    BY <1>5, <1>12
  <2>3. \A k, m \in DOMAIN groups' : groups'[k] \cap groups'[m] # {} => k = m
    BY <1>5, <1>13
  <2>4. pending' \subseteq JobNames(ir)
    BY <1>1, <1>3
  <2>5. indegree' = [n \in JobNames(ir) |-> Cardinality(entriesIn(n, pending'))]
    BY <1>1, <1>7
  <2>6. JobNames(ir)' = JobNames(ir) /\ \A n : deps(n)' = deps(n)
    BY <1>1, SamePipeline
  <2>7. (indegree = [n \in JobNames(ir) |-> Cardinality(entriesIn(n, pending))])'
    BY <2>5, <2>6 DEF entriesIn
  <2>8. (\A n \in JobNames(ir) : \A i \in DOMAIN deps(n) : deps(n)[i] \in JobNames(ir))'
    BY <1>3, <2>6
  <2> QED
    BY <1>1, <1>10, <2>1, <2>2, <2>3, <2>4, <2>6, <2>7, <2>8 DEF ScheduleInv, Layered

\* One step of Schedule keeps its invariant (schedule.go:31-92).
LEMMA ScheduleStepKeepsInv ==
  ASSUME ir \in IRs, pending \subseteq Names, groups \in Seq(SUBSET Names),
         ScheduleInv, ScheduleStep
  PROVE  ScheduleInv'
BY IndexJobsKeepsInv, CountDependenciesKeepsInv, AppendLayerKeepsInv, FinishScheduleKeepsInv
   DEF ScheduleStep

-----------------------------------------------------------------------------
LEMMA PipelineNames ==
  ASSUME ir \in IRs
  PROVE  JobNames(ir) \subseteq Names
BY IRsAssumption DEF JobNames

LEMMA ScheduleStepKeepsTypes ==
  ASSUME TypeOK, ScheduleStep
  PROVE  /\ ir' = ir
         /\ sched' \in {"called", "indexed", "layering", "done"} \cup ScheduleErrors
         /\ pending' \subseteq Names
         /\ groups' \in Seq(SUBSET Names)
         /\ Len(groups') >= Len(groups)
<1> USE DEF ScheduleErrors
<1>0. Len(groups) \in Nat
  BY DEF TypeOK
<1>1. CASE IndexJobs
  <2>1. ir' = ir /\ groups' = groups
    BY <1>1 DEF IndexJobs
  <2>2. pending' \subseteq Names
    BY <1>1, PipelineNames DEF IndexJobs, TypeOK
  <2>3. sched' \in {"indexed", "duplicate_job"}
    BY <1>1 DEF IndexJobs
  <2> QED
    BY <1>0, <2>1, <2>2, <2>3 DEF TypeOK
<1>2. CASE CountDependencies
  <2>1. ir' = ir /\ groups' = groups /\ pending' = pending
    BY <1>2 DEF CountDependencies
  <2>2. sched' \in {"layering", "unknown_dependency"}
    BY <1>2 DEF CountDependencies
  <2> QED
    BY <1>0, <2>1, <2>2 DEF TypeOK
<1>3. CASE AppendLayer
  <2>1. layer \in SUBSET Names
    BY DEF layer, TypeOK
  <2> QED
    BY <1>3, <2>1 DEF AppendLayer, TypeOK
<1>4. CASE FinishSchedule
  BY <1>4 DEF FinishSchedule, TypeOK
<1> QED
  BY <1>1, <1>2, <1>3, <1>4 DEF ScheduleStep

\* The jobs that hold a slot are finitely many, so they can be counted.
LEMMA HoldersAreFinite == IsFiniteSet(Holders)
<1>1. Holders \subseteq Names
  BY DEF Holders
<1> QED
  BY <1>1, NamesAssumption, FS_Subset

\* Every step keeps the types; a slot is released by a job that holds one.
LEMMA TypeStep ==
  ASSUME TypeOK, SlotInv, [Next]_vars
  PROVE  TypeOK'
<1>1. CASE ValidateIR
  BY <1>1 DEF TypeOK, ValidateIR, Return, Errors, schedVars, runVars
<1>2. CASE CallSchedule
  <2>1. UNCHANGED execVars /\ ScheduleStep
    BY <1>2 DEF CallSchedule
  <2>2. g' \in 0..Len(groups')
    BY <2>1, ScheduleStepKeepsTypes DEF TypeOK, execVars
  <2> QED
    BY <2>1, <2>2, ScheduleStepKeepsTypes DEF TypeOK, execVars, runVars
<1>3. CASE ScheduleReturns
  BY <1>3 DEF TypeOK, ScheduleReturns, Return, Errors, schedVars, runVars
<1>4. CASE BeginGroup
  BY <1>4 DEF TypeOK, BeginGroup, Locations, schedVars
<1>5. CASE AbortRun
  BY <1>5 DEF TypeOK, AbortRun, Return, schedVars, runVars
<1>6. CASE FinishRun
  BY <1>6 DEF TypeOK, FinishRun, Return, Errors, schedVars, runVars
<1>7. ASSUME NEW n \in Names, Goroutine(n) PROVE TypeOK'
  <2>1. CASE AcquireSlot(n)
    BY <2>1 DEF TypeOK, AcquireSlot, Locations, schedVars
  <2>2. CASE GiveUp(n)
    BY <2>2 DEF TypeOK, GiveUp, Locations, schedVars
  <2>3. ASSUME NEW status \in {"succeeded", "failed"}, RunnerReturns(n, status) PROVE TypeOK'
    BY <2>3 DEF TypeOK, RunnerReturns, Locations, schedVars
  <2>4. CASE ReleaseSlot(n)
    <3>1. n \in Holders
      BY <2>4 DEF ReleaseSlot, Holders
    <3>2. Cardinality(Holders \ {n}) = Cardinality(Holders) - 1
      BY <3>1, HoldersAreFinite, FS_RemoveElement
    <3>3. IsFiniteSet(Holders \ {n})
      BY HoldersAreFinite, FS_RemoveElement
    <3>4. Cardinality(Holders \ {n}) \in Nat
      BY <3>3, FS_CardinalityType
    <3>5. sem' \in Nat
      BY <2>4, <3>2, <3>4 DEF ReleaseSlot, SlotInv
    <3> QED
      BY <2>4, <3>5 DEF TypeOK, ReleaseSlot, Locations, schedVars
  <2>5. CASE ReportToGroup(n)
    BY <2>5 DEF TypeOK, ReportToGroup, Locations, Errors, schedVars
  <2> QED
    BY <1>7, <2>1, <2>2, <2>3, <2>4, <2>5 DEF Goroutine
<1>8. CASE CallerCancel
  BY <1>8 DEF TypeOK, CallerCancel, schedVars
<1>9. CASE UNCHANGED vars
  BY <1>9 DEF TypeOK, vars, execVars, runVars, schedVars
<1> QED
  BY <1>1, <1>2, <1>3, <1>4, <1>5, <1>6, <1>7, <1>8, <1>9 DEF Next, MainStep, Done

-----------------------------------------------------------------------------
\* A step of Execute keeps what is known of Schedule.
LEMMA ScheduleInvStep ==
  ASSUME TypeOK, ScheduleInv, [Next]_vars
  PROVE  ScheduleInv'
<1>1. CASE ScheduleStep
  BY <1>1, ScheduleStepKeepsInv DEF TypeOK
<1>2. CASE UNCHANGED schedVars
  BY <1>2, UnchangedKeepsInv
<1>3. ScheduleStep \/ UNCHANGED schedVars
  BY DEF Next, MainStep, ValidateIR, CallSchedule, ScheduleReturns, BeginGroup, AbortRun, FinishRun,
         Goroutine, AcquireSlot, GiveUp, RunnerReturns, ReleaseSlot, ReportToGroup, CallerCancel,
         Done, vars
<1> QED
  BY <1>1, <1>2, <1>3

\* Every step keeps the count of the slots (worker_pool.go:16-31).
LEMMA SlotStep ==
  ASSUME TypeOK, SlotInv, NoStrayGoroutines, [Next]_vars
  PROVE  SlotInv'
<1>1. ASSUME UNCHANGED <<pc, sem>> PROVE SlotInv'
  BY <1>1 DEF SlotInv, Holders
<1>2. CASE BeginGroup
  <2>1. \A n \in Names : pc[n] \notin {"running", "recorded"}
    BY <1>2 DEF BeginGroup, groupOver, NoStrayGoroutines
  <2>2. \A n \in Names : pc'[n] \notin {"running", "recorded"}
    BY <1>2, <2>1 DEF BeginGroup
  <2>3. Holders' = {}
    BY <2>2 DEF Holders
  <2> QED
    <3>1. Cardinality(Holders') = 0
      BY <2>3, FS_EmptySet
    <3> QED
      BY <1>2, <3>1, ExecutorAssumption DEF BeginGroup, SlotInv
<1>3. ASSUME NEW n \in Names, AcquireSlot(n) PROVE SlotInv'
  <2>1. Holders' = Holders \cup {n} /\ n \notin Holders
    BY <1>3 DEF AcquireSlot, Holders, TypeOK
  <2>2. Cardinality(Holders \cup {n}) = Cardinality(Holders) + 1
    BY <2>1, HoldersAreFinite, FS_AddElement
  <2>3. Parallelism > 0 => sem + 1 <= Parallelism
    <3>1. current \subseteq Names
      BY <1>3 DEF AcquireSlot, current, TypeOK
    <3>2. IsFiniteSet(current)
      BY <3>1, NamesAssumption, FS_Subset
    <3>3. Cardinality(current) \in Nat
      BY <3>2, FS_CardinalityType
    <3> QED
      BY <1>3, <3>3, ExecutorAssumption DEF AcquireSlot, limit, TypeOK
  <2> QED
    BY <1>3, <2>1, <2>2, <2>3 DEF AcquireSlot, SlotInv
<1>4. ASSUME NEW n \in Names, RunnerReturns(n, "succeeded") \/ RunnerReturns(n, "failed")
      PROVE  SlotInv'
  <2>1. Holders' = Holders /\ sem' = sem
    BY <1>4 DEF RunnerReturns, Holders, TypeOK
  <2> QED
    BY <2>1 DEF SlotInv
<1>5. ASSUME NEW n \in Names, GiveUp(n) \/ ReportToGroup(n) PROVE SlotInv'
  <2>1. Holders' = Holders /\ sem' = sem
    BY <1>5 DEF GiveUp, ReportToGroup, Holders, TypeOK
  <2> QED
    BY <2>1 DEF SlotInv
<1>6. ASSUME NEW n \in Names, ReleaseSlot(n) PROVE SlotInv'
  <2>1. Holders' = Holders \ {n} /\ n \in Holders
    BY <1>6 DEF ReleaseSlot, Holders, TypeOK
  <2>2. Cardinality(Holders \ {n}) = Cardinality(Holders) - 1
    BY <2>1, HoldersAreFinite, FS_RemoveElement
  <2> QED
    BY <1>6, <2>1, <2>2, ExecutorAssumption DEF ReleaseSlot, SlotInv, TypeOK
<1>7. CASE MainStep
  <2>1. BeginGroup \/ UNCHANGED <<pc, sem>>
    BY <1>7 DEF MainStep, ValidateIR, CallSchedule, ScheduleReturns, AbortRun, FinishRun, execVars, runVars
  <2> QED
    BY <1>1, <1>2, <2>1
<1>8. CASE CallerCancel \/ UNCHANGED vars
  BY <1>1, <1>8 DEF CallerCancel, vars, execVars, runVars
<1> QED
  BY <1>3, <1>4, <1>5, <1>6, <1>7, <1>8 DEF Next, Done, Goroutine

-----------------------------------------------------------------------------
\* Every step keeps the history of the groups (executor.go:149-196).
LEMMA RunStep ==
  ASSUME TypeOK, ScheduleInv, RunInv, [Next]_vars
  PROVE  RunInv'
<1> USE DEF RunInv, NoStrayGoroutines, current
<1>1. CASE ValidateIR
  BY <1>1 DEF ValidateIR, Return, schedVars, runVars
<1>2. CASE CallSchedule
  <2>1. phase = "scheduling" /\ UNCHANGED execVars
    BY <1>2 DEF CallSchedule
  <2>2. g = 0 /\ \A n \in Names : pc[n] = "idle"
    BY <2>1 DEF TypeOK
  <2> QED
    BY <2>1, <2>2 DEF execVars, runVars
<1>3. CASE ScheduleReturns
  BY <1>3 DEF ScheduleReturns, Return, schedVars, runVars
<1>4. CASE BeginGroup
  <2>1. /\ phase = "running" /\ phase' = "running" /\ sched = "done" /\ sched' = "done"
        /\ groupErr = NoErr /\ g \in Nat /\ g' = g + 1 /\ g + 1 \in DOMAIN groups
        /\ UNCHANGED <<groups, jobErr, recorded, groupErr>>
        /\ pc' = [n \in Names |-> IF n \in groups[g + 1] THEN "waiting" ELSE pc[n]]
    BY <1>4 DEF BeginGroup, schedVars, TypeOK
  <2>2. \A n \in Names : pc[n] \in {"idle", "gone"}
    BY <1>4 DEF BeginGroup, groupOver, TypeOK, Locations
  <2>3. \A k \in 1..g : \A n \in groups[k] :
          pc[n] = "gone" /\ recorded[n] = "succeeded" /\ n \in Names
    <3>1. SUFFICES ASSUME NEW k \in 1..g, NEW n \in groups[k]
                   PROVE  pc[n] = "gone" /\ recorded[n] = "succeeded" /\ n \in Names
      OBVIOUS
    <3>2. n \in Names
      BY <2>1 DEF TypeOK
    <3>3. CASE k < g
      BY <3>2, <3>3
    <3>4. CASE k = g
      <4>1. pc[n] = "gone"
        BY <1>4, <2>1, <3>4 DEF BeginGroup, groupOver
      <4> QED
        BY <2>1, <3>2, <4>1
    <3> QED
      BY <2>1, <3>3, <3>4
  <2>4. \A k \in 1..g : \A n \in groups[k] : n \notin groups[g + 1]
    <3>1. SUFFICES ASSUME NEW k \in 1..g, NEW n \in groups[k], n \in groups[g + 1] PROVE FALSE
      OBVIOUS
    <3>2. \A j, m \in DOMAIN groups : groups[j] \cap groups[m] # {} => j = m
      BY <2>1 DEF ScheduleInv, Layered
    <3>3. k \in DOMAIN groups /\ k # g + 1
      BY <2>1 DEF TypeOK
    <3>4. groups[k] \cap groups[g + 1] # {}
      BY <3>1
    <3> QED
      BY <2>1, <3>2, <3>3, <3>4
  <2>5. \A n \in groups[g + 1] : n \in Names /\ pc[n] = "idle" /\ recorded[n] = "none"
    <3>1. \A n \in groups[g + 1] : n \in Names
      BY <2>1 DEF TypeOK
    <3>2. \A n \in groups[g + 1] : pc[n] = "idle"
      BY <2>4, <3>1
    <3> QED
      BY <3>1, <3>2 DEF TypeOK
  <2>6. (\A k \in 1..g : k < g => \A n \in groups[k] : pc[n] = "gone" /\ recorded[n] = "succeeded")'
    <3>1. SUFFICES ASSUME NEW k \in 1..(g + 1), k < g + 1, NEW n \in groups[k]
                   PROVE  pc'[n] = "gone" /\ recorded'[n] = "succeeded"
      BY <2>1
    <3>2. k \in 1..g
      BY <2>1, <3>1
    <3> QED
      BY <2>1, <2>3, <2>4, <3>2
  <2>7. (\A n \in Names : pc[n] # "idle" => \E k \in 1..g : n \in groups[k])'
    <3>1. SUFFICES ASSUME NEW n \in Names, pc'[n] # "idle"
                   PROVE  \E k \in 1..(g + 1) : n \in groups[k]
      BY <2>1
    <3>2. CASE n \in groups[g + 1]
      BY <2>1, <3>2
    <3>3. CASE n \notin groups[g + 1]
      <4>1. PICK k \in 1..g : n \in groups[k]
        BY <2>1, <3>1, <3>3
      <4>2. k \in 1..(g + 1)
        BY <2>1
      <4> QED
        BY <4>1, <4>2
    <3> QED
      BY <3>2, <3>3
  <2>8. NoStrayGoroutines'
    BY <2>1, <2>2
  <2> QED
    BY <2>1, <2>2, <2>5, <2>6, <2>7, <2>8
<1>5. CASE AbortRun \/ FinishRun
  BY <1>5 DEF AbortRun, FinishRun, Return, groupOver, schedVars, runVars, TypeOK
<1>6. ASSUME NEW n \in Names, AcquireSlot(n) PROVE RunInv'
  BY <1>6 DEF AcquireSlot, TypeOK, schedVars
<1>7. ASSUME NEW n \in Names, GiveUp(n) PROVE RunInv'
  BY <1>7 DEF GiveUp, TypeOK, schedVars
<1>8. ASSUME NEW n \in Names, NEW status \in {"succeeded", "failed"}, RunnerReturns(n, status)
      PROVE  RunInv'
  BY <1>8 DEF RunnerReturns, TypeOK, schedVars
<1>9. ASSUME NEW n \in Names, ReleaseSlot(n) PROVE RunInv'
  BY <1>9 DEF ReleaseSlot, TypeOK, schedVars
<1>10. ASSUME NEW n \in Names, ReportToGroup(n) PROVE RunInv'
  <2>1. JobFailed(n) # NoErr /\ Canceled # NoErr
    BY DEF JobFailed, NoErr, Canceled
  <2> QED
    BY <1>10, <2>1 DEF ReportToGroup, TypeOK, schedVars
<1>11. CASE CallerCancel \/ UNCHANGED vars
  BY <1>11 DEF CallerCancel, vars, execVars, runVars, schedVars
<1> QED
  BY <1>1, <1>2, <1>3, <1>4, <1>5, <1>6, <1>7, <1>8, <1>9, <1>10, <1>11
    DEF Next, MainStep, Done, Goroutine

-----------------------------------------------------------------------------
Inv == TypeOK /\ ScheduleInv /\ RunInv /\ SlotInv

LEMMA InitInv == ASSUME Init PROVE Inv
<1> USE DEF Init, InitSchedule
<1>1. \A n \in Names : pc[n] = "idle" /\ jobErr[n] = "none" /\ recorded[n] = "none"
  OBVIOUS
<1>2. TypeOK
  <2>1. groups \in Seq(SUBSET Names) /\ Len(groups) = 0
    BY EmptySeq
  <2> QED
    <3>1. pc \in [Names -> Locations]
      BY DEF Locations
    <3>2. jobErr \in [Names -> {"none", "failed", "canceled"}]
      OBVIOUS
    <3>3. recorded \in [Names -> {"none", "succeeded", "failed"}]
      OBVIOUS
    <3>4. g \in 0..Len(groups)
      BY <2>1
    <3> QED
      BY <2>1, <3>1, <3>2, <3>3, <3>4 DEF TypeOK, Errors
<1>3. ScheduleInv
  BY DEF ScheduleInv, Layered
<1>4. RunInv
  BY <1>1 DEF RunInv, NoStrayGoroutines
<1>5. SlotInv
  <2>1. Holders = {}
    BY <1>1 DEF Holders
  <2>2. Cardinality(Holders) = 0
    BY <2>1, FS_EmptySet
  <2> QED
    BY <2>2, ExecutorAssumption DEF SlotInv
<1> QED
  BY <1>2, <1>3, <1>4, <1>5 DEF Inv

LEMMA StepInv == ASSUME Inv, [Next]_vars PROVE Inv'
<1>1. TypeOK'
  BY TypeStep DEF Inv
<1>2. ScheduleInv'
  BY ScheduleInvStep DEF Inv
<1>3. RunInv'
  BY RunStep DEF Inv
<1>4. SlotInv'
  BY SlotStep DEF Inv, RunInv
<1> QED
  BY <1>1, <1>2, <1>3, <1>4 DEF Inv

\* The inductive invariant holds of every reachable state.
THEOREM InvHolds == Spec => []Inv
<1>1. Init => Inv
  BY InitInv
<1>2. Inv /\ [Next]_vars => Inv'
  BY StepInv
<1> QED
  BY <1>1, <1>2, PTL DEF Spec

\* Execute and Schedule (executor.go:91-197, schedule.go:21-93) keep the types
\* of their variables.
THEOREM TypeCorrect == Spec => []TypeOK
BY InvHolds, PTL DEF Inv

\* No job is inside terraform before every job it depends on has run and
\* succeeded (executor.go:154-193): its group is begun, so its dependencies are
\* in groups that have succeeded.
THEOREM DependenciesFirst == Spec => []StartedAfterDependencies
<1>1. Inv => StartedAfterDependencies
  <2>1. SUFFICES ASSUME Inv, NEW n \in Names, Started(n), NEW i \in DOMAIN deps(n)
                 PROVE  recorded[deps(n)[i]] = "succeeded"
    BY DEF StartedAfterDependencies
  <2>2. pc[n] # "idle"
    BY <2>1 DEF Started, Inv, RunInv
  <2>3. PICK k \in 1..g : n \in groups[k]
    BY <2>1, <2>2 DEF Inv, RunInv
  <2>4. k \in DOMAIN groups /\ g \in Nat
    BY <2>1, <2>3 DEF Inv, TypeOK
  <2>5. LayersRespectDependencies
    BY <2>1, <2>4 DEF Inv, ScheduleInv, LayersRespectDependencies
  <2>6. PICK m \in 1..(k - 1) : deps(n)[i] \in groups[m]
    BY <2>1, <2>3, <2>4, <2>5 DEF LayersRespectDependencies
  <2>7. m \in 1..g /\ m < g
    BY <2>3, <2>4, <2>6
  <2> QED
    BY <2>1, <2>6, <2>7 DEF Inv, RunInv
<1> QED
  BY <1>1, InvHolds, PTL

\* Nothing of Execute is left behind (worker_pool.go:43): every goroutine that
\* is alive belongs to the group being run.
THEOREM NothingLeftBehind == Spec => []NoStrayGoroutines
BY InvHolds, PTL DEF Inv, RunInv

\* The semaphore does what WithParallelism says (executor.go:74): its count is
\* the number of jobs holding a slot.
THEOREM Bounded == Spec => []AtMostParallelism
<1>1. Inv => AtMostParallelism
  <2>1. {n \in Names : pc[n] = "running"} \subseteq Holders
    BY DEF Holders
  <2>2. Cardinality({n \in Names : pc[n] = "running"}) <= Cardinality(Holders)
    BY <2>1, HoldersAreFinite, FS_Subset
  <2>3. Cardinality({n \in Names : pc[n] = "running"}) \in Nat
    BY <2>1, HoldersAreFinite, FS_Subset, FS_CardinalityType
  <2>4. Cardinality(Holders) \in Nat
    BY HoldersAreFinite, FS_CardinalityType
  <2> QED
    BY <2>2, <2>3, <2>4, ExecutorAssumption DEF Inv, SlotInv, AtMostParallelism
<1> QED
  BY <1>1, InvHolds, PTL

\* Schedule loses no job and schedules none twice (schedule.go:70-78, 82), in
\* every run of Execute.
THEOREM EveryJobOnce == Spec => []GroupsPartitionJobs
<1>1. Inv => GroupsPartitionJobs
  <2> SUFFICES ASSUME Inv, sched \in Layered PROVE GroupsPartitionJobs
    BY DEF GroupsPartitionJobs, Layered
  <2>1. \A S \in ToSet(groups) : \E k \in DOMAIN groups : S = groups[k]
    BY DEF ToSet
  <2>2. \A k \in DOMAIN groups : groups[k] \in ToSet(groups)
    BY DEF ToSet
  <2>3. Scheduled \subseteq JobNames(ir) \ pending
    BY <2>1 DEF Scheduled, Inv, ScheduleInv
  <2>4. JobNames(ir) \subseteq pending \cup Scheduled
    BY <2>2 DEF Scheduled, Inv, ScheduleInv
  <2>5. pending \subseteq JobNames(ir)
    BY DEF Inv, ScheduleInv
  <2> QED
    BY <2>3, <2>4, <2>5 DEF Inv, ScheduleInv, GroupsPartitionJobs
<1> QED
  BY <1>1, InvHolds, PTL

\* Once a job has failed Execute begins no further group (executor.go:191-193):
\* the failed job has left its group with an error, and group.Wait returned it.
THEOREM FailFast == Spec => NoGroupAfterFailure
<1>1. Inv /\ [Next]_vars => [g' # g => \A n \in Names : recorded[n] # "failed"]_vars
  <2> SUFFICES ASSUME Inv, [Next]_vars, g' # g, NEW n \in Names, recorded[n] = "failed"
               PROVE  FALSE
    OBVIOUS
  <2>1. BeginGroup
    BY DEF Next, MainStep, Goroutine, ValidateIR, CallSchedule, ScheduleReturns, AbortRun,
       FinishRun, Return, AcquireSlot, GiveUp, RunnerReturns, ReleaseSlot, ReportToGroup,
       CallerCancel, Done, vars, execVars
  <2>2. groupOver /\ groupErr = NoErr
    BY <2>1 DEF BeginGroup
  <2>3. pc[n] \in {"recorded", "leaving", "gone"}
    BY DEF Inv, RunInv
  <2>4. PICK k \in 1..g : n \in groups[k]
    BY <2>3 DEF Inv, RunInv
  <2>5. k = g
    <3>1. g \in Nat
      BY DEF Inv, TypeOK
    <3>2. ~(k < g)
      BY <2>4 DEF Inv, RunInv
    <3> QED
      BY <3>1, <3>2
  <2>6. pc[n] = "gone"
    BY <2>2, <2>4, <2>5 DEF groupOver, current
  <2>7. jobErr[n] # "none"
    BY <2>3 DEF Inv, RunInv
  <2> QED
    BY <2>2, <2>6, <2>7 DEF Inv, RunInv
<1> QED
  BY <1>1, InvHolds, PTL DEF Spec, NoGroupAfterFailure

-----------------------------------------------------------------------------
(* Layers                                                                    *)

\* A job that is still pending and has no pending dependency has lost the last
\* of them to the last group.
ReadySince ==
  sched = "layering" /\ groups # <<>> =>
    \A n \in pending : indegree[n] = 0 =>
      \E i \in DOMAIN deps(n) : deps(n)[i] \in groups[Len(groups)]

EachBehindADependency ==
  \A k \in DOMAIN groups : \A n \in groups[k] :
    k > 1 => \E i \in DOMAIN deps(n) : deps(n)[i] \in groups[k-1]

TightInv == ReadySince /\ EachBehindADependency

LEMMA TightWithoutAppend ==
  ASSUME TypeOK, ScheduleInv, TightInv, ir' = ir, groups' = groups, pending' \subseteq pending,
         sched' = "layering" => groups = <<>> \/ (sched = "layering" /\ indegree' = indegree)
  PROVE  TightInv'
<1>1. \A n : deps(n)' = deps(n)
  BY SamePipeline
<1> QED
  BY <1>1 DEF TightInv, ReadySince, EachBehindADependency

LEMMA TightAppend ==
  ASSUME TypeOK, ScheduleInv, TightInv, AppendLayer
  PROVE  TightInv'
<1> DEFINE N == Len(groups)
<1>1. /\ sched = "layering" /\ sched' = "layering" /\ ir' = ir
      /\ groups' = Append(groups, layer) /\ pending' = pending \ layer
      /\ indegree' = [n \in JobNames(ir) |-> indegree[n] - Cardinality(entriesIn(n, layer))]
  BY DEF AppendLayer
<1>2. layer \subseteq pending /\ layer \in SUBSET Names /\ groups \in Seq(SUBSET Names)
  BY DEF layer, TypeOK
<1>3. /\ N \in Nat /\ DOMAIN groups = 1..N /\ DOMAIN groups' = 1..(N + 1)
      /\ \A k \in 1..N : groups'[k] = groups[k]
      /\ groups'[N + 1] = layer /\ Len(groups') = N + 1
  BY <1>1, <1>2, AppendGroup
<1>4. /\ pending \subseteq JobNames(ir)
      /\ indegree = [n \in JobNames(ir) |-> Cardinality(entriesIn(n, pending))]
  BY <1>1 DEF ScheduleInv, Layered
<1>5. \A n : deps(n)' = deps(n)
  BY <1>1, SamePipeline
<1> HIDE DEF N
<1>6. ReadySince'
  <2>1. SUFFICES ASSUME NEW n \in pending, n \notin layer, indegree'[n] = 0
                 PROVE  \E i \in DOMAIN deps(n) : deps(n)[i] \in layer
    BY <1>1, <1>3, <1>5 DEF ReadySince
  <2>2. n \in JobNames(ir) /\ indegree[n] # 0
    BY <1>4, <2>1 DEF layer
  <2>3. indegree'[n] = indegree[n] - Cardinality(entriesIn(n, layer))
    BY <1>1, <2>2
  <2>4. indegree[n] \in Nat
    <3>1. Cardinality(entriesIn(n, pending)) \in Nat
      BY <1>2, <2>2, EntriesSplit DEF TypeOK
    <3> QED
      BY <1>4, <2>2, <3>1
  <2>5. Cardinality(entriesIn(n, layer)) # 0
    <3>1. Cardinality(entriesIn(n, layer)) \in Nat
      BY <2>2, EntriesSplit DEF TypeOK
    <3> QED
      BY <2>1, <2>2, <2>3, <2>4, <3>1
  <2>6. entriesIn(n, layer) # {}
    BY <2>5, FS_EmptySet
  <2> QED
    BY <2>6 DEF entriesIn
<1>7. EachBehindADependency'
  <2>1. SUFFICES ASSUME NEW k \in 1..(N + 1), NEW n \in groups'[k], k > 1
                 PROVE  \E i \in DOMAIN deps(n) : deps(n)[i] \in groups'[k-1]
    BY <1>3, <1>5 DEF EachBehindADependency
  <2>2. k - 1 \in 1..N
    BY <1>3, <2>1
  <2>3. CASE k = N + 1
    <3>1. n \in pending /\ indegree[n] = 0
      BY <1>3, <2>1, <2>3 DEF layer
    <3>2. groups # <<>>
      BY <1>3, <2>2
    <3>3. \E i \in DOMAIN deps(n) : deps(n)[i] \in groups[N]
      BY <1>1, <3>1, <3>2 DEF TightInv, ReadySince, N
    <3> QED
      BY <1>3, <2>2, <2>3, <3>3
  <2>4. CASE k \in 1..N
    <3>1. n \in groups[k]
      BY <1>3, <2>1, <2>4
    <3>2. \E i \in DOMAIN deps(n) : deps(n)[i] \in groups[k-1]
      BY <1>3, <2>1, <2>4, <3>1 DEF TightInv, EachBehindADependency
    <3> QED
      BY <1>3, <2>2, <3>2
  <2> QED
    BY <1>3, <2>3, <2>4, LastOrBefore
<1> QED
  BY <1>6, <1>7 DEF TightInv

LEMMA TightStep ==
  ASSUME TypeOK, ScheduleInv, TightInv, [Next]_vars
  PROVE  TightInv'
<1>1. CASE IndexJobs
  <2>1. groups = <<>>
    BY <1>1 DEF IndexJobs, ScheduleInv, Layered
  <2>2. ir' = ir /\ groups' = groups
    BY <1>1 DEF IndexJobs
  <2> QED
    BY <2>1, <2>2 DEF TightInv, ReadySince, EachBehindADependency
<1>2. CASE CountDependencies
  <2>1. groups = <<>>
    BY <1>2 DEF CountDependencies, ScheduleInv, Layered
  <2> QED
    BY <1>2, <2>1, TightWithoutAppend DEF CountDependencies
<1>3. CASE AppendLayer
  BY <1>3, TightAppend
<1>4. CASE FinishSchedule
  BY <1>4, TightWithoutAppend DEF FinishSchedule
<1>5. CASE UNCHANGED schedVars
  BY <1>5, TightWithoutAppend DEF schedVars
<1>6. ScheduleStep \/ UNCHANGED schedVars
  BY DEF Next, MainStep, ValidateIR, CallSchedule, ScheduleReturns, BeginGroup, AbortRun, FinishRun,
         Goroutine, AcquireSlot, GiveUp, RunnerReturns, ReleaseSlot, ReportToGroup, CallerCancel,
         Done, vars
<1> QED
  BY <1>1, <1>2, <1>3, <1>4, <1>5, <1>6 DEF ScheduleStep

\* The groups of Schedule are the longest chains of dependencies, so as few as
\* they can be (schedule.go:54-80), in every run of Execute.
THEOREM Tight == Spec => []LayersAreTight
<1>1. Init => TightInv
  BY DEF Init, InitSchedule, TightInv, ReadySince, EachBehindADependency
<1>2. Inv /\ TightInv /\ [Next]_vars => TightInv'
  BY TightStep DEF Inv
<1>3. Inv /\ TightInv => LayersAreTight
  <2>1. Inv => LayersRespectDependencies
    BY DEF Inv, ScheduleInv, LayersRespectDependencies, Layered
  <2> QED
    BY <2>1 DEF LayersAreTight, TightInv, EachBehindADependency
<1> QED
  BY <1>1, <1>2, <1>3, InvHolds, PTL DEF Spec

-----------------------------------------------------------------------------
(* Errors                                                                    *)

Gone(n) == pc[n] = "gone" /\ jobErr[n] # "none"

\* Why a goroutine has an error, why the group has one, and that whoever is told
\* to stop is told by the caller or by the group's first error.
ErrorInv ==
  /\ \A n \in Names : jobErr[n] # "none" => pc[n] \in {"recorded", "leaving", "gone"}
  /\ \A n \in Names : jobErr[n] = "failed" => recorded[n] = "failed"
  /\ \A n \in Names : jobErr[n] = "canceled" => recorded[n] = "none" /\ pc[n] # "recorded"
  /\ \A n \in Names : jobErr[n] = "canceled" /\ pc[n] = "leaving" => runDone
  /\ runDone => ctxDone \/ groupErr # NoErr
  /\ \A n \in Names : groupErr = JobFailed(n) => recorded[n] = "failed"
  /\ groupErr = Canceled => ctxDone
  /\ groupErr # NoErr => \E n \in Names : Gone(n)
  /\ sched = "done" => pending = {}
  /\ sched \in ScheduleErrors => JobNames(ir) # {}

\* What is so when Execute has returned.
ReturnInv ==
  phase = "returned" =>
    /\ \A n \in Names : pc[n] \in {"idle", "gone"}
    /\ retErr = NoErr => \A n \in JobNames(ir) : recorded[n] = "succeeded"
    /\ retErr # NoErr => \E n \in JobNames(ir) : recorded[n] # "succeeded"
    /\ \A n \in Names : retErr = JobFailed(n) => recorded[n] = "failed"
    /\ retErr = Canceled => ctxDone

LEMMA ErrorsDiffer ==
  /\ NoErr # Canceled /\ NoErr # Invalid /\ Canceled # Invalid
  /\ \A n : JobFailed(n) # NoErr /\ JobFailed(n) # Canceled /\ JobFailed(n) # Invalid
  /\ \A n, m : JobFailed(n) = JobFailed(m) => n = m
BY DEF NoErr, Canceled, Invalid, JobFailed

LEMMA ErrorSchedule ==
  ASSUME TypeOK, ScheduleInv, ErrorInv, ScheduleStep
  PROVE  /\ sched' = "done" => pending' = {}
         /\ sched' \in ScheduleErrors => JobNames(ir)' # {}
<1>0. ir' = ir
  BY ScheduleStepKeepsTypes
<1>1. JobNames(ir)' = JobNames(ir)
  BY <1>0, SamePipeline
<1>2. CASE IndexJobs
  <2>1. ~UniqueNames(ir) => JobNames(ir) # {}
    BY DEF UniqueNames, JobNames
  <2> QED
    BY <1>1, <1>2, <2>1 DEF IndexJobs, ScheduleErrors
<1>3. CASE CountDependencies
  BY <1>1, <1>3 DEF CountDependencies, ScheduleErrors
<1>4. CASE AppendLayer
  BY <1>1, <1>4 DEF AppendLayer, ScheduleErrors
<1>5. CASE FinishSchedule
  <2>1. pending \subseteq JobNames(ir)
    BY <1>5 DEF FinishSchedule, ScheduleInv, Layered
  <2> QED
    BY <1>1, <1>5, <2>1 DEF FinishSchedule, ScheduleErrors
<1> QED
  BY <1>2, <1>3, <1>4, <1>5 DEF ScheduleStep

\* Every step keeps the reasons (worker_pool.go:16-43, executor.go:154-197).
LEMMA ErrorStep ==
  ASSUME Inv, ErrorInv, [Next]_vars
  PROVE  ErrorInv'
<1> USE ErrorsDiffer DEF ErrorInv, Gone
<1>0. TypeOK /\ ScheduleInv /\ RunInv
  BY DEF Inv
<1>1. CASE ValidateIR \/ ScheduleReturns \/ AbortRun \/ FinishRun \/ UNCHANGED vars
  <2>1. UNCHANGED <<schedVars, runVars, ctxDone>>
    BY <1>1 DEF ValidateIR, ScheduleReturns, AbortRun, FinishRun, vars, execVars
  <2>2. JobNames(ir)' = JobNames(ir)
    BY <2>1, SamePipeline DEF schedVars
  <2> QED
    BY <2>1, <2>2 DEF schedVars, runVars
<1>2. CASE CallSchedule
  <2>1. UNCHANGED <<runVars, ctxDone>> /\ ScheduleStep
    BY <1>2 DEF CallSchedule, execVars
  <2> QED
    BY <1>0, <2>1, ErrorSchedule DEF runVars
<1>3. JobNames(ir)' = JobNames(ir) \/ CallSchedule
  <2>1. UNCHANGED ir \/ CallSchedule
    BY DEF Next, MainStep, ValidateIR, CallSchedule, ScheduleReturns, BeginGroup, AbortRun, FinishRun,
         Goroutine, AcquireSlot, GiveUp, RunnerReturns, ReleaseSlot, ReportToGroup, CallerCancel,
         Done, vars, schedVars
  <2> QED
    BY <2>1, SamePipeline
<1>4. CASE BeginGroup
  <2>1. /\ groupErr = NoErr /\ groupErr' = NoErr /\ runDone' = ctxDone
        /\ UNCHANGED <<schedVars, jobErr, recorded, ctxDone>>
        /\ \A n \in Names : pc'[n] = "waiting" \/ pc'[n] = pc[n]
    BY <1>4 DEF BeginGroup
  <2>2. \A n \in Names : pc[n] \in {"idle", "gone"}
    BY <1>0, <1>4 DEF BeginGroup, groupOver, RunInv, NoStrayGoroutines, TypeOK, Locations
  <2>3. \A n \in Names : jobErr[n] = "none"
    BY <1>0, <2>1, <2>2 DEF RunInv
  <2>4. \A n \in Names : pc'[n] # "leaving"
    BY <2>1, <2>2
  <2>5. JobNames(ir)' = JobNames(ir)
    BY <2>1, SamePipeline DEF schedVars
  <2> QED
    BY <2>1, <2>3, <2>4, <2>5 DEF schedVars
<1>5. ASSUME NEW n \in Names, AcquireSlot(n) PROVE ErrorInv'
  BY <1>0, <1>3, <1>5 DEF AcquireSlot, TypeOK, schedVars, CallSchedule, execVars, runVars
<1>6. ASSUME NEW n \in Names, GiveUp(n) PROVE ErrorInv'
  <2>1. recorded[n] = "none"
    BY <1>0, <1>6 DEF GiveUp, RunInv, TypeOK
  <2> QED
    BY <1>0, <1>3, <1>6, <2>1 DEF GiveUp, TypeOK, schedVars, CallSchedule, execVars, runVars
<1>7. ASSUME NEW n \in Names, NEW status \in {"succeeded", "failed"}, RunnerReturns(n, status)
      PROVE  ErrorInv'
  <2>1. recorded[n] = "none"
    BY <1>0, <1>7 DEF RunnerReturns, RunInv, TypeOK
  <2> QED
    BY <1>0, <1>3, <1>7, <2>1 DEF RunnerReturns, TypeOK, schedVars, CallSchedule, execVars, runVars
<1>8. ASSUME NEW n \in Names, ReleaseSlot(n) PROVE ErrorInv'
  BY <1>0, <1>3, <1>8 DEF ReleaseSlot, TypeOK, schedVars, CallSchedule, execVars, runVars
<1>9. ASSUME NEW n \in Names, ReportToGroup(n) PROVE ErrorInv'
  BY <1>0, <1>3, <1>9 DEF ReportToGroup, TypeOK, schedVars, CallSchedule, execVars, runVars
<1>10. CASE CallerCancel
  BY <1>0, <1>3, <1>10 DEF CallerCancel, TypeOK, schedVars, CallSchedule, execVars, runVars
<1> QED
  BY <1>1, <1>2, <1>4, <1>5, <1>6, <1>7, <1>8, <1>9, <1>10 DEF Next, MainStep, Done, Goroutine

\* When group.Wait has returned an error, one of the jobs has not succeeded;
\* when the last group has ended without one, all have.
LEMMA GroupEnds ==
  ASSUME Inv, ErrorInv
  PROVE  /\ groupErr # NoErr => \E n \in JobNames(ir) : recorded[n] # "succeeded"
         /\ phase = "running" /\ groupOver /\ groupErr = NoErr /\ g = Len(groups) =>
              \A n \in JobNames(ir) : recorded[n] = "succeeded"
<1>0. TypeOK /\ ScheduleInv /\ RunInv
  BY DEF Inv
<1>1. JobNames(ir) \subseteq Names
  BY <1>0, PipelineNames DEF TypeOK
<1>2. ASSUME groupErr # NoErr PROVE \E n \in JobNames(ir) : recorded[n] # "succeeded"
  <2>1. PICK n \in Names : Gone(n)
    BY <1>2 DEF ErrorInv
  <2>2. PICK k \in 1..g : n \in groups[k]
    BY <1>0, <2>1 DEF Gone, RunInv
  <2>3. k \in DOMAIN groups
    BY <1>0, <2>2 DEF TypeOK
  <2>4. n \in JobNames(ir)
    BY <1>0, <2>2, <2>3 DEF ScheduleInv, Layered
  <2>5. recorded[n] # "succeeded"
    BY <1>0, <2>1 DEF Gone, ErrorInv, TypeOK
  <2> QED
    BY <2>4, <2>5
<1>3. ASSUME phase = "running", groupOver, groupErr = NoErr, g = Len(groups), NEW n \in JobNames(ir)
      PROVE  recorded[n] = "succeeded"
  <2>1. sched = "done" /\ pending = {}
    BY <1>0, <1>3 DEF RunInv, ErrorInv
  <2>2. PICK k \in DOMAIN groups : n \in groups[k]
    BY <1>0, <2>1 DEF ScheduleInv, Layered
  <2>3. k \in 1..g /\ g \in Nat
    BY <1>0, <1>3 DEF TypeOK
  <2>4. CASE k < g
    BY <1>0, <2>2, <2>3, <2>4 DEF RunInv
  <2>5. CASE k = g
    <3>1. pc[n] = "gone"
      BY <1>3, <2>2, <2>3, <2>5 DEF groupOver, current
    <3>2. jobErr[n] = "none"
      BY <1>0, <1>1, <1>3, <3>1 DEF RunInv
    <3> QED
      BY <1>0, <1>1, <3>1, <3>2 DEF RunInv
  <2> QED
    BY <2>3, <2>4, <2>5
<1> QED
  BY <1>2, <1>3

LEMMA AllPendingAtFirst ==
  ASSUME Inv, phase \in {"called", "scheduling"}
  PROVE  \A n \in Names : recorded[n] = "none" /\ pc[n] = "idle"
<1>1. g = 0
  BY DEF Inv, RunInv, TypeOK
<1>2. \A n \in Names : pc[n] = "idle"
  BY <1>1 DEF Inv, RunInv
<1> QED
  BY <1>2 DEF Inv, RunInv, TypeOK

\* IR.Validate accepts a pipeline without jobs (validate.go:15-47).
LEMMA EmptyIsValid ==
  ASSUME JobNames(ir) = {}
  PROVE  Validate(ir)
<1>1. DOMAIN ir = {} /\ ToSet(ir) = {}
  BY DEF JobNames, ToSet
<1>2. validateAcyclicJobs(ir)
  <2> DEFINE root(acc, job) == IF acc.cycle THEN acc ELSE visit(ir)[job.name, acc.marks]
             base == [cycle |-> FALSE, marks |-> [n \in JobNames(ir) |-> "new"]]
             it(f) == [s \in SUBSET DOMAIN ir |->
                         IF s = {} THEN base ELSE LET x == Max(s) IN root(f[s \ {x}], ir[x])]
             iter == CHOOSE f : f = it(f)
  <2>1. FoldLeft(root, base, ir) = iter[DOMAIN ir]
    BY DEF FoldLeft, MapThenFoldSet
  <2>2. \A f : it(f) = [s \in {{}} |-> base]
    BY <1>1
  <2> HIDE DEF it
  <2>3. iter = it(iter)
    BY <2>2
  <2>4. iter[{}] = base
    BY <2>2, <2>3
  <2> QED
    <3> DEFINE out == FoldLeft(root, base, ir)
    <3>1. out = base
      BY <1>1, <2>1, <2>4
    <3>2. base.cycle = FALSE
      OBVIOUS
    <3> HIDE DEF out, base
    <3>3. ~out.cycle
      BY <3>1, <3>2
    <3> QED
      BY <3>3 DEF validateAcyclicJobs, out, base
<1> QED
  BY <1>1, <1>2 DEF Validate, UniqueNames, validateJobEdges, validateResourceClosure, buildResourceIndex

LEMMA ReturnStep ==
  ASSUME Inv, ErrorInv, ReturnInv, [Next]_vars
  PROVE  ReturnInv'
<1> USE ErrorsDiffer
<1>0. TypeOK /\ ScheduleInv /\ RunInv
  BY DEF Inv
<1>1. ASSUME phase' # "returned" PROVE ReturnInv'
  BY <1>1 DEF ReturnInv
<1>2. ASSUME phase = "returned", [Next]_vars PROVE ReturnInv'
  <2>1. \A n \in Names : pc[n] \in {"idle", "gone"}
    BY <1>2 DEF ReturnInv
  <2>2. UNCHANGED vars
    BY <1>2, <2>1 DEF Next, MainStep, ValidateIR, CallSchedule, ScheduleReturns, BeginGroup, AbortRun, FinishRun,
         Goroutine, AcquireSlot, GiveUp, RunnerReturns, ReleaseSlot, ReportToGroup, CallerCancel, Done
  <2>3. JobNames(ir)' = JobNames(ir)
    BY <2>2, SamePipeline DEF vars, schedVars
  <2> QED
    BY <2>2, <2>3 DEF ReturnInv, vars, execVars, runVars
<1>3. ASSUME UNCHANGED <<schedVars, runVars, ctxDone>>, retErr' = Invalid, JobNames(ir) # {},
             phase \in {"called", "scheduling"}
      PROVE  ReturnInv'
  <2>1. \A n \in Names : recorded[n] = "none" /\ pc[n] = "idle"
    BY <1>3, AllPendingAtFirst
  <2>2. JobNames(ir) \subseteq Names
    BY <1>0, PipelineNames DEF TypeOK
  <2>3. JobNames(ir)' = JobNames(ir)
    BY <1>3, SamePipeline DEF schedVars
  <2> QED
    BY <1>3, <2>1, <2>2, <2>3 DEF ReturnInv, runVars
<1>4. CASE ValidateIR /\ phase' = "returned"
  <2>1. ~Validate(ir) /\ retErr' = Invalid /\ phase = "called" /\ UNCHANGED <<schedVars, runVars, ctxDone>>
    BY <1>4 DEF ValidateIR, Return
  <2> QED
    BY <1>3, <2>1, EmptyIsValid
<1>5. CASE ScheduleReturns /\ phase' = "returned"
  <2>1. /\ sched \in ScheduleErrors /\ retErr' = Invalid /\ phase = "scheduling"
        /\ UNCHANGED <<schedVars, runVars, ctxDone>>
    BY <1>5 DEF ScheduleReturns, Return
  <2> QED
    BY <1>3, <2>1 DEF ErrorInv
<1>6. CASE AbortRun \/ FinishRun
  <2>1. \A n \in Names : pc[n] \in {"idle", "gone"}
    BY <1>0, <1>6 DEF AbortRun, FinishRun, groupOver, RunInv, NoStrayGoroutines, TypeOK, Locations
  <2>2. JobNames(ir)' = JobNames(ir)
    BY <1>6, SamePipeline DEF AbortRun, FinishRun, schedVars
  <2>3. CASE AbortRun
    BY <2>1, <2>2, <2>3, GroupEnds DEF AbortRun, Return, ReturnInv, ErrorInv, runVars
  <2>4. CASE FinishRun
    BY <2>1, <2>2, <2>4, GroupEnds DEF FinishRun, Return, ReturnInv, runVars
  <2> QED
    BY <1>6, <2>3, <2>4
<1>7. phase = "returned" \/ phase' # "returned" \/ ValidateIR \/ ScheduleReturns \/ AbortRun \/ FinishRun
  BY DEF Next, MainStep, CallSchedule, BeginGroup, Goroutine, AcquireSlot, GiveUp, RunnerReturns,
         ReleaseSlot, ReportToGroup, CallerCancel, Done, vars, execVars
<1> QED
  BY <1>1, <1>2, <1>4, <1>5, <1>6, <1>7

OutcomeInv == Inv /\ ErrorInv /\ ReturnInv

\* The invariant of Execute's outcome (executor.go:91-197): why each goroutine, the
\* group and Execute itself have the error they have.
THEOREM OutcomeInvHolds == Spec => []OutcomeInv
<1>1. Init => ErrorInv /\ ReturnInv
  BY ErrorsDiffer DEF Init, InitSchedule, ErrorInv, ReturnInv, Gone, ScheduleErrors
<1>2. Inv /\ ErrorInv /\ ReturnInv /\ [Next]_vars => ErrorInv' /\ ReturnInv'
  BY ErrorStep, ReturnStep
<1> QED
  BY <1>1, <1>2, InvHolds, PTL DEF Spec, OutcomeInv

\* The error Execute returns is the truth (executor.go:97-105, 191-197): it is nil
\* exactly when every job of the pipeline has succeeded, a job it names has
\* failed, and it says canceled only when the caller has canceled.
ErrorIsTrue ==
  phase = "returned" =>
    /\ retErr = NoErr <=> \A n \in JobNames(ir) : recorded[n] = "succeeded"
    /\ \A n \in Names : retErr = JobFailed(n) => recorded[n] = "failed"
    /\ retErr = Canceled => ctxDone

\* The error Execute returns (executor.go:97-105, 191-197) is ErrorIsTrue in
\* every run.
THEOREM TrueError == Spec => []ErrorIsTrue
<1>1. OutcomeInv => ErrorIsTrue
  BY DEF OutcomeInv, ReturnInv, ErrorIsTrue
<1> QED
  BY <1>1, OutcomeInvHolds, PTL

-----------------------------------------------------------------------------
(* Execute implements DagRun                                                 *)

LEMMA StatusIs ==
  ASSUME TypeOK, NEW n \in Names
  PROVE  /\ statusBar[n] = "pending" <=> recorded[n] = "none" /\ pc[n] # "running"
         /\ statusBar[n] = "running" <=> recorded[n] = "none" /\ pc[n] = "running"
         /\ statusBar[n] = "succeeded" <=> recorded[n] = "succeeded"
BY DEF statusBar, TypeOK

\* A job that waits for a slot finds its dependencies in groups that have
\* succeeded.
LEMMA WaitingAfterDependencies ==
  ASSUME Inv, NEW n \in Names, pc[n] = "waiting", NEW i \in DOMAIN deps(n)
  PROVE  deps(n)[i] \in Names /\ recorded[deps(n)[i]] = "succeeded"
<1>0. TypeOK /\ ScheduleInv /\ RunInv
  BY DEF Inv
<1>1. PICK k \in 1..g : n \in groups[k]
  BY <1>0 DEF RunInv
<1>2. k \in DOMAIN groups /\ g \in Nat
  BY <1>0, <1>1 DEF TypeOK
<1>3. LayersRespectDependencies
  BY <1>0, <1>2 DEF ScheduleInv, LayersRespectDependencies
<1>4. PICK m \in 1..(k - 1) : deps(n)[i] \in groups[m]
  BY <1>1, <1>2, <1>3 DEF LayersRespectDependencies
<1>5. m \in 1..g /\ m < g /\ m \in DOMAIN groups
  BY <1>0, <1>1, <1>2, <1>4 DEF TypeOK
<1> QED
  BY <1>0, <1>4, <1>5 DEF RunInv, TypeOK

LEMMA SlotLeft ==
  ASSUME Inv, NEW n \in Names, AcquireSlot(n), Parallelism > 0
  PROVE  Cardinality(Abstract!Running) < Parallelism
<1>0. TypeOK /\ SlotInv
  BY DEF Inv
<1>1. Abstract!Running \subseteq Holders
  BY <1>0, StatusIs DEF Abstract!Running, Holders
<1>2. Cardinality(Abstract!Running) <= Cardinality(Holders)
  BY <1>1, HoldersAreFinite, FS_Subset
<1>3. Cardinality(Abstract!Running) \in Nat /\ Cardinality(Holders) \in Nat
  BY <1>1, HoldersAreFinite, FS_Subset, FS_CardinalityType
<1>4. Cardinality(current) \in Nat
  <2>1. current \subseteq Names
    BY <1>0 DEF AcquireSlot, current, TypeOK
  <2> QED
    BY <2>1, NamesAssumption, FS_Subset, FS_CardinalityType
<1>5. limit(Cardinality(current)) \in Int /\ limit(Cardinality(current)) <= Parallelism
  BY <1>4, ExecutorAssumption DEF limit
<1>6. sem < limit(Cardinality(current)) /\ sem = Cardinality(Holders)
  BY <1>0 DEF AcquireSlot, SlotInv
<1> QED
  BY <1>2, <1>3, <1>5, <1>6, ExecutorAssumption

\* An instance of a module has its own copy of the operators it extends.
LEMMA SameCount ==
  ASSUME NEW S
  PROVE  Abstract!Cardinality(S) = Cardinality(S)
BY DEF Abstract!Cardinality, Cardinality

LEMMA StartStep ==
  ASSUME Inv, NEW n \in Names, AcquireSlot(n)
  PROVE  Abstract!Next
<1>0. TypeOK /\ ScheduleInv /\ RunInv
  BY DEF Inv
<1>1. pc[n] = "waiting" /\ pc' = [pc EXCEPT ![n] = "running"] /\ UNCHANGED <<schedVars, phase, recorded, retErr>>
  BY DEF AcquireSlot
<1>2. phase = "running"
  BY <1>0, <1>1 DEF RunInv, NoStrayGoroutines
<1>3. PICK k \in DOMAIN groups : n \in groups[k]
  BY <1>0, <1>1 DEF RunInv, TypeOK
<1>4. n \in JobNames(ir)
  BY <1>0, <1>3 DEF ScheduleInv, Layered
<1> DEFINE i == CHOOSE j \in DOMAIN ir : ir[j].name = n
<1>5. i \in DOMAIN ir /\ ir[i].name = n
  BY <1>4 DEF JobNames
<1>6. ir[i].deps = deps(n)
  BY DEF deps, FindJob
<1> HIDE DEF i
<1>7. outcomeBar = "open" /\ outcomeBar' = "open" /\ ir' = ir
  BY <1>1, <1>2 DEF outcomeBar, schedVars
<1>8. recorded[n] = "none"
  BY <1>0, <1>1 DEF RunInv, TypeOK
<1>9. statusBar[ir[i].name] = "pending"
  BY <1>0, <1>1, <1>5, <1>8, StatusIs
<1>10. \A d \in DOMAIN ir[i].deps : statusBar[ir[i].deps[d]] = "succeeded"
  BY <1>0, <1>1, <1>6, WaitingAfterDependencies, StatusIs
<1>11. statusBar' = [statusBar EXCEPT ![ir[i].name] = "running"]
  BY <1>0, <1>1, <1>5, <1>8 DEF statusBar, TypeOK
<1>12. Parallelism > 0 => Abstract!Cardinality(Abstract!Running) < Parallelism
  BY SlotLeft, SameCount
<1>13. Abstract!Start(i)
  BY <1>7, <1>9, <1>10, <1>11, <1>12 DEF Abstract!Start
<1> QED
  BY <1>5, <1>13 DEF Abstract!Next

LEMMA FinishStep ==
  ASSUME Inv, NEW n \in Names, NEW status \in {"succeeded", "failed"}, RunnerReturns(n, status)
  PROVE  Abstract!Next
<1>0. TypeOK /\ RunInv
  BY DEF Inv
<1>1. recorded[n] = "none" /\ pc[n] = "running"
  BY <1>0 DEF RunnerReturns, RunInv, TypeOK
<1>2. statusBar[n] = "running"
  BY <1>0, <1>1, StatusIs
<1>3. statusBar' = [statusBar EXCEPT ![n] = status]
  BY <1>0, <1>1 DEF RunnerReturns, statusBar, TypeOK
<1>4. ir' = ir /\ outcomeBar' = outcomeBar
  BY DEF RunnerReturns, schedVars, outcomeBar
<1>5. Abstract!Finish(n, status)
  BY <1>2, <1>3, <1>4 DEF Abstract!Finish
<1> QED
  BY <1>5 DEF Abstract!Next

\* Execute returns (executor.go:97-105, 191-197): no job is running, and the
\* error is nil exactly when every job has succeeded.
LEMMA EndStep ==
  ASSUME Inv, ReturnInv', phase # "returned", phase' = "returned",
         \A n \in Names : pc[n] # "running", UNCHANGED <<ir, pc, recorded>>
  PROVE  Abstract!Next
<1>0. TypeOK
  BY DEF Inv
<1> DEFINE verdict == IF retErr' = NoErr THEN "ok" ELSE "error"
<1>1. outcomeBar = "open" /\ outcomeBar' = verdict
  BY DEF outcomeBar
<1>2. Abstract!Running = {}
  BY <1>0, StatusIs DEF Abstract!Running
<1>3. statusBar' = statusBar
  BY DEF statusBar
<1>4. JobNames(ir)' = JobNames(ir) /\ JobNames(ir) \subseteq Names
  BY <1>0, SamePipeline, PipelineNames DEF TypeOK
<1>5. (\A i \in DOMAIN ir : statusBar[ir[i].name] = "succeeded") <=> \A n \in JobNames(ir) : recorded[n] = "succeeded"
  BY <1>0, <1>4, StatusIs DEF JobNames
<1>6. (\A n \in JobNames(ir) : recorded[n] = "succeeded") <=> verdict = "ok"
  BY <1>4 DEF ReturnInv
<1> HIDE DEF verdict
<1>7. Abstract!End(verdict)
  BY <1>1, <1>2, <1>3, <1>5, <1>6 DEF Abstract!End
<1>8. verdict \in {"ok", "error"}
  BY DEF verdict
<1> QED
  BY <1>7, <1>8 DEF Abstract!Next

LEMMA RefinementStep ==
  ASSUME OutcomeInv, OutcomeInv', [Next]_vars
  PROVE  [Abstract!Next]_(Abstract!vars)
<1>0. Inv /\ TypeOK /\ RunInv /\ ErrorInv /\ ReturnInv' /\ ScheduleInv
  BY DEF OutcomeInv, Inv
<1>1. ASSUME UNCHANGED <<ir, phase, retErr, recorded, pc>> PROVE UNCHANGED Abstract!vars
  BY <1>1 DEF Abstract!vars, statusBar, outcomeBar
<1>2. ASSUME UNCHANGED <<ir, pc, recorded>>, phase # "returned", phase' # "returned" PROVE UNCHANGED Abstract!vars
  BY <1>2 DEF Abstract!vars, statusBar, outcomeBar
<1>3. ASSUME UNCHANGED <<ir, recorded, phase, retErr>>,
             \A n \in Names : pc[n] = "running" <=> pc'[n] = "running"
      PROVE  UNCHANGED Abstract!vars
  <2>1. statusBar' = statusBar
    BY <1>3 DEF statusBar
  <2> QED
    BY <1>3, <2>1 DEF Abstract!vars, outcomeBar
<1>4. CASE ValidateIR \/ ScheduleReturns
  <2>1. UNCHANGED <<ir, pc, recorded>> /\ phase \in {"called", "scheduling"}
    BY <1>4 DEF ValidateIR, ScheduleReturns, schedVars, runVars
  <2>2. \A n \in Names : pc[n] # "running"
    BY <1>0, <2>1, AllPendingAtFirst
  <2> QED
    BY <1>0, <1>2, <2>1, <2>2, EndStep
<1>5. CASE AbortRun \/ FinishRun
  <2>1. UNCHANGED <<ir, pc, recorded>> /\ phase = "running" /\ phase' = "returned" /\ groupOver
    BY <1>5 DEF AbortRun, FinishRun, Return, schedVars, runVars
  <2>2. \A n \in Names : pc[n] # "running"
    BY <1>0, <2>1 DEF groupOver, RunInv, NoStrayGoroutines
  <2> QED
    BY <1>0, <2>1, <2>2, EndStep
<1>6. CASE CallSchedule
  <2>1. ir' = ir
    BY <1>0, <1>6, ScheduleStepKeepsTypes DEF CallSchedule
  <2> QED
    BY <1>1, <1>6, <2>1 DEF CallSchedule, execVars, runVars
<1>7. CASE BeginGroup
  <2>1. UNCHANGED <<ir, recorded, phase, retErr>>
    BY <1>7 DEF BeginGroup, schedVars
  <2>2. \A n \in Names : pc[n] # "running"
    BY <1>0, <1>7 DEF BeginGroup, groupOver, RunInv, NoStrayGoroutines
  <2>3. \A n \in Names : pc'[n] # "running"
    BY <1>7, <2>2 DEF BeginGroup
  <2> QED
    BY <1>3, <2>1, <2>2, <2>3
<1>8. ASSUME NEW n \in Names, GiveUp(n) \/ ReleaseSlot(n) \/ ReportToGroup(n) PROVE UNCHANGED Abstract!vars
  <2>1. UNCHANGED <<ir, recorded, phase, retErr>>
    BY <1>8 DEF GiveUp, ReleaseSlot, ReportToGroup, schedVars
  <2>2. \A m \in Names : pc[m] = "running" <=> pc'[m] = "running"
    BY <1>0, <1>8 DEF GiveUp, ReleaseSlot, ReportToGroup, TypeOK
  <2> QED
    BY <1>3, <2>1, <2>2
<1>9. CASE CallerCancel \/ UNCHANGED vars
  BY <1>1, <1>9 DEF CallerCancel, vars, schedVars, execVars, runVars
<1> QED
  BY <1>0, <1>4, <1>5, <1>6, <1>7, <1>8, <1>9, StartStep, FinishStep DEF Next, MainStep, Done, Goroutine

\* Execute with its groups, goroutines, semaphore and contexts implements DagRun
\* (executor.go:91-197): taking a slot starts a job, recording its result ends
\* it, and returning ends the run; everything else is not seen.
THEOREM Refinement == Spec => ImplementsDagRun
<1>1. Init => Abstract!Init
  BY DEF Init, InitSchedule, Abstract!Init, statusBar, outcomeBar
<1>2. OutcomeInv /\ OutcomeInv' /\ [Next]_vars => [Abstract!Next]_(Abstract!vars)
  BY RefinementStep
<1> QED
  BY <1>1, <1>2, OutcomeInvHolds, PTL DEF Spec, ImplementsDagRun, Abstract!Spec

-----------------------------------------------------------------------------
(* The Result                                                                *)

\* inOrder lists the jobs of a group, each once (schedule.go:58-63).
LEMMA InOrder ==
  ASSUME ir \in IRs, UniqueNames(ir), NEW S
  PROVE  /\ inOrder(S) \in Seq(Names)
         /\ Range(inOrder(S)) = S \cap JobNames(ir)
         /\ IsInjective(inOrder(S))
<1>. DEFINE n == Len(ir)
            one(i) == IF ir[i].name \in S THEN <<ir[i].name>> ELSE <<>>
            seqs == [i \in DOMAIN ir |-> one(i)]
<1>1. n \in Nat /\ DOMAIN ir = 1..n /\ \A i \in DOMAIN ir : ir[i].name \in Names
  BY IRsAssumption
<1>2. \A i \in 1..n : one(i) \in Seq(Names)
  BY <1>1
<1>3. \A i \in 1..n : /\ Range(one(i)) = {ir[i].name} \cap S
                      /\ IsInjective(one(i))
  <2>1. ASSUME NEW x PROVE Range(<<x>>) = {x} /\ IsInjective(<<x>>)
    BY DEF Range, IsInjective
  <2>2. Range(<<>>) = {} /\ IsInjective(<<>>)
    BY DEF Range, IsInjective
  <2>. QED
    BY <2>1, <2>2
<1>. HIDE DEF n, one
<1>4. DOMAIN seqs = 1..n /\ \A i \in 1..n : seqs[i] = one(i)
  BY <1>1
<1>5. seqs \in Seq(Seq(Names))
  BY <1>1, <1>2
<1>. HIDE DEF seqs
<1>6. FlattenSeq(seqs) \in Seq(Names) /\ Range(FlattenSeq(seqs)) = UNION {Range(seqs[i]) : i \in DOMAIN seqs}
  BY <1>5, FlattenRange
<1>7. IsInjective(FlattenSeq(seqs))
  <2>1. \A i \in DOMAIN seqs : IsInjective(seqs[i])
    BY <1>3, <1>4
  <2>2. \A i, j \in DOMAIN seqs : Range(seqs[i]) \cap Range(seqs[j]) # {} => i = j
    BY <1>1, <1>3, <1>4 DEF UniqueNames
  <2>. QED
    BY <1>5, <2>1, <2>2, FlattenInjective
<1>8. inOrder(S) = FlattenSeq(seqs)
  BY DEF inOrder, seqs, one
<1>9. UNION {Range(seqs[i]) : i \in DOMAIN seqs} = S \cap JobNames(ir)
  <2>1. \A i \in DOMAIN seqs : Range(seqs[i]) = {ir[i].name} \cap S
    BY <1>3, <1>4
  <2>2. DOMAIN seqs = DOMAIN ir
    BY <1>1, <1>4
  <2>. QED
    BY <2>1, <2>2 DEF JobNames
<1>. QED
  BY <1>6, <1>7, <1>8, <1>9

\* Names are unique once they are indexed, and Execute returns the jobs that
\* have been recorded by then.
ResultInv ==
  /\ sched \in Layered \cup {"indexed"} => UniqueNames(ir)
  /\ phase = "returned" => result = currentResult

LEMMA SameResult ==
  ASSUME UNCHANGED <<ir, groups, g, recorded>>
  PROVE  currentResult' = currentResult
BY DEF currentResult, inOrder

LEMMA ResultStep ==
  ASSUME OutcomeInv, ResultInv, [Next]_vars
  PROVE  ResultInv'
<1>0. TypeOK /\ ScheduleInv /\ RunInv
  BY DEF Inv, OutcomeInv
<1>1. (sched \in Layered \cup {"indexed"} => UniqueNames(ir))'
  <2>1. UNCHANGED <<ir, sched>> \/ CallSchedule
    BY DEF Next, MainStep, ValidateIR, CallSchedule, ScheduleReturns, BeginGroup, AbortRun, FinishRun,
         Goroutine, AcquireSlot, GiveUp, RunnerReturns, ReleaseSlot, ReportToGroup, CallerCancel,
         Done, vars, schedVars
  <2>2. CASE CallSchedule
    <3>1. /\ ir' = ir
          /\ sched' \in Layered \cup {"indexed"} =>
               sched \in Layered \cup {"indexed"} \/ UniqueNames(ir)
      BY <2>2 DEF CallSchedule, ScheduleStep, IndexJobs, CountDependencies, AppendLayer, FinishSchedule, Layered
    <3>. QED
      BY <3>1 DEF ResultInv, UniqueNames
  <2>. QED
    BY <2>1, <2>2 DEF ResultInv, UniqueNames
<1>2. (phase = "returned" => result = currentResult)'
  <2>. SUFFICES ASSUME phase' = "returned" PROVE (result = currentResult)'
    OBVIOUS
  <2>1. CASE phase = "returned"
    <3>1. \A n \in Names : pc[n] \in {"idle", "gone"}
      BY <2>1 DEF OutcomeInv, ReturnInv
    <3>2. UNCHANGED vars
      BY <2>1, <3>1 DEF Next, MainStep, ValidateIR, CallSchedule, ScheduleReturns, BeginGroup, AbortRun, FinishRun,
           Goroutine, AcquireSlot, GiveUp, RunnerReturns, ReleaseSlot, ReportToGroup, CallerCancel, Done
    <3>. QED
      BY <2>1, <3>2, SameResult DEF ResultInv, vars, schedVars, execVars, runVars
  <2>2. CASE phase # "returned"
    <3>1. \/ ValidateIR \/ ScheduleReturns \/ AbortRun \/ FinishRun
      BY <2>2 DEF Next, MainStep, CallSchedule, BeginGroup, Goroutine, AcquireSlot, GiveUp, RunnerReturns,
           ReleaseSlot, ReportToGroup, CallerCancel, Done, vars, execVars
    <3>2. result' = currentResult /\ UNCHANGED <<schedVars, g, runVars>>
      BY <2>2, <3>1 DEF ValidateIR, ScheduleReturns, AbortRun, FinishRun, Return
    <3>. QED
      BY <3>2, SameResult DEF schedVars, runVars
  <2>. QED
    BY <2>1, <2>2
<1>. QED
  BY <1>1, <1>2 DEF ResultInv

\* What currentResult is once Execute has returned (executor.go:133-147).
LEMMA Returned ==
  ASSUME OutcomeInv, ResultInv, phase = "returned"
  PROVE  ResultListsWhatRan
<1>0. TypeOK /\ ScheduleInv /\ RunInv /\ ReturnInv /\ Inv
  BY DEF OutcomeInv, Inv
<1>1. g \in Nat /\ (\A k \in 1..g : k \in DOMAIN groups) /\ (\A k \in 1..g : groups[k] \subseteq JobNames(ir))
      /\ JobNames(ir) \subseteq Names
  <2>1. \A k \in 1..g : k \in DOMAIN groups
    BY <1>0 DEF TypeOK
  <2>. QED
    BY <1>0, <2>1, PipelineNames DEF TypeOK, ScheduleInv
<1>2. g > 0 => LayersRespectDependencies /\ UniqueNames(ir)
               /\ \A k, m \in DOMAIN groups : groups[k] \cap groups[m] # {} => k = m
  <2>1. ASSUME g > 0 PROVE sched \in Layered
    BY <1>0, <1>1, <2>1 DEF ScheduleInv
  <2>. QED
    BY <1>0, <2>1 DEF ScheduleInv, ResultInv
<1>3. \A n \in Names : Started(n) <=> recorded[n] # "none"
  BY <1>0 DEF Started, ReturnInv
<1>. DEFINE ran(k) == {n \in groups[k] : recorded[n] # "none"}
            seqs == [k \in 1..g |-> inOrder(ran(k))]
            before == [n \in Names |-> ToSet(deps(n))]
<1>4. \A k \in 1..g : /\ seqs[k] \in Seq(Names)
                      /\ Range(seqs[k]) = ran(k)
                      /\ IsInjective(seqs[k])
  <2>. SUFFICES ASSUME NEW k \in 1..g
                PROVE  /\ inOrder(ran(k)) \in Seq(Names)
                       /\ Range(inOrder(ran(k))) = ran(k)
                       /\ IsInjective(inOrder(ran(k)))
    OBVIOUS
  <2>1. ir \in IRs /\ UniqueNames(ir) /\ ran(k) \cap JobNames(ir) = ran(k)
    BY <1>0, <1>1, <1>2 DEF TypeOK
  <2>. HIDE DEF ran
  <2>. QED
    BY <2>1, InOrder
<1>. HIDE DEF seqs
<1>5. DOMAIN seqs = 1..g /\ seqs \in Seq(Seq(Names))
  <2>1. seqs = [k \in 1..g |-> seqs[k]]
    BY DEF seqs
  <2>. QED
    BY <1>1, <1>4, <2>1
<1>6. result = FlattenSeq(seqs)
  BY DEF ResultInv, currentResult, seqs
<1>7. result \in Seq(Names) /\ Range(result) = UNION {Range(seqs[k]) : k \in DOMAIN seqs}
  BY <1>5, <1>6, FlattenRange
<1>8. ToSet(result) = {n \in Names : Started(n)}
  <2>1. ASSUME NEW n \in Names, recorded[n] # "none" PROVE \E k \in 1..g : n \in groups[k]
    BY <1>0, <2>1 DEF RunInv
  <2>2. Range(result) = {n \in Names : recorded[n] # "none"}
    BY <1>1, <1>4, <1>5, <1>7, <2>1
  <2>. QED
    BY <1>3, <2>2 DEF ToSet, Range
<1>9. Len(result) = Cardinality(ToSet(result))
  <2>1. \A k \in DOMAIN seqs : IsInjective(seqs[k])
    BY <1>4, <1>5
  <2>2. \A k, m \in DOMAIN seqs : Range(seqs[k]) \cap Range(seqs[m]) # {} => k = m
    BY <1>1, <1>2, <1>4, <1>5
  <2>3. IsInjective(result)
    BY <1>5, <1>6, <2>1, <2>2, FlattenInjective
  <2>. QED
    BY <1>7, <2>3, LenOfInjective DEF ToSet, Range
<1>10. ASSUME NEW p \in DOMAIN result PROVE ToSet(deps(result[p])) \subseteq ToSet(SubSeq(result, 1, p - 1))
  <2>1. ASSUME NEW k \in DOMAIN seqs, NEW n \in Range(seqs[k]), NEW d \in before[n]
        PROVE  \E m \in 1..k - 1 : d \in Range(seqs[m])
    <3>1. k \in 1..g /\ n \in groups[k] /\ n \in Names /\ recorded[n] # "none"
      BY <1>1, <1>4, <1>5
    <3>2. PICK i \in DOMAIN deps(n) : d = deps(n)[i]
      BY <3>1 DEF ToSet
    <3>3. PICK m \in 1..k - 1 : d \in groups[m]
      BY <1>1, <1>2, <3>1, <3>2 DEF LayersRespectDependencies
    <3>4. m \in 1..g /\ m < g
      BY <1>1, <3>1, <3>3
    <3>5. recorded[d] = "succeeded"
      BY <1>0, <3>3, <3>4 DEF RunInv
    <3>6. d \in Range(seqs[m])
      BY <1>4, <3>3, <3>4, <3>5
    <3>. QED
      BY <3>3, <3>6
  <2>2. \A k \in DOMAIN seqs : \A n \in Range(seqs[k]) : before[n] \subseteq UNION {Range(seqs[m]) : m \in 1..k - 1}
    BY <2>1
  <2>. HIDE DEF before
  <2>3. Behind(FlattenSeq(seqs), before)
    BY <1>5, <2>2, FlattenOrder
  <2>3a. \A d \in before[result[p]] : \E q \in 1..p - 1 : result[q] = d
    BY <1>6, <2>3 DEF Behind
  <2>4. result[p] \in Names /\ before[result[p]] = ToSet(deps(result[p]))
    BY <1>7 DEF before
  <2>5. ASSUME NEW q \in 1..p - 1 PROVE result[q] \in ToSet(SubSeq(result, 1, p - 1))
    <3>1. p \in 1..Len(result) /\ Len(result) \in Nat
      BY <1>7
    <3>2. DOMAIN SubSeq(result, 1, p - 1) = 1..p - 1 /\ SubSeq(result, 1, p - 1)[q] = result[q]
      BY <1>7, <3>1
    <3>. QED
      BY <3>2 DEF ToSet
  <2>. QED
    BY <2>3a, <2>4, <2>5
<1>. QED
  BY <1>8, <1>9, <1>10 DEF ResultListsWhatRan

\* What Execute returns tells what happened (executor.go:133-147, worker_pool.go:32-43):
\* the Result lists the jobs that ran, each once and behind its dependencies, and the
\* error names a job that is listed as failed, or is a cancellation by the caller.
THEOREM Outcome == Spec => []OutcomeTellsWhatHappened
<1>1. Init => ResultInv
  BY DEF Init, InitSchedule, ResultInv, Layered
<1>2. OutcomeInv /\ ResultInv /\ [Next]_vars => ResultInv'
  BY ResultStep
<1>3. OutcomeInv /\ ResultInv => OutcomeTellsWhatHappened
  <2>. SUFFICES ASSUME OutcomeInv, ResultInv PROVE OutcomeTellsWhatHappened
    OBVIOUS
  <2>1. ResultListsWhatRan
    BY Returned DEF ResultListsWhatRan
  <2>2. ErrorNamesItsCause
    <3>1. ASSUME phase = "returned", NEW n \in Names, recorded[n] = "failed" PROVE n \in ToSet(result)
      BY <2>1, <3>1 DEF ResultListsWhatRan, Started
    <3>. QED
      BY <3>1 DEF ErrorNamesItsCause, OutcomeInv, ReturnInv
  <2>. QED
    BY <2>1, <2>2 DEF OutcomeTellsWhatHappened
<1>. QED
  BY <1>1, <1>2, <1>3, OutcomeInvHolds, PTL DEF Spec
=============================================================================
