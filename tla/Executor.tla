------------------------------ MODULE Executor ------------------------------
(***************************************************************************)
(* pkg/execution: Executor.Execute over the bounded worker pool.           *)
(*                                                                         *)
(* Execute validates the IR, schedules it and runs the groups one after    *)
(* the other.  Within a group every job has its goroutine from the start;  *)
(* a goroutine first waits for a slot of the semaphore or for the end of   *)
(* the group's context.  The semaphore is released by a defer, that is     *)
(* before errgroup sees the goroutine's error and cancels the context: in  *)
(* between another goroutine may take the slot.  When both cases of the    *)
(* select are ready Go picks either, so a job may start in a group that is *)
(* already cancelled.                                                      *)
(***************************************************************************)
EXTENDS PipelineSchedule, Integers

CONSTANTS
  Parallelism,   \* WithParallelism; 0 and below: as many as the group has jobs
  CallerCancels  \* may the caller cancel the context it passed to Execute?

ASSUME ExecutorAssumption == Parallelism \in Int /\ CallerCancels \in BOOLEAN

VARIABLES
  phase,     \* "called", "scheduling", "running", "returned"
  g,         \* the number of groups begun (len(groupsRecorded))
  pc,        \* per job, where its goroutine is
  jobErr,    \* per job, the error its goroutine returns: "none", "failed", "canceled"
  recorded,  \* jobsRecorded: "none", "succeeded", "failed"
  sem,       \* slots taken in the group's semaphore
  groupErr,  \* what group.Wait will return
  runDone,   \* the group's context is done
  ctxDone,   \* the caller's context is done
  retErr,    \* the error Execute returned
  result     \* the jobs of the Result it returned, in order

runVars  == <<pc, jobErr, recorded, sem, groupErr, runDone>>
execVars == <<phase, g, runVars, ctxDone, retErr, result>>
vars     == <<schedVars, execVars>>

NoErr       == <<"none">>
JobFailed(n) == <<"job", n>>    \* ExecutionError{JobName: n}
Canceled    == <<"canceled">>   \* context.Canceled
Invalid     == <<"invalid">>    \* "invalid execution IR", "schedule pipeline"
Errors      == {NoErr, Canceled, Invalid} \cup {JobFailed(n) : n \in Names}

Locations == {"idle",      \* goroutine not spawned
              "waiting",   \* in the select on semaphore and context
              "running",   \* slot taken, in runner.Run
              "recorded",  \* result recorded, slot still held
              "leaving",   \* slot released or never taken, errgroup not told yet
              "gone"}      \* wg.Done

\* boundedWorkerPool.Run: the semaphore's capacity for a group of k jobs.
limit(k) == IF Parallelism <= 0 \/ Parallelism > k THEN k ELSE Parallelism

current == IF g = 0 THEN {} ELSE groups[g]

\* currentResult: recorded jobs in schedule order.
currentResult ==
  FlattenSeq([k \in 1..g |-> inOrder({n \in groups[k] : recorded[n] # "none"})])

Init ==
  /\ InitSchedule
  /\ phase = "called"
  /\ g = 0
  /\ pc = [n \in Names |-> "idle"]
  /\ jobErr = [n \in Names |-> "none"]
  /\ recorded = [n \in Names |-> "none"]
  /\ sem = 0
  /\ groupErr = NoErr
  /\ runDone = FALSE
  /\ ctxDone = FALSE
  /\ retErr = NoErr
  /\ result = <<>>

Return(err) ==
  /\ phase' = "returned"
  /\ retErr' = err
  /\ result' = currentResult

\* ir.Validate() at the top of Execute.
ValidateIR ==
  /\ phase = "called"
  /\ \/ Validate(ir) /\ phase' = "scheduling" /\ UNCHANGED <<retErr, result>>
     \/ ~Validate(ir) /\ Return(Invalid)
  /\ UNCHANGED <<schedVars, g, runVars, ctxDone>>

CallSchedule ==
  /\ phase = "scheduling"
  /\ ScheduleStep
  /\ UNCHANGED execVars

ScheduleReturns ==
  /\ phase = "scheduling"
  /\ sched \in {"done"} \cup ScheduleErrors
  /\ IF sched = "done"
       THEN phase' = "running" /\ UNCHANGED <<retErr, result>>
       ELSE Return(Invalid)
  /\ UNCHANGED <<schedVars, g, runVars, ctxDone>>

\* group.Wait may return.
groupOver == \A n \in current : pc[n] = "gone"

\* Mutant: the error of group.Wait is not looked at.
BeginGroupAfterError ==
  /\ phase = "running"
  /\ groupOver
  /\ g < Len(groups)
  /\ g' = g + 1
  /\ pc' = [n \in Names |-> IF n \in groups[g+1] THEN "waiting" ELSE pc[n]]
  /\ sem' = 0
  /\ runDone' = ctxDone
  /\ groupErr' = NoErr
  /\ UNCHANGED <<schedVars, phase, jobErr, recorded, ctxDone, retErr, result>>

\* The body of Execute's loop up to group.Wait: a fresh errgroup, context and
\* semaphore, and a goroutine for each job of the group.
BeginGroup ==
  /\ phase = "running"
  /\ groupOver /\ groupErr = NoErr
  /\ g < Len(groups)
  /\ g' = g + 1
  /\ pc' = [n \in Names |-> IF n \in groups[g+1] THEN "waiting" ELSE pc[n]]
  /\ sem' = 0
  /\ runDone' = ctxDone
  /\ UNCHANGED <<schedVars, phase, jobErr, recorded, groupErr, ctxDone, retErr, result>>

\* case sem <- struct{}{}: also when runCtx is done.
AcquireSlot(n) ==
  /\ pc[n] = "waiting"
  /\ sem < limit(Cardinality(current))
  /\ sem' = sem + 1
  /\ pc' = [pc EXCEPT ![n] = "running"]
  /\ UNCHANGED <<schedVars, phase, g, jobErr, recorded, groupErr, runDone, ctxDone, retErr, result>>

\* case <-runCtx.Done().
GiveUp(n) ==
  /\ pc[n] = "waiting"
  /\ runDone
  /\ pc' = [pc EXCEPT ![n] = "leaving"]
  /\ jobErr' = [jobErr EXCEPT ![n] = "canceled"]
  /\ UNCHANGED <<schedVars, phase, g, recorded, sem, groupErr, runDone, ctxDone, retErr, result>>

\* Mutant: a failed job is queued again.
RunnerRetries(n, status) ==
  /\ pc[n] = "running"
  /\ pc' = [pc EXCEPT ![n] = IF status = "failed" THEN "waiting" ELSE "recorded"]
  /\ sem' = IF status = "failed" THEN sem - 1 ELSE sem
  /\ recorded' = [recorded EXCEPT ![n] = IF status = "failed" THEN "none" ELSE status]
  /\ UNCHANGED <<schedVars, phase, g, jobErr, groupErr, runDone, ctxDone, retErr, result>>

\* Mutant: a job's failure is returned as a cancellation.
RunnerReturnsCanceled(n, status) ==
  /\ pc[n] = "running"
  /\ pc' = [pc EXCEPT ![n] = "recorded"]
  /\ recorded' = [recorded EXCEPT ![n] = status]
  /\ jobErr' = [jobErr EXCEPT ![n] = IF status = "failed" THEN "canceled" ELSE "none"]
  /\ UNCHANGED <<schedVars, phase, g, sem, groupErr, runDone, ctxDone, retErr, result>>

\* runner.Run returns and record stores the job's result under the mutex.
RunnerReturns(n, status) ==
  /\ pc[n] = "running"
  /\ pc' = [pc EXCEPT ![n] = "recorded"]
  /\ recorded' = [recorded EXCEPT ![n] = status]
  /\ jobErr' = [jobErr EXCEPT ![n] = IF status = "failed" THEN "failed" ELSE "none"]
  /\ UNCHANGED <<schedVars, phase, g, sem, groupErr, runDone, ctxDone, retErr, result>>

\* defer func() { <-sem }().
ReleaseSlot(n) ==
  /\ pc[n] = "recorded"
  /\ pc' = [pc EXCEPT ![n] = "leaving"]
  /\ sem' = sem - 1
  /\ UNCHANGED <<schedVars, phase, g, jobErr, recorded, groupErr, runDone, ctxDone, retErr, result>>

\* errgroup: the first error is kept and cancels the group's context.
ReportToGroup(n) ==
  /\ pc[n] = "leaving"
  /\ pc' = [pc EXCEPT ![n] = "gone"]
  /\ IF jobErr[n] # "none" /\ groupErr = NoErr
       THEN /\ groupErr' = IF jobErr[n] = "failed" THEN JobFailed(n) ELSE Canceled
            /\ runDone' = TRUE
       ELSE UNCHANGED <<groupErr, runDone>>
  /\ UNCHANGED <<schedVars, phase, g, jobErr, recorded, sem, ctxDone, retErr, result>>

\* Mutant: Execute returns on the first error without group.Wait.
AbortAtOnce ==
  /\ phase = "running"
  /\ groupErr # NoErr
  /\ Return(groupErr)
  /\ UNCHANGED <<schedVars, g, runVars, ctxDone>>

\* group.Wait returned an error: later groups never run.
AbortRun ==
  /\ phase = "running"
  /\ groupOver /\ groupErr # NoErr
  /\ Return(groupErr)
  /\ UNCHANGED <<schedVars, g, runVars, ctxDone>>

FinishRun ==
  /\ phase = "running"
  /\ groupOver /\ groupErr = NoErr
  /\ g = Len(groups)
  /\ Return(NoErr)
  /\ UNCHANGED <<schedVars, g, runVars, ctxDone>>

\* The caller's context ends; the group's context is its child.
CallerCancel ==
  /\ CallerCancels
  /\ ~ctxDone
  /\ phase # "returned"
  /\ ctxDone' = TRUE
  /\ runDone' = TRUE
  /\ UNCHANGED <<schedVars, phase, g, pc, jobErr, recorded, sem, groupErr, retErr, result>>

Goroutine(n) ==
  \/ AcquireSlot(n)
  \/ GiveUp(n)
  \/ \E status \in {"succeeded", "failed"} : RunnerReturns(n, status)
  \/ ReleaseSlot(n)
  \/ ReportToGroup(n)

MainStep ==
  \/ ValidateIR
  \/ CallSchedule
  \/ ScheduleReturns
  \/ BeginGroup
  \/ AbortRun
  \/ FinishRun

\* Execute has returned.
Done == phase = "returned" /\ UNCHANGED vars

Next == MainStep \/ (\E n \in Names : Goroutine(n)) \/ CallerCancel \/ Done

\* The Go scheduler runs every goroutine that can run; that runner.Run returns
\* is an assumption on the external terraform and shell processes.
Fairness == WF_vars(MainStep) /\ \A n \in Names : WF_vars(Goroutine(n))

Spec == Init /\ [][Next]_vars /\ Fairness

-----------------------------------------------------------------------------
(* Properties *)

\* Every variable of Execute and of Schedule has its type.
TypeOK ==
  /\ ir \in IRs
  /\ sched \in {"called", "indexed", "layering", "done"} \cup ScheduleErrors
  /\ pending \subseteq Names
  /\ groups \in Seq(SUBSET Names)
  /\ phase \in {"called", "scheduling", "running", "returned"}
  /\ g \in 0..Len(groups)
  /\ pc \in [Names -> Locations]
  /\ jobErr \in [Names -> {"none", "failed", "canceled"}]
  /\ recorded \in [Names -> {"none", "succeeded", "failed"}]
  /\ sem \in Nat
  /\ groupErr \in Errors
  /\ runDone \in BOOLEAN
  /\ ctxDone \in BOOLEAN
  /\ retErr \in Errors

\* A job whose goroutine has got past the select with a slot.
Started(n) == pc[n] \in {"running", "recorded"} \/ recorded[n] # "none"

\* The point of the pipeline (executor.go:154-193): terraform never runs for a
\* job before every job it depends on has run and succeeded, whatever fails,
\* races or is cancelled in the groups before.
StartedAfterDependencies ==
  \A n \in Names : Started(n) =>
    \A i \in DOMAIN deps(n) : recorded[deps(n)[i]] = "succeeded"

\* Barrier semantics (worker_pool.go:43): the goroutines alive all belong to
\* the current group; none is left over from an earlier group or survives
\* Execute.
NoStrayGoroutines ==
  \A n \in Names : pc[n] \in {"waiting", "running", "recorded", "leaving"} =>
    phase = "running" /\ n \in current

\* WithParallelism (executor.go:74): no more than the configured number of jobs
\* is inside runner.Run at any time.
AtMostParallelism ==
  Parallelism > 0 => Cardinality({n \in Names : pc[n] = "running"}) <= Parallelism

\* The error names its cause (worker_pool.go:32-43): an ExecutionError names a
\* job the Result lists as failed, and context.Canceled is reported only when
\* the caller cancelled: a job that is cancelled because of another job's
\* failure never hides that failure.
ErrorNamesItsCause ==
  phase = "returned" =>
    /\ \A n \in Names : retErr = JobFailed(n) =>
         recorded[n] = "failed" /\ n \in ToSet(result)
    /\ retErr = Canceled => ctxDone

\* The Result is complete (executor.go:133-147): it lists each job that ran,
\* once, in an order in which dependencies come first.
ResultListsWhatRan ==
  phase = "returned" =>
    /\ ToSet(result) = {n \in Names : Started(n)}
    /\ Len(result) = Cardinality(ToSet(result))
    /\ \A i \in DOMAIN result : ToSet(deps(result[i])) \subseteq ToSet(SubSeq(result, 1, i - 1))

\* What Execute returns, error and Result, tells what happened.
OutcomeTellsWhatHappened == ErrorNamesItsCause /\ ResultListsWhatRan

\* A pipeline that IR.Validate accepts (validate.go:293-325) never makes
\* Schedule fail: the two cycle checks agree.
ValidPipelinesAreSchedulable ==
  phase \in {"scheduling", "running"} => sched \notin ScheduleErrors

\* Fail fast (executor.go:191-193): once a job has failed, no job of another
\* group is started, dependent on the failed one or not.
NoGroupAfterFailure ==
  [][g' # g => \A n \in Names : recorded[n] # "failed"]_vars

\* Execute returns: no goroutine waits forever for a slot or for the group.
ExecuteReturns == <>(phase = "returned")

-----------------------------------------------------------------------------
(* What Execute implements: DagRun, with the jobs' states read off the       *)
(* goroutines and the recorded results.                                      *)

statusBar ==
  [n \in Names |->
     IF recorded[n] # "none" THEN recorded[n]
     ELSE IF pc[n] = "running" THEN "running" ELSE "pending"]

outcomeBar ==
  IF phase # "returned" THEN "open" ELSE IF retErr = NoErr THEN "ok" ELSE "error"

Abstract == INSTANCE DagRun WITH pipeline <- ir, status <- statusBar, outcome <- outcomeBar

\* Execute implements DagRun (executor.go:91-197).
ImplementsDagRun == Abstract!Spec
=============================================================================
