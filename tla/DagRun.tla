------------------------------- MODULE DagRun -------------------------------
(***************************************************************************)
(* What running a pipeline means to a user of pkg/execution, without       *)
(* groups, goroutines, semaphores or contexts: jobs start when the jobs    *)
(* they depend on have succeeded, at most Parallelism at a time (as many   *)
(* as there are when it is not positive), each at most once; the run ends  *)
(* well exactly when all have succeeded, and never while one is running.   *)
(***************************************************************************)
EXTENDS Integers, Sequences, FiniteSets

CONSTANTS Names, IRs, Parallelism

VARIABLES
  pipeline,  \* the jobs, with name and deps
  status,    \* per name: "pending", "running", "succeeded", "failed"
  outcome    \* "open", "ok", "error"

vars == <<pipeline, status, outcome>>

Running == {n \in Names : status[n] = "running"}

Init ==
  /\ pipeline \in IRs
  /\ status = [n \in Names |-> "pending"]
  /\ outcome = "open"

Start(i) ==
  LET job == pipeline[i]
  IN  /\ outcome = "open"
      /\ status[job.name] = "pending"
      /\ \A k \in DOMAIN job.deps : status[job.deps[k]] = "succeeded"
      /\ Parallelism > 0 => Cardinality(Running) < Parallelism
      /\ status' = [status EXCEPT ![job.name] = "running"]
      /\ UNCHANGED <<pipeline, outcome>>

Finish(n, verdict) ==
  /\ status[n] = "running"
  /\ status' = [status EXCEPT ![n] = verdict]
  /\ UNCHANGED <<pipeline, outcome>>

End(verdict) ==
  /\ outcome = "open"
  /\ Running = {}
  /\ (\A i \in DOMAIN pipeline : status[pipeline[i].name] = "succeeded") <=> verdict = "ok"
  /\ outcome' = verdict
  /\ UNCHANGED <<pipeline, status>>

Next ==
  \/ \E i \in DOMAIN pipeline : Start(i)
  \/ \E n \in Names, verdict \in {"succeeded", "failed"} : Finish(n, verdict)
  \/ \E verdict \in {"ok", "error"} : End(verdict)

Spec == Init /\ [][Next]_vars
=============================================================================
