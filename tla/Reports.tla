------------------------------- MODULE Reports -------------------------------
(***************************************************************************)
(* What the commands of a pipeline leave for each other in its workspace:  *)
(* plan files, and per producer (cost, policy, tfupdate) a results file    *)
(* and a report file.  terraci summary and the local runner read them all. *)
(*                                                                         *)
(* Files are written in place: an error or a kill leaves a torn file.  A   *)
(* report knows the fingerprint of the plans it was made from, here the    *)
(* collection of plan results itself, in a set that is empty when the      *)
(* producer did not look at plans.  A workspace may be one that an earlier *)
(* pipeline has used.                                                      *)
(***************************************************************************)
EXTENDS PolicyCheck, Functions, TLC

CONSTANTS
  Pipelines,
  Producers,      \* subset of {"cost", "policy", "tfupdate"}
  PlanFiles,      \* what terraform may write: sets of changed resources
  Workspaces,     \* per pipeline, what its workspace may hold when it starts
  Kinds,          \* per pipeline, how it may be run: "review" or "local"
  MaxFaults,      \* bound on the files and requests that go wrong
  OnChangesOnly,
  Templates       \* label templates

ASSUME ReportsAssumption ==
  /\ Producers \subseteq {"cost", "policy", "tfupdate"}
  /\ Templates \subseteq {"static", "module", "resource"}
  /\ \A s \in Workspaces, w \in Pipelines :
       /\ DOMAIN s[w].plan = Modules
       /\ DOMAIN s[w].results = Producers /\ DOMAIN s[w].report = Producers

VARIABLES
  at,        \* per pipeline: the job it is at
  kind,      \* per pipeline: run by a CI system for a review, or locally
  plan,      \* per pipeline and module: the plan.json file
  results,   \* per pipeline and producer: the results file
  report,    \* per pipeline and producer: the report file
  ended,     \* per pipeline: the plan and producer jobs that have ended
  told,      \* history, per pipeline: what each publication reported
  faults,    \* what has gone wrong so far
  shown      \* per pipeline: the summary it has composed
workspaceVars == <<at, kind, plan, results, report, ended, told, faults, shown>>
filesVars == <<at, kind, plan, results, report, ended, told, shown>>

-----------------------------------------------------------------------------
(* Files *)

NoFile == [form |-> "none"]
Torn == [form |-> "torn"]
planFile(changes) == [form |-> "plan", changes |-> changes]
Report(p, status, provenance) == [form |-> "report", producer |-> p, status |-> status, of |-> provenance]
resultsFile(provenance) == [form |-> "results", of |-> provenance]
Nothing == [form |-> "nothing"]

\* saveJSON over file old: written, not even created, cut short by an error or
\* by the end of the process.
Saves == {"written", "refused", "cut", "killed"}
saved(old, new, how) ==
  CASE how = "written"          -> new
    [] how = "refused"          -> old
    [] how \in {"cut", "killed"} -> Torn

-----------------------------------------------------------------------------
(* Plan results *)

HasChanges(changes) == \E c \in changes : c.action \in {"create", "update", "delete", "replace"}

PlanStatusFromPlan(hasChanges) == IF hasChanges THEN "changes" ELSE "no_changes"

parsePlanJSON(f) ==
  IF f.form = "torn" THEN [status |-> "failed", changes |-> {}]
  ELSE [status |-> PlanStatusFromPlan(HasChanges(f.changes)), changes |-> f.changes]

\* Scan: every module that has a plan file.
FindModulesWithPlan(w) == {m \in Modules : plan[w][m].form # "none"}
Scan(w) == [m \in FindModulesWithPlan(w) |-> parsePlanJSON(plan[w][m])]

\* The results by module, whatever order they were scanned in; neither the
\* pipeline nor the time is part of it.
Fingerprint(c) == {<<m, c[m]>> : m \in DOMAIN c}

\* What a producer writes is of the plans it has scanned; tfupdate scans none.
NewArtifactRun(p, c) == [producer |-> p, fingerprint |-> IF p = "tfupdate" THEN {} ELSE {Fingerprint(c)}]
Provenance(p, c) == NewArtifactRun(p, c).fingerprint

-----------------------------------------------------------------------------
(* The report of each producer *)

\* An estimate warns of modules that could not be priced; unsupported and
\* unknown resources make it warn as well.
buildCostReport(c) ==
  {Report("cost", s, Provenance("cost", c)) :
     s \in IF \E m \in DOMAIN c : c[m].status = "failed" THEN {"warn"} ELSE {"pass", "warn"}}

policySummary(c) == NewSummary(Check(DOMAIN c, {m \in DOMAIN c : c[m].status = "failed"}))
buildPolicyReport(c) ==
  {Report("policy", StatusFromCounts(policySummary(c).failed, policySummary(c).warned), Provenance("policy", c))}

buildUpdateReport(c) == {Report("tfupdate", s, Provenance("tfupdate", c)) : s \in {"pass", "warn"}}

buildReport(p, c) ==
  CASE p = "cost"     -> buildCostReport(c)
    [] p = "policy"   -> buildPolicyReport(c)
    [] p = "tfupdate" -> buildUpdateReport(c)

\* What the job of a producer may end with: only a policy that blocks fails it;
\* a broken publication is a warning.
exits(p, c) == IF p = "policy" /\ policySummary(c).failed > 0 THEN "error" ELSE "ok"
AllowFailure(p) == p # "policy" \/ ~CanBlock(PolicyConfig.decisions)

-----------------------------------------------------------------------------
(* The summary *)

\* Mutant: what has no provenance of its own is not told apart.
EvaluateReportFreshnessNever(c, r) == "degraded"

EvaluateReportFreshness(c, r) ==
  IF r.of = {} THEN "degraded" ELSE IF r.of = {Fingerprint(c)} THEN "current" ELSE "stale"

SelectCurrentReports(c, rs) == {r \in rs : EvaluateReportFreshness(c, r) # "stale"}

HasReportableChanges(c, rs) ==
  \/ \E m \in DOMAIN c : c[m].status \in {"changes", "failed"}
  \/ \E r \in rs : r.status \in {"warn", "fail"}

overallSummaryStatus(c, rs) ==
  LET plans == {c[m].status : m \in DOMAIN c}
      reports == {r.status : r \in rs}
  IN  IF "failed" \in plans \/ "fail" \in reports THEN "fail"
      ELSE IF "changes" \in plans \/ "warn" \in reports THEN "warn" ELSE "pass"

strictestReportStatus(rs) ==
  LET reports == {r.status : r \in rs}
  IN  IF "fail" \in reports THEN "fail" ELSE IF "warn" \in reports THEN "warn" ELSE "pass"

\* One static label, one label per changed or failed module, one label per
\* changed resource of a changed module; an unparsable plan has no resources.
resolveModuleLabels(t, c) ==
  {<<t, m>> : m \in {x \in DOMAIN c : c[x].status \in {"changes", "failed"}}}
resolveResourceLabels(t, c) ==
  UNION {{<<t, r.type>> : r \in {x \in c[m].changes : x.action # "no-op"}} :
           m \in {x \in DOMAIN c : c[x].status = "changes"}}
ResolveLabels(c) ==
  UNION {CASE t = "static"   -> {<<t>>}
           [] t = "module"   -> resolveModuleLabels(t, c)
           [] t = "resource" -> resolveResourceLabels(t, c) : t \in Templates}

\* LoadReports: one file that does not parse fails them all.
readable(w) == \A p \in Producers : report[w][p].form # "torn"
LoadReports(w) == {r \in Range(report[w]) : r.form = "report"}

-----------------------------------------------------------------------------
(* The jobs of a pipeline *)

WorkspaceInit ==
  /\ at = [w \in Pipelines |-> "plan"]
  /\ kind \in Kinds
  /\ \E s \in Workspaces :
       /\ plan = [w \in Pipelines |-> s[w].plan]
       /\ results = [w \in Pipelines |-> s[w].results]
       /\ report = [w \in Pipelines |-> s[w].report]
  /\ ended = [w \in Pipelines |-> {}]
  /\ told = [w \in Pipelines |-> [p \in Producers |-> "not_run"]]
  /\ faults = 0
  /\ shown = [w \in Pipelines |-> Nothing]

Fault == faults < MaxFaults /\ faults' = faults + 1

\* RunPlan: the module's plan file is written last; without it the old one stays.
RunPlan(w, m) ==
  /\ at[w] = "plan"
  /\ m \notin ended[w]
  /\ ended' = [ended EXCEPT ![w] = @ \cup {m}]
  /\ \/ /\ \E changes \in PlanFiles : plan' = [plan EXCEPT ![w][m] = planFile(changes)]
        /\ at' = IF Modules \subseteq ended'[w] THEN [at EXCEPT ![w] = "produce"] ELSE at
        /\ UNCHANGED faults
     \/ /\ Fault
        /\ \E how \in {"refused", "cut"} : plan' = [plan EXCEPT ![w][m] = saved(@, @, how)]
        /\ at' = [at EXCEPT ![w] = "failed"]
  /\ UNCHANGED <<kind, results, report, told, shown>>

\* Mutant: an earlier report stays when the new one cannot be built.
publishedKeeping(w, p, c, built, hr, hp) ==
  /\ results' = [results EXCEPT ![w][p] = saved(@, resultsFile(Provenance(p, c)), hr)]
  /\ IF built /\ hr # "killed"
       THEN \E r \in buildReport(p, c) : report' = [report EXCEPT ![w][p] = saved(@, r, hp)]
       ELSE UNCHANGED report

\* PublishArtifacts: the results first, then the report; a report that could
\* not be built removes the one of an earlier publication.
published(w, p, c, built, hr, hp) ==
  /\ results' = [results EXCEPT ![w][p] = saved(@, resultsFile(Provenance(p, c)), hr)]
  /\ \/ /\ hr = "killed"
        /\ UNCHANGED report
     \/ /\ hr # "killed" /\ built
        /\ \E r \in buildReport(p, c) : report' = [report EXCEPT ![w][p] = saved(@, r, hp)]
     \/ /\ hr # "killed" /\ ~built
        /\ report' = [report EXCEPT ![w][p] = IF hp = "refused" THEN @ ELSE NoFile]

outcome(built, hr, hp) ==
  CASE "killed" \in {hr, hp}                      -> "killed"
    [] ~built /\ hr = "written" /\ hp = "written" -> "not_built"
    [] built /\ hr = "written" /\ hp = "written"  -> "ok"
    [] OTHER                                      -> "error"

afterJob(w, p, exit) == IF exit # "ok" /\ ~AllowFailure(p) THEN "failed" ELSE at[w]

\* A command that runs out of time before it publishes, or cannot fetch its
\* policies, leaves everything as it is.  tfupdate does not wait for the plans.
Produce(w, p) ==
  /\ at[w] = "produce" \/ (at[w] = "plan" /\ p = "tfupdate")
  /\ p \notin ended[w]
  /\ ended' = [ended EXCEPT ![w] = @ \cup {p}]
  /\ \/ \E built \in BOOLEAN, hr, hp \in Saves :
          LET o == outcome(built, hr, hp)
          IN  /\ p = "policy" => Materialize
              /\ IF o = "ok" THEN UNCHANGED faults ELSE Fault
              /\ published(w, p, Scan(w), built, hr, hp)
              /\ told' = [told EXCEPT ![w][p] = o]
              /\ at' = [at EXCEPT ![w] = afterJob(w, p, IF o = "killed" THEN "error" ELSE exits(p, Scan(w)))]
     \/ /\ Fault
        /\ told' = [told EXCEPT ![w][p] = "cancelled"]
        /\ at' = [at EXCEPT ![w] = afterJob(w, p, "error")]
        /\ UNCHANGED <<results, report>>
  /\ UNCHANGED <<kind, plan, shown>>

\* summaryengine.Run up to the comment.  Without plans, or without changes to
\* tell of, it says nothing; without a review to write to it only prints.
Compose(w) ==
  LET c == Scan(w)
      rs == SelectCurrentReports(c, LoadReports(w))
      skipped == FindModulesWithPlan(w) = {} \/ (OnChangesOnly /\ ~HasReportableChanges(c, rs))
  IN  /\ at[w] = "produce" /\ Producers \subseteq ended[w]
      /\ IF ~readable(w) /\ FindModulesWithPlan(w) # {} THEN
            at' = [at EXCEPT ![w] = "failed"] /\ UNCHANGED shown
         ELSE IF skipped \/ kind[w] = "local" THEN
            at' = [at EXCEPT ![w] = IF kind[w] = "local" THEN "load" ELSE "done"] /\ UNCHANGED shown
         ELSE
            /\ at' = [at EXCEPT ![w] = "post"]
            /\ shown' = [shown EXCEPT ![w] =
                 [form |-> "comment", plans |-> c, reports |-> rs,
                  status |-> overallSummaryStatus(c, rs), labels |-> ResolveLabels(c)]]
      /\ UNCHANGED <<kind, plan, results, report, ended, told, faults>>

\* The local runner shows the reports of its run in one.
LoadSummaryReport(w) ==
  LET c == Scan(w)
      rs == SelectCurrentReports(c, LoadReports(w))
  IN  /\ at[w] = "load"
      /\ at' = [at EXCEPT ![w] = IF readable(w) THEN "done" ELSE "failed"]
      /\ shown' = IF readable(w) /\ rs # {}
                    THEN [shown EXCEPT ![w] = [form |-> "report", plans |-> c, reports |-> rs,
                                               status |-> strictestReportStatus(rs), labels |-> {}]]
                    ELSE shown
      /\ UNCHANGED <<kind, plan, results, report, ended, told, faults>>

WorkspaceNext(w) ==
  \/ \E m \in Modules : RunPlan(w, m)
  \/ \E p \in Producers : Produce(w, p)
  \/ Compose(w)
  \/ LoadSummaryReport(w)

-----------------------------------------------------------------------------
(* Properties *)

composed(w) == shown[w].form # "nothing"

\* A summary is about one set of plans: each report in it was made from the
\* plans it shows or from none, and no report published from them without an
\* error is missing, whatever earlier pipelines and killed or failed
\* publications have left behind (report_freshness.go:47-120, report_store.go:241-276).
SummaryIsOfItsPlans ==
  \A w \in Pipelines : composed(w) =>
    /\ \A r \in shown[w].reports : r.of \in {{}, {Fingerprint(shown[w].plans)}}
    /\ \A p \in Producers : told[w][p] = "ok" => \E r \in shown[w].reports : r.producer = p

\* After a publication that reported nothing worse than a report that could not
\* be built, no report stands beside results it does not belong to
\* (pkg/plugin/doc.go:246-248, report_store.go:212-239, 342-365).
ReportsFollowResults ==
  \A w \in Pipelines, p \in Producers :
    /\ told[w][p] = "ok" => report[w][p].of = results[w][p].of
    /\ told[w][p] = "not_built" => results[w][p].form = "results" /\ report[w][p] = NoFile
=============================================================================
