---------------------------- MODULE ReviewProofs ----------------------------
(***************************************************************************)
(* Proofs about Reports and MergeRequest, for any pipelines, modules,      *)
(* producers and workspaces: reports belong to the results beside them,    *)
(* a summary is about one set of plans, a review has one comment, and its  *)
(* labels are those the comment records.                                   *)
(***************************************************************************)
EXTENDS ReportContents, SequenceTheorems, TLAPS

-----------------------------------------------------------------------------
(* The files of a workspace *)

Outcomes == {"not_run", "ok", "not_built", "killed", "error", "cancelled"}
Places   == {"plan", "produce", "load", "post", "done", "failed"}

FilesShape ==
  /\ at \in [Pipelines -> Places]
  /\ DOMAIN plan = Pipelines /\ \A w \in Pipelines : DOMAIN plan[w] = Modules
  /\ DOMAIN results = Pipelines /\ \A w \in Pipelines : DOMAIN results[w] = Producers
  /\ DOMAIN report = Pipelines /\ \A w \in Pipelines : DOMAIN report[w] = Producers
  /\ told \in [Pipelines -> [Producers -> Outcomes]]
  /\ DOMAIN ended = Pipelines
  /\ DOMAIN shown = Pipelines

\* What a publication that reported no error has left, for as long as the plans
\* it was made from stand.
TellsTruth(w, p) ==
  /\ told[w][p] # "not_run" => p \in ended[w]
  /\ told[w][p] = "ok" =>
       /\ p # "tfupdate" => at[w] # "plan"
       /\ report[w][p].form = "report" /\ report[w][p].producer = p
       /\ report[w][p].of = Provenance(p, Scan(w))
       /\ results[w][p].of = Provenance(p, Scan(w))
  /\ told[w][p] = "not_built" => results[w][p].form = "results" /\ report[w][p] = NoFile

\* A summary is composed when everything has been published, and stays.
ShowsTruth(w) ==
  /\ at[w] = "load" => Producers \subseteq ended[w]
  /\ at[w] = "post" => shown[w].form = "comment"
  /\ shown[w].form = "comment" => \A l \in shown[w].labels : l[1] \in Templates
  /\ composed(w) =>
       /\ at[w] \in {"post", "done"} /\ Producers \subseteq ended[w]
       /\ \A r \in shown[w].reports : r.of \in {{}, {Fingerprint(shown[w].plans)}}
       /\ \A p \in Producers : told[w][p] = "ok" => \E r \in shown[w].reports : r.producer = p

FilesInv ==
  /\ FilesShape
  /\ \A w \in Pipelines, p \in Producers : TellsTruth(w, p)
  /\ \A w \in Pipelines : ShowsTruth(w)

-----------------------------------------------------------------------------
(* The posting *)

managed == UNION {notes[i].labels : i \in DOMAIN notes}

PostPlaces == {"idle", "find", "upsert", "remove", "add", "done", "failed"}

PostShape ==
  /\ notes \in Seq(Range(notes))
  /\ DOMAIN post = Pipelines
  /\ \A w \in Pipelines : /\ DOMAIN post[w] = {"at", "previous", "note", "remove"}
                          /\ post[w].at \in PostPlaces
  /\ \A w \in Pipelines : posting(w) => at[w] = "post"

\* As long as no two post at once.
Alone ==
  "overlap" \notin trouble =>
    /\ Len(notes) <= 1
    /\ \A v, w \in Pipelines : posting(v) /\ posting(w) => v = w
    /\ \A w \in Pipelines : post[w].at = "upsert" => post[w].note = Len(notes)

\* What of the labels is still to be removed and to be added, at each step of
\* a posting.
Way(w) ==
  /\ post[w].at \in {"find", "upsert"} =>
       post[w].previous = managed /\ labels = own \cup managed
  /\ post[w].at \in {"remove", "add"} =>
       /\ managed = shown[w].labels
       /\ \A l \in post[w].previous : l[1] \in Templates
  /\ post[w].at = "remove" =>
       /\ post[w].remove \subseteq post[w].previous \ shown[w].labels
       /\ labels = own \cup (post[w].previous \cap shown[w].labels) \cup post[w].remove
  /\ post[w].at = "add" => labels = own \cup (post[w].previous \cap shown[w].labels)

\* As long as nothing fails either.
LabelsOnTheWay ==
  trouble = {} =>
    /\ own \subseteq UserLabels
    /\ \A l \in managed : l[1] \in Templates
    /\ (\A w \in Pipelines : ~posting(w)) => labels = own \cup managed
    /\ \A w \in Pipelines : Way(w)

PostInv == PostShape /\ Alone /\ LabelsOnTheWay
ReviewInv == FilesInv /\ PostInv

-----------------------------------------------------------------------------
(* Files *)

LEMMA SameScan ==
  ASSUME NEW w, plan'[w] = plan[w]
  PROVE  Scan(w)' = Scan(w)
BY DEF Scan, FindModulesWithPlan

LEMMA ReportIsOf ==
  ASSUME NEW p \in Producers, NEW c, NEW r \in buildReport(p, c)
  PROVE  r.form = "report" /\ r.producer = p /\ r.of = Provenance(p, c)
<1>1. CASE p = "cost"
  BY <1>1 DEF buildReport, buildCostReport, Report
<1>2. CASE p = "policy"
  BY <1>2 DEF buildReport, buildPolicyReport, Report
<1>3. CASE p = "tfupdate"
  BY <1>3 DEF buildReport, buildUpdateReport, Report
<1> QED
  BY <1>1, <1>2, <1>3, ReportsAssumption

LEMMA ProvenanceIs ==
  ASSUME NEW p, NEW c
  PROVE  Provenance(p, c) = IF p = "tfupdate" THEN {} ELSE {Fingerprint(c)}
BY DEF Provenance, NewArtifactRun

\* A pipeline whose files stand still.
LEMMA StandsStill ==
  ASSUME FilesInv, NEW w \in Pipelines,
         at'[w] = at[w], plan'[w] = plan[w], results'[w] = results[w], report'[w] = report[w],
         told'[w] = told[w], ended'[w] = ended[w], shown'[w] = shown[w]
  PROVE  (\A p \in Producers : TellsTruth(w, p)') /\ ShowsTruth(w)'
<1>1. Scan(w)' = Scan(w)
  BY SameScan
<1>2. \A p \in Producers : TellsTruth(w, p)'
  BY <1>1 DEF FilesInv, TellsTruth
<1>3. ShowsTruth(w)'
  BY DEF FilesInv, ShowsTruth, composed
<1> QED
  BY <1>2, <1>3

LEMMA FilesInvInit ==
  ASSUME ReviewInit
  PROVE  FilesInv
<1> USE DEF ReviewInit, WorkspaceInit
<1>1. FilesShape
  <2>1. PICK s \in Workspaces :
          /\ plan = [w \in Pipelines |-> s[w].plan]
          /\ results = [w \in Pipelines |-> s[w].results]
          /\ report = [w \in Pipelines |-> s[w].report]
    OBVIOUS
  <2>2. \A w \in Pipelines : DOMAIN plan[w] = Modules /\ DOMAIN results[w] = Producers /\ DOMAIN report[w] = Producers
    BY <2>1, ReportsAssumption
  <2>3. DOMAIN plan = Pipelines /\ DOMAIN results = Pipelines /\ DOMAIN report = Pipelines
    BY <2>1
  <2> QED
    BY <2>2, <2>3 DEF FilesShape, Places, Outcomes
<1>2. \A w \in Pipelines, p \in Producers : TellsTruth(w, p)
  BY DEF TellsTruth
<1>3. \A w \in Pipelines : ShowsTruth(w)
  BY DEF ShowsTruth, composed, Nothing
<1> QED
  BY <1>1, <1>2, <1>3 DEF FilesInv

LEMMA RunPlanKeeps ==
  ASSUME FilesInv, NEW w \in Pipelines, NEW m \in Modules, RunPlan(w, m)
  PROVE  FilesInv'
<1> USE DEF FilesInv
<1>1. /\ UNCHANGED <<results, report, told, shown>>
      /\ at[w] = "plan"
      /\ ended' = [ended EXCEPT ![w] = ended[w] \cup {m}]
  BY DEF RunPlan
<1>1a. \E f : plan' = [plan EXCEPT ![w][m] = f]
  BY DEF RunPlan
<1>1b. \E s \in {"produce", "failed", "plan"} : at' = [at EXCEPT ![w] = s]
  <2>1. at = [at EXCEPT ![w] = "plan"]
    BY <1>1 DEF FilesShape
  <2> QED
    BY <2>1 DEF RunPlan
<1>2. /\ \A v \in Pipelines \ {w} : at'[v] = at[v] /\ plan'[v] = plan[v] /\ ended'[v] = ended[v]
      /\ ended'[w] = ended[w] \cup {m} /\ at'[w] \in {"produce", "failed", "plan"}
  BY <1>1, <1>1a, <1>1b DEF FilesShape
<1>3. FilesShape'
  <2>1. DOMAIN plan' = Pipelines /\ \A v \in Pipelines : DOMAIN plan'[v] = Modules
    <3>1. PICK f : plan' = [plan EXCEPT ![w] = [plan[w] EXCEPT ![m] = f]]
      BY <1>1a
    <3>2. DOMAIN [plan[w] EXCEPT ![m] = f] = Modules
      BY DEF FilesShape
    <3> QED
      BY <3>1, <3>2 DEF FilesShape
  <2>2. at' \in [Pipelines -> Places] /\ DOMAIN ended' = Pipelines
    BY <1>1, <1>1b DEF FilesShape, Places
  <2> QED
    BY <1>1, <2>1, <2>2 DEF FilesShape
<1>4. \A p \in Producers : TellsTruth(w, p)'
  <2> SUFFICES ASSUME NEW p \in Producers PROVE TellsTruth(w, p)'
    OBVIOUS
  <2>1. TellsTruth(w, p)
    OBVIOUS
  <2>2. told[w][p] = "ok" => p = "tfupdate"
    BY <1>1, <2>1 DEF TellsTruth
  <2>3. p = "tfupdate" => Provenance(p, Scan(w)) = {} /\ Provenance(p, Scan(w)') = {}
    BY ProvenanceIs
  <2>4. told'[w][p] # "not_run" => p \in ended'[w]
    BY <1>1, <1>2, <2>1 DEF TellsTruth
  <2>5. told'[w][p] = "ok" => /\ report'[w][p].form = "report" /\ report'[w][p].producer = p
                             /\ report'[w][p].of = {} /\ results'[w][p].of = {}
    BY <1>1, <2>1, <2>2, <2>3 DEF TellsTruth
  <2>6. told'[w][p] = "not_built" => results'[w][p].form = "results" /\ report'[w][p] = NoFile
    BY <1>1, <2>1 DEF TellsTruth
  <2> QED
    BY <1>1, <2>2, <2>3, <2>4, <2>5, <2>6 DEF TellsTruth
<1>5. ShowsTruth(w)'
  BY <1>1, <1>2 DEF ShowsTruth, composed
<1>6. \A v \in Pipelines \ {w} : (\A p \in Producers : TellsTruth(v, p)') /\ ShowsTruth(v)'
  BY <1>1, <1>2, StandsStill
<1> QED
  BY <1>3, <1>4, <1>5, <1>6

\* Files f are files e but for the one of producer p in workspace w, which is x.
OneFile(e, f, w, p, x) ==
  /\ DOMAIN f = Pipelines /\ \A v \in Pipelines : DOMAIN f[v] = Producers
  /\ f[w][p] = x
  /\ \A v \in Pipelines \ {w} : f[v] = e[v]
  /\ \A q \in Producers \ {p} : f[w][q] = e[w][q]

LEMMA ChangeOneFile ==
  ASSUME NEW e, DOMAIN e = Pipelines, \A v \in Pipelines : DOMAIN e[v] = Producers,
         NEW w \in Pipelines, NEW p \in Producers, NEW x
  PROVE  /\ OneFile(e, [e EXCEPT ![w][p] = x], w, p, x)
         /\ OneFile(e, e, w, p, e[w][p])
BY DEF OneFile

LEMMA FilesAre ==
  ASSUME FilesInv
  PROVE  /\ DOMAIN results = Pipelines /\ \A v \in Pipelines : DOMAIN results[v] = Producers
         /\ DOMAIN report = Pipelines /\ \A v \in Pipelines : DOMAIN report[v] = Producers
BY DEF FilesInv, FilesShape

\* What the job of a producer does to the two files and to what is told of it.
Publishes(w, p, o, fr, fp) ==
  /\ told' = [told EXCEPT ![w] = [told[w] EXCEPT ![p] = o]]
  /\ OneFile(results, results', w, p, fr)
  /\ OneFile(report, report', w, p, fp)
  /\ o = "ok" => fr.of = Provenance(p, Scan(w)) /\ fp \in buildReport(p, Scan(w))
  /\ o = "not_built" => fr.form = "results" /\ fp = NoFile

LEMMA Publication ==
  ASSUME FilesInv, NEW w \in Pipelines, NEW p \in Producers, Produce(w, p)
  PROVE  \E o \in Outcomes : \E fr, fp : Publishes(w, p, o, fr, fp)
<1> DEFINE c == Scan(w)  fresh == resultsFile(Provenance(p, c))
<1>1. fresh.form = "results" /\ fresh.of = Provenance(p, c)
  BY DEF resultsFile
<1>2. CASE told' = [told EXCEPT ![w][p] = "cancelled"] /\ UNCHANGED <<results, report>>
  <2>1. OneFile(results, results', w, p, results[w][p]) /\ OneFile(report, report', w, p, report[w][p])
    BY <1>2, ChangeOneFile, FilesAre
  <2>2. Publishes(w, p, "cancelled", results[w][p], report[w][p])
    BY <1>2, <2>1 DEF Publishes
  <2> QED
    BY <2>2 DEF Outcomes
<1>3. ASSUME NEW built \in BOOLEAN, NEW hr \in Saves, NEW hp \in Saves,
             published(w, p, c, built, hr, hp), told' = [told EXCEPT ![w][p] = outcome(built, hr, hp)]
      PROVE  \E o \in Outcomes : \E fr, fp : Publishes(w, p, o, fr, fp)
  <2> DEFINE o == outcome(built, hr, hp)  fr == saved(results[w][p], fresh, hr)
  <2>1. o \in Outcomes
    BY DEF outcome, Outcomes
  <2>2. OneFile(results, results', w, p, fr)
    BY <1>3, ChangeOneFile, FilesAre DEF published
  <2>3. o \in {"ok", "not_built"} => hr = "written" /\ hp = "written" /\ fr = fresh
    BY DEF outcome, saved
  <2>4. /\ o = "ok" => built
        /\ o = "not_built" => ~built
    BY DEF outcome
  <2>5. \E fp : /\ OneFile(report, report', w, p, fp)
                /\ o = "ok" => fp \in buildReport(p, c)
                /\ o = "not_built" => fp = NoFile
    <3>1. CASE hr = "killed" /\ UNCHANGED report
      BY <2>3, <3>1, ChangeOneFile, FilesAre
    <3>2. CASE built /\ \E r \in buildReport(p, c) : report' = [report EXCEPT ![w][p] = saved(@, r, hp)]
      <4>1. PICK r \in buildReport(p, c) : report' = [report EXCEPT ![w][p] = saved(report[w][p], r, hp)]
        BY <3>2
      <4>2. hp = "written" => saved(report[w][p], r, hp) = r
        BY DEF saved
      <4>3. OneFile(report, report', w, p, saved(report[w][p], r, hp))
        BY <4>1, ChangeOneFile, FilesAre
      <4> QED
        BY <2>3, <2>4, <3>2, <4>2, <4>3
    <3>3. CASE ~built /\ report' = [report EXCEPT ![w][p] = IF hp = "refused" THEN @ ELSE NoFile]
      <4> DEFINE f == IF hp = "refused" THEN report[w][p] ELSE NoFile
      <4>1. OneFile(report, report', w, p, f)
        BY <3>3, ChangeOneFile, FilesAre
      <4>2. hp = "written" => f = NoFile
        OBVIOUS
      <4> QED
        BY <2>3, <2>4, <3>3, <4>1, <4>2
    <3> QED
      BY <1>3, <3>1, <3>2, <3>3 DEF published
  <2> HIDE DEF o, fr, fresh
  <2>6. told' = [told EXCEPT ![w] = [told[w] EXCEPT ![p] = o]]
    BY <1>3 DEF o
  <2> QED
    BY <1>1, <2>1, <2>2, <2>3, <2>5, <2>6 DEF Publishes
<1> QED
  BY <1>2, <1>3 DEF Produce

LEMMA ProduceKeeps ==
  ASSUME FilesInv, NEW w \in Pipelines, NEW p \in Producers, Produce(w, p)
  PROVE  FilesInv'
<1>0. FilesShape /\ ShowsTruth(w) /\ \A q \in Producers : TellsTruth(w, q)
  BY DEF FilesInv
<1>1. /\ UNCHANGED <<plan, shown>>
      /\ at[w] \in {"produce", "plan"} /\ (p # "tfupdate" => at[w] = "produce")
      /\ p \notin ended[w]
      /\ ended' = [ended EXCEPT ![w] = ended[w] \cup {p}]
  BY DEF Produce
<1>2. PICK s \in {at[w], "failed"} : at' = [at EXCEPT ![w] = s]
  BY DEF Produce, afterJob
<1>3a. PICK o \in Outcomes : \E fr, fp : Publishes(w, p, o, fr, fp)
  BY Publication
<1>3. PICK fr, fp : Publishes(w, p, o, fr, fp)
  BY <1>3a
<1>4. /\ \A v \in Pipelines \ {w} : at'[v] = at[v] /\ ended'[v] = ended[v] /\ told'[v] = told[v]
      /\ at'[w] = s /\ ended'[w] = ended[w] \cup {p}
      /\ told'[w][p] = o /\ \A q \in Producers \ {p} : told'[w][q] = told[w][q]
      /\ at' \in [Pipelines -> Places] /\ DOMAIN ended' = Pipelines
      /\ told' \in [Pipelines -> [Producers -> Outcomes]]
  BY <1>0, <1>1, <1>2, <1>3 DEF FilesShape, Publishes, Places
<1>5. /\ OneFile(results, results', w, p, fr)
      /\ OneFile(report, report', w, p, fp)
      /\ o = "ok" => fr.of = Provenance(p, Scan(w)) /\ fp \in buildReport(p, Scan(w))
      /\ o = "not_built" => fr.form = "results" /\ fp = NoFile
  BY <1>3 DEF Publishes
<1>6. Scan(w)' = Scan(w)
  BY <1>1, SameScan
<1>7. told[w][p] = "not_run"
  BY <1>0, <1>1 DEF TellsTruth
<1>8. FilesShape'
  BY <1>0, <1>1, <1>4, <1>5 DEF FilesShape, OneFile
<1>9. TellsTruth(w, p)'
  <2>1. o = "ok" => fp.form = "report" /\ fp.producer = p /\ fp.of = Provenance(p, Scan(w))
    BY <1>5, ReportIsOf
  <2>2. results'[w][p] = fr /\ report'[w][p] = fp
    BY <1>5 DEF OneFile
  <2>3. told'[w][p] = "ok" => /\ p # "tfupdate" => at'[w] # "plan"
                             /\ report'[w][p].form = "report" /\ report'[w][p].producer = p
                             /\ report'[w][p].of = Provenance(p, Scan(w)')
                             /\ results'[w][p].of = Provenance(p, Scan(w)')
    BY <1>1, <1>4, <1>5, <1>6, <2>1, <2>2
  <2>4. told'[w][p] = "not_built" => results'[w][p].form = "results" /\ report'[w][p] = NoFile
    BY <1>4, <1>5, <2>2
  <2> QED
    BY <1>4, <2>3, <2>4 DEF TellsTruth
<1>10. ASSUME NEW q \in Producers \ {p} PROVE TellsTruth(w, q)'
  <2>1. results'[w][q] = results[w][q] /\ report'[w][q] = report[w][q]
    BY <1>5 DEF OneFile
  <2>2. TellsTruth(w, q)
    BY <1>0
  <2>3. at[w] # "plan" => at'[w] # "plan"
    BY <1>1, <1>4
  <2> QED
    BY <1>4, <1>6, <2>1, <2>2, <2>3 DEF TellsTruth
<1>11. ShowsTruth(w)'
  <2>1. ~composed(w)
    BY <1>0, <1>1 DEF ShowsTruth
  <2>2. shown[w].form # "comment"
    BY <2>1, <1>1, <1>0 DEF ShowsTruth, composed
  <2> QED
    BY <1>1, <1>4, <2>1, <2>2 DEF ShowsTruth, composed
<1>12. ASSUME NEW v \in Pipelines \ {w} PROVE (\A q \in Producers : TellsTruth(v, q)') /\ ShowsTruth(v)'
  <2>1. results'[v] = results[v] /\ report'[v] = report[v]
    BY <1>5 DEF OneFile
  <2> QED
    BY <1>1, <1>4, <2>1, StandsStill
<1> QED
  BY <1>8, <1>9, <1>10, <1>11, <1>12 DEF FilesInv

\* The reports a summary selects, from the files of its own workspace.
LEMMA SelectedReports ==
  ASSUME FilesInv, NEW w \in Pipelines,
         NEW rs, rs = SelectCurrentReports(Scan(w), LoadReports(w))
  PROVE  /\ \A r \in rs : r.of \in {{}, {Fingerprint(Scan(w))}}
         /\ \A p \in Producers : told[w][p] = "ok" => \E r \in rs : r.producer = p
<1>1. \A r \in rs : r.of \in {{}, {Fingerprint(Scan(w))}}
  BY DEF SelectCurrentReports, EvaluateReportFreshness
<1>2. ASSUME NEW p \in Producers, told[w][p] = "ok" PROVE \E r \in rs : r.producer = p
  <2>1. TellsTruth(w, p) /\ DOMAIN report[w] = Producers
    BY DEF FilesInv, FilesShape
  <2>2. report[w][p] \in LoadReports(w) /\ report[w][p].producer = p
    BY <1>2, <2>1 DEF TellsTruth, LoadReports, Range
  <2>3. report[w][p].of \in {{}, {Fingerprint(Scan(w))}}
    BY <1>2, <2>1, ProvenanceIs DEF TellsTruth
  <2>4. report[w][p] \in rs
    BY <2>2, <2>3 DEF SelectCurrentReports, EvaluateReportFreshness
  <2> QED
    BY <2>2, <2>4
<1> QED
  BY <1>1, <1>2

LEMMA LabelsAreGenerated ==
  ASSUME NEW c, NEW l \in ResolveLabels(c)
  PROVE  l[1] \in Templates
<1>1. PICK t \in Templates : l \in CASE t = "static"   -> {<<t>>}
                                     [] t = "module"   -> resolveModuleLabels(t, c)
                                     [] t = "resource" -> resolveResourceLabels(t, c)
  BY DEF ResolveLabels
<1>2. t \in {"static", "module", "resource"}
  BY ReportsAssumption
<1>3. CASE t = "static"
  BY <1>1, <1>3
<1>4. CASE t = "module"
  BY <1>1, <1>4 DEF resolveModuleLabels
<1>5. CASE t = "resource"
  BY <1>1, <1>5 DEF resolveResourceLabels
<1> QED
  BY <1>2, <1>3, <1>4, <1>5

\* A pipeline that has been through with its producers looks at its files and
\* moves on.
LEMMA SummaryKeeps ==
  ASSUME FilesInv, NEW w \in Pipelines, Producers \subseteq ended[w], at[w] # "plan", ~composed(w),
         UNCHANGED <<kind, plan, results, report, ended, told>>,
         NEW s \in Places \ {"plan"}, at' = [at EXCEPT ![w] = s],
         DOMAIN shown' = Pipelines, \A v \in Pipelines \ {w} : shown'[v] = shown[v],
         ShowsTruth(w)'
  PROVE  FilesInv'
<1>0. FilesShape /\ \A q \in Producers : TellsTruth(w, q)
  BY DEF FilesInv
<1>1. /\ at'[w] = s /\ \A v \in Pipelines \ {w} : at'[v] = at[v]
      /\ at' \in [Pipelines -> Places]
  BY <1>0 DEF FilesShape
<1>2. FilesShape'
  BY <1>0, <1>1 DEF FilesShape
<1>3. Scan(w)' = Scan(w)
  BY SameScan
<1>4. ASSUME NEW q \in Producers PROVE TellsTruth(w, q)'
  BY <1>0, <1>1, <1>3 DEF TellsTruth
<1>5. ASSUME NEW v \in Pipelines \ {w} PROVE (\A q \in Producers : TellsTruth(v, q)') /\ ShowsTruth(v)'
  BY <1>1, StandsStill
<1> QED
  BY <1>2, <1>4, <1>5 DEF FilesInv

LEMMA NothingShown ==
  ASSUME FilesInv, NEW w \in Pipelines, Producers \subseteq ended[w], at[w] # "plan", ~composed(w),
         UNCHANGED <<kind, plan, results, report, ended, told, shown>>,
         NEW s \in Places \ {"plan", "post"}, at' = [at EXCEPT ![w] = s]
  PROVE  FilesInv'
<1>1. ShowsTruth(w)'
  BY DEF FilesInv, FilesShape, ShowsTruth, composed
<1>2. DOMAIN shown' = Pipelines /\ s \in Places \ {"plan"}
  BY DEF FilesInv, FilesShape
<1> QED
  BY <1>1, <1>2, SummaryKeeps

LEMMA SummaryShown ==
  ASSUME FilesInv, NEW w \in Pipelines, Producers \subseteq ended[w], at[w] # "plan", ~composed(w),
         UNCHANGED <<kind, plan, results, report, ended, told>>,
         NEW s \in {"post", "done"}, at' = [at EXCEPT ![w] = s],
         NEW x, shown' = [shown EXCEPT ![w] = x],
         x.plans = Scan(w), x.reports = SelectCurrentReports(Scan(w), LoadReports(w)),
         s = "post" => x.form = "comment",
         x.form = "comment" => x.labels = ResolveLabels(Scan(w))
  PROVE  FilesInv'
<1>0. FilesShape
  BY DEF FilesInv
<1>1. /\ shown'[w] = x /\ \A v \in Pipelines \ {w} : shown'[v] = shown[v]
      /\ DOMAIN shown' = Pipelines /\ at'[w] = s /\ s \in Places \ {"plan"}
  BY <1>0 DEF FilesShape, Places
<1>2. /\ \A r \in x.reports : r.of \in {{}, {Fingerprint(x.plans)}}
      /\ \A p \in Producers : told[w][p] = "ok" => \E r \in x.reports : r.producer = p
  BY SelectedReports
<1>3. x.form = "comment" => \A l \in x.labels : l[1] \in Templates
  BY LabelsAreGenerated
<1>4. ShowsTruth(w)'
  BY <1>1, <1>2, <1>3 DEF ShowsTruth, composed
<1> QED
  BY <1>1, <1>4, SummaryKeeps

LEMMA ComposeKeeps ==
  ASSUME FilesInv, NEW w \in Pipelines, Compose(w)
  PROVE  FilesInv'
<1> DEFINE c == Scan(w)  rs == SelectCurrentReports(c, LoadReports(w))
           comment == [form |-> "comment", plans |-> c, reports |-> rs,
                       status |-> overallSummaryStatus(c, rs), labels |-> ResolveLabels(c)]
<1>1. /\ Producers \subseteq ended[w] /\ at[w] = "produce"
      /\ UNCHANGED <<kind, plan, results, report, ended, told>>
  BY DEF Compose
<1>2. ~composed(w)
  BY <1>1 DEF FilesInv, ShowsTruth
<1>3. \/ \E s \in {"failed", "load", "done"} : at' = [at EXCEPT ![w] = s] /\ shown' = shown
      \/ at' = [at EXCEPT ![w] = "post"] /\ shown' = [shown EXCEPT ![w] = comment]
  BY DEF Compose
<1>4. comment.plans = c /\ comment.reports = rs /\ comment.form = "comment" /\ comment.labels = ResolveLabels(c)
  OBVIOUS
<1>5. rs = SelectCurrentReports(Scan(w), LoadReports(w))
  OBVIOUS
<1> HIDE DEF comment, rs
<1>6. CASE \E s \in {"failed", "load", "done"} : at' = [at EXCEPT ![w] = s] /\ shown' = shown
  BY <1>1, <1>2, <1>6, NothingShown DEF Places
<1>7. CASE at' = [at EXCEPT ![w] = "post"] /\ shown' = [shown EXCEPT ![w] = comment]
  BY <1>1, <1>2, <1>4, <1>5, <1>7, SummaryShown
<1> QED
  BY <1>3, <1>6, <1>7

LEMMA LoadSummaryReportKeeps ==
  ASSUME FilesInv, NEW w \in Pipelines, LoadSummaryReport(w)
  PROVE  FilesInv'
<1> DEFINE c == Scan(w)  rs == SelectCurrentReports(c, LoadReports(w))
           shownReport == [form |-> "report", plans |-> c, reports |-> rs,
                           status |-> strictestReportStatus(rs), labels |-> {}]
<1>1. at[w] = "load" /\ UNCHANGED <<kind, plan, results, report, ended, told>>
  BY DEF LoadSummaryReport
<1>2. ~composed(w) /\ Producers \subseteq ended[w]
  BY <1>1 DEF FilesInv, ShowsTruth
<1>3. \/ \E s \in {"failed", "done"} : at' = [at EXCEPT ![w] = s] /\ shown' = shown
      \/ at' = [at EXCEPT ![w] = "done"] /\ shown' = [shown EXCEPT ![w] = shownReport]
  BY DEF LoadSummaryReport
<1>4. shownReport.plans = c /\ shownReport.reports = rs /\ shownReport.form = "report"
  OBVIOUS
<1>5. rs = SelectCurrentReports(Scan(w), LoadReports(w))
  OBVIOUS
<1> HIDE DEF shownReport, rs
<1>6. CASE \E s \in {"failed", "done"} : at' = [at EXCEPT ![w] = s] /\ shown' = shown
  BY <1>1, <1>2, <1>6, NothingShown DEF Places
<1>7. CASE at' = [at EXCEPT ![w] = "done"] /\ shown' = [shown EXCEPT ![w] = shownReport]
  BY <1>1, <1>2, <1>4, <1>5, <1>7, SummaryShown
<1> QED
  BY <1>3, <1>6, <1>7

-----------------------------------------------------------------------------
(* The comment *)

LEMMA NotesAre ==
  ASSUME PostShape
  PROVE  /\ Len(notes) \in Nat /\ DOMAIN notes = 1 .. Len(notes)
         /\ notes \in [1 .. Len(notes) -> Range(notes)]
         /\ notes = <<>> <=> Len(notes) = 0
<1>1. notes \in Seq(Range(notes))
  BY DEF PostShape
<1> QED
  BY <1>1, LenProperties, EmptySeq

\* The comment that is looked for is the only one, and its labels are all.
LEMMA FoundNote ==
  ASSUME PostShape, Len(notes) <= 1
  PROVE  /\ FindTerraCIComment = Len(notes)
         /\ managed = IF FindTerraCIComment = 0 THEN {} ELSE ExtractManagedLabels(FindTerraCIComment)
<1>1. CASE Len(notes) = 0
  BY <1>1, NotesAre DEF FindTerraCIComment, managed
<1>2. CASE Len(notes) = 1
  <2>1. DOMAIN notes = {1} /\ FindTerraCIComment = 1
    BY <1>2, NotesAre DEF FindTerraCIComment
  <2> QED
    BY <1>2, <2>1 DEF managed, ExtractManagedLabels
<1> QED
  BY <1>1, <1>2, NotesAre

LEMMA WrittenNotes ==
  ASSUME PostShape, NEW w \in Pipelines, write(w)
  PROVE  /\ notes' \in Seq(Range(notes'))
         /\ Len(notes) <= 1 /\ post[w].note = Len(notes) =>
              Len(notes') = 1 /\ managed' = shown[w].labels
<1> DEFINE e == EmbedManagedLabels(shown[w])
<1>1. e.labels = shown[w].labels
  BY DEF EmbedManagedLabels
<1> HIDE DEF e
<1>2. CASE post[w].note = 0
  <2>1. notes' = Append(notes, e)
    BY <1>2 DEF write, e
  <2>2. notes \in Seq(Range(notes) \cup {e})
    BY SeqMonotonic DEF PostShape
  <2>3. /\ Len(notes') = Len(notes) + 1 /\ DOMAIN notes' = 1 .. Len(notes) + 1
        /\ notes'[Len(notes) + 1] = e
        /\ notes' \in [1 .. Len(notes) + 1 -> Range(notes) \cup {e}]
    <3>1. e \in Range(notes) \cup {e}
      OBVIOUS
    <3>2. /\ notes' \in Seq(Range(notes) \cup {e})
          /\ Len(notes') = Len(notes) + 1 /\ notes'[Len(notes) + 1] = e
      BY <2>1, <2>2, <3>1, AppendProperties
    <3> QED
      BY <3>2, LenProperties
  <2>4. notes' \in [1 .. Len(notes) + 1 -> Range(notes')]
    BY <2>3 DEF Range
  <2>5. notes' \in Seq(Range(notes'))
    BY <2>4, NotesAre
  <2>6. Len(notes) = 0 => DOMAIN notes' = {1} /\ notes'[1] = e
    BY <2>3
  <2>7. Len(notes) = 0 => managed' = e.labels
    BY <2>6 DEF managed
  <2> QED
    BY <1>1, <1>2, <2>3, <2>5, <2>7
<1>3. CASE post[w].note # 0
  <2>1. notes' = [notes EXCEPT ![post[w].note] = e]
    BY <1>3 DEF write, e
  <2>2. notes' \in [1 .. Len(notes) -> Range(notes')]
    BY <2>1, NotesAre DEF Range
  <2>3. notes' \in Seq(Range(notes')) /\ Len(notes') = Len(notes)
    BY <2>2, NotesAre
  <2>4. ASSUME Len(notes) <= 1, post[w].note = Len(notes)
        PROVE  Len(notes') = 1 /\ managed' = e.labels
    <3>1. Len(notes) = 1 /\ DOMAIN notes' = {1} /\ notes'[1] = e
      BY <1>3, <2>1, <2>4, NotesAre
    <3> QED
      BY <2>3, <3>1 DEF managed
  <2> QED
    BY <1>1, <2>3, <2>4
<1> QED
  BY <1>2, <1>3

-----------------------------------------------------------------------------
(* Posting *)

\* Nothing of the posting changes, and what is being posted stays.
LEMMA PostStands ==
  ASSUME PostInv, UNCHANGED reviewVars,
         \A w \in Pipelines : posting(w) => at'[w] = "post" /\ shown'[w] = shown[w]
  PROVE  PostInv'
<1> USE DEF reviewVars
<1>1. PostShape' /\ Alone'
  BY DEF PostInv, PostShape, Alone, posting
<1>2. managed' = managed
  BY DEF managed
<1>3. ASSUME NEW w \in Pipelines, Way(w) PROVE Way(w)'
  BY <1>2, <1>3 DEF Way, posting
<1>4. LabelsOnTheWay'
  BY <1>2, <1>3 DEF PostInv, LabelsOnTheWay, posting
<1> QED
  BY <1>1, <1>4 DEF PostInv

\* A step of the posting of a pipeline.
LEMMA PostMoves ==
  ASSUME PostInv, NEW w \in Pipelines, at' = at, at[w] = "post", own' = own,
         NEW x, post' = [post EXCEPT ![w] = x],
         DOMAIN x = {"at", "previous", "note", "remove"}, x.at \in PostPlaces,
         notes' \in Seq(Range(notes')), trouble \subseteq trouble',
         "overlap" \notin trouble' =>
           /\ \A v \in Pipelines \ {w} : ~posting(v)
           /\ Len(notes') <= 1
           /\ x.at = "upsert" => x.note = Len(notes'),
         trouble' = {} =>
           /\ \A l \in managed' : l[1] \in Templates
           /\ x.at \in {"idle", "done", "failed"} => labels' = own \cup managed'
           /\ Way(w)'
  PROVE  PostInv'
<1>1. post'[w] = x /\ \A v \in Pipelines \ {w} : post'[v] = post[v]
  BY DEF PostInv, PostShape
<1>2. PostShape'
  BY <1>1 DEF PostInv, PostShape, posting
<1>3. Alone'
  BY <1>1 DEF PostInv, Alone, posting
<1>4. ASSUME trouble' = {} PROVE LabelsOnTheWay'
  <2>1. trouble = {} /\ \A v \in Pipelines \ {w} : ~posting(v)
    BY <1>4
  <2>2. \A v \in Pipelines \ {w} : post'[v].at \in {"idle", "done", "failed"}
    BY <1>1, <2>1 DEF posting
  <2>3. \A v \in Pipelines \ {w} : Way(v)'
    BY <2>2 DEF Way
  <2>4. own' \subseteq UserLabels
    BY <2>1 DEF PostInv, LabelsOnTheWay
  <2>5. (\A v \in Pipelines : ~posting(v)') => labels' = own' \cup managed'
    BY <1>1, <1>4 DEF posting
  <2> QED
    BY <1>4, <2>3, <2>4, <2>5 DEF LabelsOnTheWay
<1>5. LabelsOnTheWay'
  BY <1>4 DEF LabelsOnTheWay
<1> QED
  BY <1>2, <1>3, <1>5 DEF PostInv

LEMMA ReadCommentKeeps ==
  ASSUME FilesInv, PostInv, NEW w \in Pipelines, ReadComment(w)
  PROVE  PostInv'
<1> DEFINE found == IF FindTerraCIComment = 0 THEN {} ELSE ExtractManagedLabels(FindTerraCIComment)
           overlap == IF \E v \in Pipelines \ {w} : posting(v) THEN {"overlap"} ELSE {}
<1>1. /\ UNCHANGED <<at, notes, labels, own>> /\ at[w] = "post" /\ post[w].at \in {"idle", "failed"}
      /\ overlap \subseteq trouble' /\ trouble \subseteq trouble'
  BY DEF ReadComment, workspaceVars, filesVars
<1>2. PICK x : /\ post' = [post EXCEPT ![w] = x]
               /\ DOMAIN x = {"at", "previous", "note", "remove"} /\ x.at = "find"
               /\ trouble' = {} => x.previous = found
  <2> DEFINE y == [idle EXCEPT !.at = "find", !.previous = found]
             z == [idle EXCEPT !.at = "find"]
  <2>1. DOMAIN y = {"at", "previous", "note", "remove"} /\ y.at = "find" /\ y.previous = found
    BY DEF idle
  <2>2. DOMAIN z = {"at", "previous", "note", "remove"} /\ z.at = "find"
    BY DEF idle
  <2>3. \/ post' = [post EXCEPT ![w] = y]
        \/ post' = [post EXCEPT ![w] = z] /\ "failure" \in trouble'
    BY DEF ReadComment
  <2> HIDE DEF y, z, found
  <2> QED
    BY <2>1, <2>2, <2>3
<1>3. PostShape /\ notes' \in Seq(Range(notes')) /\ managed' = managed
  BY <1>1 DEF PostInv, PostShape, managed
<1>4. ASSUME "overlap" \notin trouble'
      PROVE  (\A v \in Pipelines \ {w} : ~posting(v)) /\ Len(notes) <= 1
  BY <1>1, <1>4 DEF PostInv, Alone
<1>5. ASSUME trouble' = {}
      PROVE  (\A l \in managed' : l[1] \in Templates) /\ Way(w)'
  <2>1. trouble = {} /\ "overlap" \notin trouble' /\ \A v \in Pipelines \ {w} : ~posting(v)
    BY <1>1, <1>4, <1>5
  <2>2. \A v \in Pipelines : ~posting(v)
    BY <1>1, <2>1 DEF posting
  <2>3. labels = own \cup managed /\ \A l \in managed : l[1] \in Templates
    BY <2>1, <2>2 DEF PostInv, LabelsOnTheWay
  <2>4. found = managed
    BY <1>3, <1>4, <2>1, FoundNote
  <2>5. post'[w] = x
    BY <1>2, <1>3 DEF PostShape
  <2> HIDE DEF found
  <2>6. Way(w)'
    BY <1>1, <1>2, <1>3, <1>5, <2>3, <2>4, <2>5 DEF Way
  <2> QED
    BY <1>3, <2>3, <2>6
<1> HIDE DEF overlap, found
<1> QED
  BY <1>1, <1>2, <1>3, <1>4, <1>5, PostMoves DEF PostPlaces

\* The pipeline that posts is the only one.
LEMMA OnlyOne ==
  ASSUME PostInv, NEW w \in Pipelines, posting(w)
  PROVE  /\ PostShape /\ at[w] = "post"
         /\ "overlap" \notin trouble => Len(notes) <= 1 /\ \A v \in Pipelines \ {w} : ~posting(v)
BY DEF PostInv, PostShape, Alone

\* A step that fails, with whatever it has done to the comment.
LEMMA PostFails ==
  ASSUME PostInv, NEW w \in Pipelines, posting(w),
         at' = at, own' = own, trouble' = trouble \cup {"failure"},
         notes' \in Seq(Range(notes')), "overlap" \notin trouble => Len(notes') <= 1,
         NEW s \in {"done", "failed"}, post' = [post EXCEPT ![w].at = s]
  PROVE  PostInv'
<1> DEFINE x == [post[w] EXCEPT !.at = s]
<1>1. PostShape /\ at[w] = "post"
      /\ ("overlap" \notin trouble => \A v \in Pipelines \ {w} : ~posting(v))
  BY OnlyOne
<1>2. post' = [post EXCEPT ![w] = x]
  OBVIOUS
<1>3. DOMAIN x = {"at", "previous", "note", "remove"} /\ x.at = s
  BY <1>1 DEF PostShape
<1> HIDE DEF x
<1> QED
  BY <1>1, <1>2, <1>3, PostMoves DEF PostPlaces

LEMMA FindNoteKeeps ==
  ASSUME FilesInv, PostInv, NEW w \in Pipelines, FindNote(w)
  PROVE  PostInv'
<1>1. /\ UNCHANGED <<at, notes, labels, own>> /\ post[w].at = "find" /\ posting(w)
  BY DEF FindNote, failedPost, failure, nothingFails, workspaceVars, filesVars, posting
<1>2. PostShape /\ at[w] = "post" /\ notes' \in Seq(Range(notes')) /\ managed' = managed
  BY <1>1, OnlyOne DEF PostShape, managed
<1>3. CASE failedPost(w)
  <2>1. "overlap" \notin trouble => Len(notes') <= 1
    BY <1>1, OnlyOne
  <2>2. trouble' = trouble \cup {"failure"} /\ post' = [post EXCEPT ![w].at = "failed"]
    BY <1>3 DEF failedPost, failure
  <2> QED
    BY <1>1, <1>2, <2>1, <2>2, PostFails
<1>4. CASE post' = [post EXCEPT ![w].at = "upsert", ![w].note = FindTerraCIComment] /\ nothingFails
  <2> DEFINE x == [post[w] EXCEPT !.at = "upsert", !.note = FindTerraCIComment]
  <2>1. post' = [post EXCEPT ![w] = x]
    BY <1>2, <1>4 DEF PostShape
  <2>2. /\ DOMAIN x = {"at", "previous", "note", "remove"} /\ x.at = "upsert"
        /\ x.note = FindTerraCIComment /\ x.previous = post[w].previous
    BY <1>2 DEF PostShape
  <2> HIDE DEF x
  <2>3. trouble' = trouble
    BY <1>4 DEF nothingFails
  <2>4. ASSUME "overlap" \notin trouble'
        PROVE  /\ \A v \in Pipelines \ {w} : ~posting(v)
               /\ Len(notes') <= 1 /\ x.note = Len(notes')
    BY <1>1, <1>2, <2>2, <2>3, <2>4, OnlyOne, FoundNote
  <2>5. ASSUME trouble' = {}
        PROVE  (\A l \in managed' : l[1] \in Templates) /\ Way(w)'
    <3>1. Way(w) /\ \A l \in managed : l[1] \in Templates
      BY <2>3, <2>5 DEF PostInv, LabelsOnTheWay
    <3>2. post'[w] = x
      BY <1>2, <2>1 DEF PostShape
    <3> QED
      BY <1>1, <1>2, <2>2, <3>1, <3>2 DEF Way
  <2> QED
    BY <1>1, <1>2, <2>1, <2>2, <2>3, <2>4, <2>5, PostMoves DEF PostPlaces
<1> QED
  BY <1>3, <1>4 DEF FindNote

LEMMA UpsertNoteKeeps ==
  ASSUME FilesInv, PostInv, NEW w \in Pipelines, UpsertNote(w)
  PROVE  PostInv'
<1>1. /\ UNCHANGED <<at, shown, labels, own>> /\ post[w].at = "upsert" /\ posting(w)
      /\ write(w) \/ UNCHANGED notes
  BY DEF UpsertNote, failedPost, failure, nothingFails, workspaceVars, filesVars, posting
<1>2. PostShape /\ at[w] = "post"
  BY <1>1, OnlyOne
<1>3. "overlap" \notin trouble => Len(notes) <= 1 /\ post[w].note = Len(notes)
  BY <1>1 DEF PostInv, Alone
<1>4. notes' \in Seq(Range(notes')) /\ ("overlap" \notin trouble => Len(notes') <= 1)
  <2>1. CASE write(w)
    <3>1. notes' \in Seq(Range(notes'))
      BY <1>2, <2>1, WrittenNotes
    <3>2. "overlap" \notin trouble => Len(notes') = 1
      BY <1>2, <1>3, <2>1, WrittenNotes
    <3>3. \A n : n = 1 => n <= 1
      OBVIOUS
    <3> QED
      BY <3>1, <3>2, <3>3, Zenon
  <2>2. CASE UNCHANGED notes
    BY <1>2, <1>3, <2>2 DEF PostShape
  <2> QED
    BY <1>1, <2>1, <2>2
<1>5. CASE failedPost(w)
  <2>1. trouble' = trouble \cup {"failure"} /\ post' = [post EXCEPT ![w].at = "failed"]
    BY <1>5 DEF failedPost, failure
  <2> QED
    BY <1>1, <1>4, <2>1, PostFails
<1>6. ASSUME write(w), nothingFails,
             NEW s \in {"done", "remove"}, s = "done" <=> post[w].previous \cup shown[w].labels = {},
             post' = [post EXCEPT ![w].at = s, ![w].remove = removed(post[w].previous, shown[w].labels)]
      PROVE  PostInv'
  <2> DEFINE x == [post[w] EXCEPT !.at = s, !.remove = removed(post[w].previous, shown[w].labels)]
  <2>1. post' = [post EXCEPT ![w] = x]
    BY <1>2, <1>6 DEF PostShape
  <2>2. /\ DOMAIN x = {"at", "previous", "note", "remove"} /\ x.at = s
        /\ x.previous = post[w].previous /\ x.remove = post[w].previous \ shown[w].labels
    BY <1>2 DEF PostShape, removed
  <2> HIDE DEF x
  <2>3. trouble' = trouble
    BY <1>6 DEF nothingFails
  <2>4. ASSUME trouble' = {}
        PROVE  /\ \A l \in managed' : l[1] \in Templates
               /\ x.at = "done" => labels' = own \cup managed'
               /\ Way(w)'
    <3>1. /\ post[w].previous = managed /\ labels = own \cup managed
          /\ \A l \in managed : l[1] \in Templates
      BY <1>1, <2>3, <2>4 DEF PostInv, LabelsOnTheWay, Way
    <3>2. managed' = shown[w].labels
      BY <1>2, <1>3, <1>6, <2>3, <2>4, WrittenNotes
    <3>3. \A l \in shown[w].labels : l[1] \in Templates
      BY <1>2 DEF FilesInv, ShowsTruth
    <3>4. post'[w] = x
      BY <1>2, <2>1 DEF PostShape
    <3>5. Way(w)'
      BY <1>1, <1>6, <2>2, <3>1, <3>2, <3>4 DEF Way
    <3> QED
      BY <1>1, <1>6, <2>2, <3>1, <3>2, <3>3, <3>5
  <2>5. s \in PostPlaces
    BY DEF PostPlaces
  <2>6. "overlap" \notin trouble => \A v \in Pipelines \ {w} : ~posting(v)
    BY <1>1, OnlyOne
  <2> QED
    BY <1>1, <1>2, <1>4, <2>1, <2>2, <2>3, <2>4, <2>5, <2>6, PostMoves
<1>7. CASE /\ write(w) /\ nothingFails
           /\ post' = [post EXCEPT ![w].at = IF post[w].previous \cup shown[w].labels = {} THEN "done" ELSE "remove",
                                   ![w].remove = removed(post[w].previous, shown[w].labels)]
  BY <1>6, <1>7
<1> QED
  BY <1>5, <1>7 DEF UpsertNote

\* A label that people put on the request is not one that is generated.
LEMMA OwnLabels ==
  ASSUME trouble = {}, LabelsOnTheWay, NEW l, l \in UserLabels \/ l \in own
  PROVE  l[1] \notin Templates
BY OwnLabelsAssumption DEF LabelsOnTheWay

LEMMA RemoveLabelsKeeps ==
  ASSUME FilesInv, PostInv, NEW w \in Pipelines, RemoveLabels(w)
  PROVE  PostInv'
<1>1. /\ UNCHANGED <<at, shown, notes, own>> /\ post[w].at = "remove" /\ posting(w)
  BY DEF RemoveLabels, givenUp, labelIsGone, failure, nothingFails, workspaceVars, filesVars, posting
<1>2. /\ PostShape /\ at[w] = "post" /\ notes' \in Seq(Range(notes')) /\ managed' = managed
      /\ ("overlap" \notin trouble => Len(notes') <= 1 /\ \A v \in Pipelines \ {w} : ~posting(v))
  BY <1>1, OnlyOne DEF PostShape, managed
<1>3. CASE givenUp(w) \/ labelIsGone(w)
  <2>1. trouble' = trouble \cup {"failure"} /\ post' = [post EXCEPT ![w].at = "done"]
    BY <1>3 DEF givenUp, labelIsGone, failure
  <2> QED
    BY <1>1, <1>2, <2>1, PostFails
<1>4. ASSUME trouble' = trouble, NEW s \in {"remove", "add"}, NEW gone, NEW left,
             gone \subseteq post[w].remove, left = post[w].remove \ gone,
             s = "add" => left = {},
             labels' = labels \ gone,
             NEW x, post' = [post EXCEPT ![w] = x],
             DOMAIN x = {"at", "previous", "note", "remove"}, x.at = s,
             x.previous = post[w].previous, s = "remove" => x.remove = left
      PROVE  PostInv'
  <2>1. ASSUME trouble' = {}
        PROVE  (\A l \in managed' : l[1] \in Templates) /\ Way(w)'
    <3>1. /\ managed = shown[w].labels /\ \A l \in post[w].previous : l[1] \in Templates
          /\ post[w].remove \subseteq post[w].previous \ shown[w].labels
          /\ labels = own \cup (post[w].previous \cap shown[w].labels) \cup post[w].remove
          /\ LabelsOnTheWay /\ \A l \in managed : l[1] \in Templates
      BY <1>1, <1>4, <2>1 DEF PostInv, LabelsOnTheWay, Way
    <3>2. \A l \in own : l \notin post[w].remove
      BY <1>4, <2>1, <3>1, OwnLabels
    <3>3. labels' = own \cup (post[w].previous \cap shown[w].labels) \cup left
      BY <1>4, <3>1, <3>2
    <3>4. left \subseteq post[w].previous \ shown[w].labels
      BY <1>4, <3>1
    <3>5. post'[w] = x
      BY <1>2, <1>4 DEF PostShape
    <3> QED
      BY <1>1, <1>2, <1>4, <3>1, <3>3, <3>4, <3>5 DEF Way
  <2>2. s \in PostPlaces
    BY DEF PostPlaces
  <2> QED
    BY <1>1, <1>2, <1>4, <2>1, <2>2, PostMoves
<1>5. CASE labels' = labels \ post[w].remove /\ post' = [post EXCEPT ![w].at = "add"] /\ nothingFails
  <2> DEFINE x == [post[w] EXCEPT !.at = "add"]
  <2>1. post' = [post EXCEPT ![w] = x]
    BY <1>5
  <2>2. DOMAIN x = {"at", "previous", "note", "remove"} /\ x.at = "add" /\ x.previous = post[w].previous
    BY <1>2 DEF PostShape
  <2>3. trouble' = trouble
    BY <1>5 DEF nothingFails
  <2> HIDE DEF x
  <2>4. {} = post[w].remove \ post[w].remove
    OBVIOUS
  <2> QED
    BY <1>4, <1>5, <2>1, <2>2, <2>3, <2>4
<1>6. ASSUME NEW l \in post[w].remove \cap labels, labels' = labels \ {l},
             post' = [post EXCEPT ![w].remove = @ \ {l}], nothingFails
      PROVE  PostInv'
  <2> DEFINE x == [post[w] EXCEPT !.remove = post[w].remove \ {l}]
  <2>1. post' = [post EXCEPT ![w] = x]
    BY <1>6
  <2>2. /\ DOMAIN x = {"at", "previous", "note", "remove"} /\ x.at = "remove"
        /\ x.previous = post[w].previous /\ x.remove = post[w].remove \ {l}
    BY <1>1, <1>2 DEF PostShape
  <2>3. trouble' = trouble
    BY <1>6 DEF nothingFails
  <2> HIDE DEF x
  <2>4. {l} \subseteq post[w].remove
    BY <1>6
  <2> QED
    BY <1>4, <1>6, <2>1, <2>2, <2>3, <2>4
<1> QED
  BY <1>3, <1>5, <1>6 DEF RemoveLabels

LEMMA AddLabelsKeeps ==
  ASSUME FilesInv, PostInv, NEW w \in Pipelines, AddLabels(w)
  PROVE  PostInv'
<1>1. /\ UNCHANGED <<at, shown, notes, own>> /\ post[w].at = "add" /\ posting(w)
  BY DEF AddLabels, givenUp, failure, nothingFails, workspaceVars, filesVars, posting
<1>2. /\ PostShape /\ at[w] = "post" /\ notes' \in Seq(Range(notes')) /\ managed' = managed
      /\ ("overlap" \notin trouble => Len(notes') <= 1 /\ \A v \in Pipelines \ {w} : ~posting(v))
  BY <1>1, OnlyOne DEF PostShape, managed
<1>3. CASE givenUp(w)
  <2>1. trouble' = trouble \cup {"failure"} /\ post' = [post EXCEPT ![w].at = "done"]
    BY <1>3 DEF givenUp, failure
  <2> QED
    BY <1>1, <1>2, <2>1, PostFails
<1>4. CASE /\ labels' = labels \cup added(post[w].previous, shown[w].labels)
           /\ post' = [post EXCEPT ![w].at = "done"] /\ nothingFails
  <2> DEFINE x == [post[w] EXCEPT !.at = "done"]
  <2>1. post' = [post EXCEPT ![w] = x]
    BY <1>4
  <2>2. DOMAIN x = {"at", "previous", "note", "remove"} /\ x.at = "done"
    BY <1>2 DEF PostShape
  <2>3. trouble' = trouble
    BY <1>4 DEF nothingFails
  <2> HIDE DEF x
  <2>4. ASSUME trouble' = {}
        PROVE  (\A l \in managed' : l[1] \in Templates) /\ labels' = own \cup managed' /\ Way(w)'
    <3>1. /\ managed = shown[w].labels /\ \A l \in managed : l[1] \in Templates
          /\ labels = own \cup (post[w].previous \cap shown[w].labels)
      BY <1>1, <2>3, <2>4 DEF PostInv, LabelsOnTheWay, Way
    <3>2. labels' = own \cup managed'
      BY <1>2, <1>4, <3>1 DEF added
    <3>3. post'[w].at = "done"
      BY <1>2, <2>1, <2>2 DEF PostShape
    <3>4. Way(w)'
      BY <3>3 DEF Way
    <3> QED
      BY <1>2, <3>1, <3>2, <3>4
  <2> QED
    BY <1>1, <1>2, <2>1, <2>2, <2>3, <2>4, PostMoves DEF PostPlaces
<1> QED
  BY <1>3, <1>4 DEF AddLabels

\* Labels of people come and go beside the generated ones.
LEMMA EditKeeps ==
  ASSUME PostInv, Edit
  PROVE  PostInv'
<1>1. UNCHANGED <<workspaceVars, notes, post, trouble>>
  BY DEF Edit
<1>2. PICK l \in UserLabels : \/ labels' = labels \cup {l} /\ own' = own \cup {l}
                              \/ labels' = labels \ {l} /\ own' = own \ {l}
  BY DEF Edit
<1>3. PostShape' /\ Alone' /\ managed' = managed
  BY <1>1 DEF PostInv, PostShape, Alone, posting, managed, workspaceVars
<1>4. ASSUME trouble' = {} PROVE LabelsOnTheWay'
  <2>1. trouble = {} /\ LabelsOnTheWay
    BY <1>1, <1>4 DEF PostInv
  <2>2. l[1] \notin Templates
    BY OwnLabelsAssumption
  <2>3. l \notin managed
    BY <2>1, <2>2 DEF LabelsOnTheWay
  <2>4. own' \subseteq UserLabels
    BY <1>2, <2>1 DEF LabelsOnTheWay
  <2>5. \A X : l \notin X /\ labels = own \cup X => labels' = own' \cup X
    BY <1>2
  <2>6. ASSUME NEW w \in Pipelines PROVE Way(w)'
    <3>1. Way(w)
      BY <2>1 DEF LabelsOnTheWay
    <3>2. post' = post /\ shown' = shown
      BY <1>1 DEF workspaceVars
    <3>3. CASE post[w].at \in {"find", "upsert"}
      BY <1>3, <2>3, <2>5, <3>1, <3>2, <3>3 DEF Way
    <3>4. CASE post[w].at = "remove"
      <4> DEFINE X == (post[w].previous \cap shown[w].labels) \cup post[w].remove
      <4>1. l \notin X /\ labels = own \cup X
        BY <2>2, <3>1, <3>4 DEF Way
      <4>2. labels' = own' \cup X
        BY <2>5, <4>1
      <4> QED
        BY <1>3, <3>1, <3>2, <3>4, <4>2 DEF Way
    <3>5. CASE post[w].at = "add"
      <4> DEFINE X == post[w].previous \cap shown[w].labels
      <4>1. l \notin X /\ labels = own \cup X
        BY <2>2, <3>1, <3>5 DEF Way
      <4>2. labels' = own' \cup X
        BY <2>5, <4>1
      <4> QED
        BY <1>3, <3>1, <3>2, <3>5, <4>2 DEF Way
    <3>6. CASE post[w].at \notin {"find", "upsert", "remove", "add"}
      BY <3>2, <3>6 DEF Way
    <3> QED
      BY <3>3, <3>4, <3>5, <3>6
  <2>7. (\A w \in Pipelines : ~posting(w)') => labels' = own' \cup managed'
    BY <1>1, <1>3, <2>1, <2>3, <2>5 DEF LabelsOnTheWay, posting
  <2>8. \A m \in managed' : m[1] \in Templates
    BY <1>3, <2>1 DEF LabelsOnTheWay
  <2> QED
    BY <2>4, <2>6, <2>7, <2>8 DEF LabelsOnTheWay
<1>5. LabelsOnTheWay'
  BY <1>4 DEF LabelsOnTheWay
<1> QED
  BY <1>3, <1>5 DEF PostInv

-----------------------------------------------------------------------------
(* Steps *)

LEMMA FilesStand ==
  ASSUME FilesInv, UNCHANGED filesVars
  PROVE  FilesInv'
<1>1. \A v \in Pipelines : (\A p \in Producers : TellsTruth(v, p)') /\ ShowsTruth(v)'
  BY StandsStill DEF filesVars
<1>2. FilesShape'
  BY DEF FilesInv, FilesShape, filesVars
<1> QED
  BY <1>1, <1>2 DEF FilesInv

LEMMA PostKeepsFiles ==
  ASSUME FilesInv, NEW w \in Pipelines, Post(w)
  PROVE  FilesInv'
<1>1. CASE UNCHANGED filesVars
  BY <1>1, FilesStand
<1>2. CASE EndPost(w)
  <2>0. FilesShape /\ ShowsTruth(w) /\ \A p \in Producers : TellsTruth(w, p)
    BY DEF FilesInv
  <2>1. /\ at[w] = "post" /\ at' = [at EXCEPT ![w] = "done"]
        /\ UNCHANGED <<plan, results, report, ended, told, shown>>
    BY <1>2 DEF EndPost
  <2>2. at'[w] = "done" /\ (\A v \in Pipelines \ {w} : at'[v] = at[v]) /\ at' \in [Pipelines -> Places]
    BY <2>0, <2>1 DEF FilesShape, Places
  <2>3. FilesShape'
    BY <2>0, <2>1, <2>2 DEF FilesShape
  <2>4. Scan(w)' = Scan(w)
    BY <2>1, SameScan
  <2>5. \A p \in Producers : TellsTruth(w, p)'
    BY <2>0, <2>1, <2>2, <2>4 DEF TellsTruth
  <2>6. ShowsTruth(w)'
    BY <2>0, <2>1, <2>2 DEF ShowsTruth, composed
  <2>7. \A v \in Pipelines \ {w} : (\A p \in Producers : TellsTruth(v, p)') /\ ShowsTruth(v)'
    BY <2>1, <2>2, StandsStill
  <2> QED
    BY <2>3, <2>5, <2>6, <2>7 DEF FilesInv
<1>3. EndPost(w) \/ UNCHANGED filesVars
  BY DEF Post, ReadComment, FindNote, UpsertNote, RemoveLabels, AddLabels, failedPost, givenUp,
         labelIsGone, failure, nothingFails, workspaceVars, filesVars
<1> QED
  BY <1>1, <1>2, <1>3

LEMMA WorkspaceKeepsFiles ==
  ASSUME FilesInv, NEW w \in Pipelines, WorkspaceNext(w)
  PROVE  FilesInv'
BY RunPlanKeeps, ProduceKeeps, ComposeKeeps, LoadSummaryReportKeeps DEF WorkspaceNext

\* What a pipeline does in its workspace is before its posting and apart from
\* that of the others.
LEMMA WorkspacesAreApart ==
  ASSUME FilesInv, NEW w \in Pipelines, WorkspaceNext(w)
  PROVE  /\ at[w] # "post"
         /\ \A v \in Pipelines \ {w} : at'[v] = at[v] /\ shown'[v] = shown[v]
<1> USE DEF FilesInv, FilesShape
<1>1. ASSUME NEW m \in Modules, RunPlan(w, m)
      PROVE  at[w] # "post" /\ \A v \in Pipelines \ {w} : at'[v] = at[v] /\ shown'[v] = shown[v]
  BY <1>1 DEF RunPlan
<1>2. ASSUME NEW p \in Producers, Produce(w, p)
      PROVE  at[w] # "post" /\ \A v \in Pipelines \ {w} : at'[v] = at[v] /\ shown'[v] = shown[v]
  <2>1. at[w] # "post" /\ shown' = shown
    BY <1>2 DEF Produce
  <2>2. \E s : at' = [at EXCEPT ![w] = s]
    BY <1>2 DEF Produce
  <2> QED
    BY <2>1, <2>2
<1>3. CASE Compose(w)
  <2>1. at[w] # "post"
    BY <1>3 DEF Compose
  <2>2. \E s : at' = [at EXCEPT ![w] = s]
    BY <1>3 DEF Compose
  <2>3. shown' = shown \/ \E x : shown' = [shown EXCEPT ![w] = x]
    BY <1>3 DEF Compose
  <2> QED
    BY <2>1, <2>2, <2>3
<1>4. CASE LoadSummaryReport(w)
  <2>1. at[w] # "post"
    BY <1>4 DEF LoadSummaryReport
  <2>2. \E s : at' = [at EXCEPT ![w] = s]
    BY <1>4 DEF LoadSummaryReport
  <2>3. shown' = shown \/ \E x : shown' = [shown EXCEPT ![w] = x]
    BY <1>4 DEF LoadSummaryReport
  <2> QED
    BY <2>1, <2>2, <2>3
<1> QED
  BY <1>1, <1>2, <1>3, <1>4 DEF WorkspaceNext

LEMMA WorkspaceKeepsPost ==
  ASSUME FilesInv, PostInv, NEW w \in Pipelines, WorkspaceNext(w), UNCHANGED reviewVars
  PROVE  PostInv'
<1>1. \A v \in Pipelines : posting(v) => at[v] = "post"
  BY DEF PostInv, PostShape
<1>2. \A v \in Pipelines : posting(v) => at'[v] = "post" /\ shown'[v] = shown[v]
  BY <1>1, WorkspacesAreApart
<1> QED
  BY <1>2, PostStands

LEMMA PostKeepsPost ==
  ASSUME FilesInv, PostInv, NEW w \in Pipelines, Post(w)
  PROVE  PostInv'
<1>1. CASE EndPost(w)
  <2>1. /\ at' = [at EXCEPT ![w] = "done"] /\ ~posting(w) /\ shown' = shown /\ UNCHANGED reviewVars
    BY <1>1 DEF EndPost, posting
  <2>2. \A v \in Pipelines \ {w} : at'[v] = at[v]
    BY <2>1 DEF FilesInv, FilesShape
  <2>3. \A v \in Pipelines : posting(v) => at[v] = "post"
    BY DEF PostInv, PostShape
  <2> QED
    BY <2>1, <2>2, <2>3, PostStands
<1> QED
  BY <1>1, ReadCommentKeeps, FindNoteKeeps, UpsertNoteKeeps, RemoveLabelsKeeps, AddLabelsKeeps DEF Post

LEMMA PostInvInit ==
  ASSUME ReviewInit
  PROVE  PostInv
<1> USE DEF ReviewInit
<1>1. managed = {}
  BY DEF managed
<1>2. PostShape
  BY EmptySeq DEF PostShape, idle, PostPlaces, posting
<1>3. Alone
  BY EmptySeq DEF Alone, idle, posting
<1>4. LabelsOnTheWay
  BY <1>1 DEF LabelsOnTheWay, Way, idle
<1> QED
  BY <1>2, <1>3, <1>4 DEF PostInv

\* The invariant that the properties of the summary and of the review follow
\* from: what each publication has told is true of the two files it left, and
\* between two requests of a posting (posting.go:35-66, managed_labels.go:98-119)
\* the labels still to be removed and to be added make up the difference.
THEOREM ReviewInvHolds == ReportsSpec => []ReviewInv
<1>1. FilesInit \/ ContentsInit => ReviewInv
  BY FilesInvInit, PostInvInit DEF FilesInit, ContentsInit, ReviewInv
<1>2. ReviewInv /\ [ReportsNext]_<<vars, contentVars>> => ReviewInv'
  <2> SUFFICES ASSUME ReviewInv, [ReportsNext]_<<vars, contentVars>> PROVE ReviewInv'
    OBVIOUS
  <2>0. FilesInv /\ PostInv
    BY DEF ReviewInv
  <2>1. CASE UNCHANGED vars
    <3>1. FilesInv'
      BY <2>0, <2>1, FilesStand DEF vars, workspaceVars, filesVars
    <3>2. PostInv'
      BY <2>0, <2>1, PostStands DEF vars, workspaceVars, PostInv, PostShape
    <3> QED
      BY <3>1, <3>2 DEF ReviewInv
  <2>2. CASE Next
    <3>1. ASSUME NEW w \in Pipelines, WorkspaceNext(w), UNCHANGED reviewVars PROVE ReviewInv'
      BY <2>0, <3>1, WorkspaceKeepsFiles, WorkspaceKeepsPost DEF ReviewInv
    <3>2. ASSUME NEW w \in Pipelines, Post(w) PROVE ReviewInv'
      BY <2>0, <3>2, PostKeepsFiles, PostKeepsPost DEF ReviewInv
    <3>3. CASE Edit
      <4>1. FilesInv'
        BY <2>0, <3>3, FilesStand DEF Edit, workspaceVars, filesVars
      <4> QED
        BY <2>0, <3>3, <4>1, EditKeeps DEF ReviewInv
    <3> QED
      BY <2>2, <3>1, <3>2, <3>3 DEF Next
  <2> QED
    BY <2>1, <2>2 DEF ReportsNext, ContentsNext
<1> QED
  BY <1>1, <1>2, PTL DEF ReportsSpec

\* A summary is about one set of plans, and no report published from them
\* without an error is missing (report_freshness.go:47-120, report_store.go:241-276).
THEOREM Summaries == ReportsSpec => []SummaryIsOfItsPlans
<1>1. ReviewInv => SummaryIsOfItsPlans
  BY DEF ReviewInv, FilesInv, ShowsTruth, SummaryIsOfItsPlans
<1> QED
  BY <1>1, ReviewInvHolds, PTL

\* No report stands beside results it does not belong to after a publication
\* that reported no error (report_store.go:212-239, 342-365).
THEOREM Publications == ReportsSpec => []ReportsFollowResults
<1>1. ReviewInv => ReportsFollowResults
  BY DEF ReviewInv, FilesInv, TellsTruth, ReportsFollowResults
<1> QED
  BY <1>1, ReviewInvHolds, PTL

\* As long as no two pipelines post at once, a request has one comment
\* (mr/service.go:52-75, pr/service.go:47-69).
THEOREM Comments == ReportsSpec => []OneComment
<1>1. ReviewInv => OneComment
  BY DEF ReviewInv, PostInv, Alone, OneComment
<1> QED
  BY <1>1, ReviewInvHolds, PTL

\* Without failures and overlaps the labels of a request are those its comment
\* records and those people have put there (posting.go:35-66).
THEOREM Labels == ReportsSpec => []LabelsFollowComment
<1>1. ReviewInv => LabelsFollowComment
  BY DEF ReviewInv, PostInv, LabelsOnTheWay, LabelsFollowComment, managed
<1> QED
  BY <1>1, ReviewInvHolds, PTL
=============================================================================
