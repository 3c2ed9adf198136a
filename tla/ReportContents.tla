---------------------------- MODULE ReportContents ----------------------------
(***************************************************************************)
(* What the reports of a pipeline say: how a producer turns its results    *)
(* into a report, when such a report is refused, what of it is in its file *)
(* and what the reader of a summary comment or of the local output sees.   *)
(*                                                                         *)
(* A text is the sequence of its words, empty when the string is.          *)
(***************************************************************************)
EXTENDS MergeRequest

CONSTANTS
  Paths,           \* the modules the contents are about
  Results,         \* per producer, what it may have computed
  TerraformPlans,  \* what the plan.json of the modules may hold
  Environment,     \* the environment of each module
  MaxShown,        \* resources a comment lists per action
  MaxAddress,      \* words of an address that it shows
  OldFiles,        \* per producer, report files of another version of terraci
  MaxPublished     \* bound on the publications of a behaviour

VARIABLES
  planned,    \* per module: what terraform has written
  computed,   \* per producer: the results it has published, in a set
  stored,     \* per producer: its report file, in a set
  page        \* what the reader of the summary sees
contentVars == <<planned, computed, stored, page>>

Looked == DOMAIN Results   \* the producers whose reports are looked at

-----------------------------------------------------------------------------
(* Render values, blocks and sections *)

text(t) == [kind |-> "text", text |-> t]
code(t) == [kind |-> "code", text |-> t]
modulePath(m) == [kind |-> "module_path", text |-> <<m>>]
status(s) == [kind |-> "status", status |-> s]
label(t, tone) == [kind |-> "label", text |-> t, tone |-> tone]
money(n) == [kind |-> "money", amount |-> n]
moneyDelta(n) == [kind |-> "money_delta", amount |-> n]
RenderInline(parts) == IF Len(parts) = 1 THEN parts[1] ELSE [kind |-> "inline", parts |-> parts]

Statuses == {"pass", "warn", "fail"}
Tones == {"neutral", "info", "success", "warning", "failure"}
TextKinds == {"text", "code", "module_path"}

\* RenderValue.Validate.  No producer nests inline values.
validPart(v) ==
  \/ v.kind \in TextKinds /\ v.text # <<>>
  \/ v.kind = "status" /\ v.status \in Statuses
  \/ v.kind = "label" /\ v.text # <<>> /\ v.tone \in Tones
  \/ v.kind \in {"money", "money_delta"}
validValue(v) ==
  \/ v.kind = "inline" /\ v.parts # <<>> /\ \A i \in DOMAIN v.parts : validPart(v.parts[i])
  \/ validPart(v)

NewTextBlock(parts) == [kind |-> "text", title |-> <<>>, text |-> RenderInline(parts)]
NewListBlock(title, items) == [kind |-> "list", title |-> title, items |-> items]
NewTableBlock(title, columns, rows) ==
  [kind |-> "table", title |-> title, columns |-> [i \in DOMAIN columns |-> text(<<columns[i]>>)], rows |-> rows]
NewDetailsBlock(summary, body) == [kind |-> "details", summary |-> summary, body |-> body]

validTable(b) ==
  /\ b.columns # <<>>
  /\ \A i \in DOMAIN b.columns : validValue(b.columns[i])
  /\ \A i \in DOMAIN b.rows : /\ Len(b.rows[i]) <= Len(b.columns)
                              /\ \A j \in DOMAIN b.rows[i] : validValue(b.rows[i][j])
validBlock(b) ==
  CASE b.kind = "text"    -> validValue(b.text)
    [] b.kind = "list"    -> b.items # <<>> /\ \A i \in DOMAIN b.items : validValue(b.items[i])
    [] b.kind = "table"   -> validTable(b)
    [] b.kind = "details" -> b.summary # <<>>

\* The payload of a section is its blocks in JSON, with the version of their
\* form; an older terraci wrote strings where there are values now, and no version.
RenderPayloadSchemaVersion == 1
ReportSection(k, title, summary, s, payload) ==
  [kind |-> k, title |-> title, summary |-> summary, status |-> s, payload |-> payload]
NewRenderedSection(title, summary, s, blocks) ==
  ReportSection("rendered", title, summary, s, [version |-> {RenderPayloadSchemaVersion}, blocks |-> blocks])
readablePayload(p) == p.version = {RenderPayloadSchemaVersion}
DecodeRenderSection(s) ==
  IF s.kind = "rendered" /\ readablePayload(s.payload)
     /\ \A i \in DOMAIN s.payload.blocks : validBlock(s.payload.blocks[i])
    THEN {s.payload.blocks} ELSE {}

validSection(s) == s.status \in Statuses /\ DecodeRenderSection(s) # {}
validReport(r) ==
  /\ r.producer # "" /\ r.title # <<>> /\ r.status \in Statuses
  /\ \A i \in DOMAIN r.sections : validSection(r.sections[i])

\* NewRenderedReport with its one section, in a set that is empty when it is refused.
NewRenderedReport(p, title, s, summary, blocks) ==
  LET r == [producer |-> p, title |-> title, status |-> s, summary |-> summary,
            sections |-> <<NewRenderedSection(title, summary, s, blocks)>>]
  IN  IF validReport(r) THEN {r} ELSE {}

optional(present, b) == IF present THEN <<b>> ELSE <<>>

-----------------------------------------------------------------------------
(* Policy: one row per message *)

messageRow(m, s, f) == <<modulePath(m), status(s), code(<<f.namespace>>), text(f.message)>>
messageRows(x) ==
  [i \in DOMAIN x.failures |-> messageRow(x.module, "fail", x.failures[i])]
    \o [i \in DOMAIN x.warnings |-> messageRow(x.module, "warn", x.warnings[i])]

countOf(s, P(_)) == Len(SelectSeq(s, P))
policyReport(rs) ==
  LET rows == FlattenSeq([i \in DOMAIN rs |-> messageRows(rs[i])])
      failed == countOf(rs, LAMBDA x : x.failures # <<>>)
      warned == countOf(rs, LAMBDA x : x.failures = <<>> /\ x.warnings # <<>>)
  IN  NewRenderedReport("policy", <<"Policy Check">>, StatusFromCounts(failed, warned),
        <<"modules", Len(rs), "warned", warned, "failed", failed>>,
        optional(rows # <<>>, NewTableBlock(<<>>, <<"Module", "Severity", "Namespace", "Message">>, rows)))

-----------------------------------------------------------------------------
(* Cost: modules whose cost is or was not zero, errors, limitations, total *)

shouldShowReportModule(x) == x.error # <<>> \/ x.before # 0 \/ x.after # 0
costRow(x) == <<modulePath(x.module), money(x.before), money(x.after), moneyDelta(x.after - x.before)>>
formatModuleError(m, err) == RenderInline(<<modulePath(m), text(<<":">> \o err)>>)

sumOver(s, V(_)) == FoldLeft(LAMBDA n, x : n + V(x), 0, s)
buildCostTotalBlock(ms) ==
  LET before == sumOver(ms, LAMBDA x : x.before)
      after == sumOver(ms, LAMBDA x : x.after)
  IN  IF before = after THEN NewTextBlock(<<text(<<"Total:">>), money(after)>>)
      ELSE NewTextBlock(<<text(<<"Total:">>), money(before), text(<<"->">>), money(after),
                          text(<<"(">>), moneyDelta(after - before), text(<<")">>)>>)

\* The kinds of resources an estimate leaves out, or guesses.
buildCostLimitations(r) ==
  LET kinds == SelectSeq(<<"estimated", "unknown", "unsupported">>, LAMBDA k : r[k] > 0)
  IN  [i \in DOMAIN kinds |-> text(<<kinds[i], r[kinds[i]]>>)]
        \o [i \in DOMAIN r.prefetch |-> text(r.prefetch[i])]

costStatus(r) ==
  IF (\E i \in DOMAIN r.modules : r.modules[i].error # <<>>) \/ r.prefetch # <<>>
     \/ r.unknown > 0 \/ r.unsupported > 0 THEN "warn" ELSE "pass"
costReport(r) ==
  LET visible == SelectSeq(r.modules, shouldShowReportModule)
      wrong == SelectSeq(visible, LAMBDA x : x.error # <<>>)
      priced == SelectSeq(visible, LAMBDA x : x.error = <<>>)
      errors == [i \in DOMAIN wrong |-> formatModuleError(wrong[i].module, wrong[i].error)]
      limitations == buildCostLimitations(r)
  IN  NewRenderedReport("cost", <<"Cost Estimation">>, costStatus(r), <<"modules", Len(visible)>>,
        optional(priced # <<>>, NewTableBlock(<<>>, <<"Module", "Before", "After", "Diff">>,
                                              [i \in DOMAIN priced |-> costRow(priced[i])]))
        \o optional(errors # <<>>, NewListBlock(<<"Estimation errors">>, errors))
        \o optional(limitations # <<>>, NewListBlock(<<"Limitations">>, limitations))
        \o <<buildCostTotalBlock(priced)>>)

-----------------------------------------------------------------------------
(* Updates: everything that is not up to date *)

renderDisplayValue(v) == text(IF v = <<>> THEN <<"-">> ELSE v)
StatusLabel(u) ==
  IF u.status \in {"skipped", "error"} THEN <<u.status, ":">> \o u.issue ELSE <<u.status>>
renderUpdateStatusTone(s) ==
  CASE s \in {"applied", "up_to_date"}         -> "success"
    [] s \in {"update_available", "skipped"}   -> "warning"
    [] s = "error"                             -> "failure"
updateRow(u) ==
  <<modulePath(u.module), code(<<u.source>>), renderDisplayValue(u.current),
    renderDisplayValue(u.latest), label(StatusLabel(u), renderUpdateStatusTone(u.status))>>
updateRows(us) ==
  LET shownOnes == SelectSeq(us, LAMBDA u : u.status # "up_to_date")
  IN  [i \in DOMAIN shownOnes |-> updateRow(shownOnes[i])]
updateReport(r) ==
  LET all == r.providers \o r.modules
      errors == r.unread + countOf(all, LAMBDA u : u.status = "error")
      available == countOf(all, LAMBDA u : u.status = "update_available")
      tableOf(title, what, us) ==
        optional(updateRows(us) # <<>>,
                 NewTableBlock(title, <<"Module", what, "Current", "Latest", "Status">>, updateRows(us)))
  IN  NewRenderedReport("tfupdate", <<"Dependency Update Check">>,
        IF errors > 0 \/ available > 0 THEN "warn" ELSE "pass",
        <<"checked", Len(all), "available", available, "errors", errors>>,
        tableOf(<<"Providers">>, "Provider", r.providers) \o tableOf(<<"Modules">>, "Source", r.modules))

producerReport(p, r) ==
  CASE p = "policy" -> policyReport(r) [] p = "cost" -> costReport(r) [] p = "tfupdate" -> updateReport(r)

-----------------------------------------------------------------------------
(* Plans *)

\* terraform gives each resource the list of what it does to it.
determineAction(actions) ==
  CASE actions = <<"create">> -> "create"
    [] actions = <<"update">> -> "update"
    [] actions = <<"delete">> -> "delete"
    [] actions \in {<<"delete", "create">>, <<"create", "delete">>} -> "replace"
    [] actions = <<"read">> -> "read"
    [] OTHER -> "no-op"

\* ParsedPlan: the counts and the resources, in the order of the file.  An
\* address is the module of a resource, if any, the word data for a data source,
\* its type and name, and its key, if count or for_each gives it one.
ParseJSON(f) ==
  LET rs == [i \in DOMAIN f.resources |->
               f.resources[i] @@ [action |-> determineAction(f.resources[i].actions)]]
      counted(as) == countOf(rs, LAMBDA r : r.action \in as)
  IN  [resources |-> rs, ToAdd |-> counted({"create", "replace"}), ToChange |-> counted({"update"}),
       ToDestroy |-> counted({"delete", "replace"}),
       ToImport |-> countOf(rs, LAMBDA r : r.importing /\ r.action # "no-op")]
changesIn(p) == p.ToAdd + p.ToChange + p.ToDestroy > 0
countWord(n, sign) == IF n > 0 THEN <<sign, n>> ELSE <<>>
planCounts(p) ==
  IF changesIn(p) THEN countWord(p.ToAdd, "+") \o countWord(p.ToChange, "~")
                       \o countWord(p.ToDestroy, "-") \o countWord(p.ToImport, "import")
  ELSE <<"No changes">>

address(r) == r.module \o r.mode \o r.name \o r.key

\* Outside modules the type and name alone, and no longer than it may be.
formatResourceAddress(r) ==
  LET addr == IF r.module = <<>> THEN r.name ELSE address(r)
  IN  IF Len(addr) > MaxAddress THEN SubSeq(addr, 1, MaxAddress - 1) \o <<"...">> ELSE addr

\* Details: per action its first resources, and how many more there are.
actionLines(p, a) ==
  LET those == SelectSeq(p.resources, LAMBDA r : r.action = a)
      n == Len(those)
      first == SubSeq(those, 1, IF n < MaxShown THEN n ELSE MaxShown)
  IN  IF those = <<>> THEN <<>>
      ELSE <<<<a>>>> \o [i \in DOMAIN first |-> <<a, formatResourceAddress(first[i])>>]
           \o optional(n > MaxShown, <<a, "more", n - MaxShown>>)
planLines(p) ==
  IF ~changesIn(p) THEN <<>>
  ELSE FlattenSeq([i \in 1..5 |-> actionLines(p, <<"create", "update", "replace", "delete", "read">>[i])])

NewPlanResult(m, s, summary, details, error) ==
  [module |-> m, status |-> s, summary |-> summary, lines |-> details, error |-> error]

\* The plan result of a module; a plan.json that does not parse is a failed one.
resultOf(m) ==
  IF planned[m].form = "torn"
    THEN NewPlanResult(m, "failed", <<>>, <<>>, <<"parse">>)
    ELSE LET p == ParseJSON(planned[m])
         IN  NewPlanResult(m, PlanStatusFromPlan(changesIn(p)), planCounts(p), planLines(p), <<>>)
\* NewPlanResultCollection: a result per module that has been planned.
planResults == [m \in {x \in Paths : planned[x].form # "none"} |-> resultOf(m)]

-----------------------------------------------------------------------------
(* The sections of the summary comment *)

planSummary(r) == IF r.error # <<>> THEN <<"err:">> \o r.error ELSE r.summary
planDetailsTitle(r) ==
  IF r.status = "failed" THEN <<"FAILED", r.module>> ELSE <<r.module, "(">> \o r.summary \o <<")">>
planRow(r) ==
  <<label(<<r.status>>, IF r.status = "failed" THEN "failure" ELSE "warning"),
    modulePath(r.module), text(planSummary(r))>>

\* Mutant: only modules with changes are worth a row.
visibleChangesOnly(c) == {m \in DOMAIN c : c[m].status = "changes"}
visibleEnvironmentPlans(c) == {m \in DOMAIN c : c[m].status \in {"changes", "failed"}}

\* calculateStats and renderStats.
renderStats(c) ==
  LET n(s) == Cardinality({m \in DOMAIN c : c[m].status = s})
  IN  <<Cardinality(DOMAIN c), "modules", n("changes"), n("no_changes"), n("failed")>>

buildEnvironmentSection(c, ms) ==
  LET order == SetToSeq(ms)
      detailed == SelectSeq(order, LAMBDA m : c[m].lines # <<>>)
  IN  NewRenderedSection(<<"Environment", Environment[order[1]]>>, <<Len(order), "actionable">>,
        IF \E m \in ms : c[m].status = "failed" THEN "fail" ELSE "warn",
        <<NewTableBlock(<<>>, <<"Status", "Module", "Summary">>, [i \in DOMAIN order |-> planRow(c[order[i]])])>>
        \o [i \in DOMAIN detailed |-> NewDetailsBlock(planDetailsTitle(c[detailed[i]]), c[detailed[i]].lines)])
buildTerraformPlanSections(c) ==
  LET visible == visibleEnvironmentPlans(c)
      envs == SetToSeq({Environment[m] : m \in visible})
  IN  [i \in DOMAIN envs |-> buildEnvironmentSection(c, {m \in visible : Environment[m] = envs[i]})]

\* A report without sections is shown with its title and summary.
filteredReportSections(r) ==
  IF r.sections = <<>> THEN <<NewRenderedSection(r.title, r.summary, r.status, <<>>)>> ELSE r.sections

\* NewReportCollection: one report per producer, by the name of the producer.
NewReportCollection ==
  LET all == SelectSeq(<<"cost", "policy", "tfupdate">>, LAMBDA p : p \in Looked /\ stored[p] # {})
  IN  [i \in DOMAIN all |-> CHOOSE r \in stored[all[i]] : TRUE]

sectionItem(s) ==
  RenderInline(<<status(s.status), text(s.title)>>
               \o optional(s.summary # <<>>, text(<<":">> \o s.summary)))
buildSummaryHeaderSection(c, rs) ==
  LET ss == FlattenSeq([i \in DOMAIN rs |-> filteredReportSections(rs[i])])
  IN  NewRenderedSection(<<"Summary">>, renderStats(c), overallSummaryStatus(c, ToSet(rs)),
        optional(ss # <<>>, NewListBlock(<<>>, [i \in DOMAIN ss |-> sectionItem(ss[i])])))

BuildSummarySections(c, rs) ==
  <<buildSummaryHeaderSection(c, rs)>> \o buildTerraformPlanSections(c)
    \o FlattenSeq([i \in DOMAIN rs |-> filteredReportSections(rs[i])])

\* BuildSummaryReport: the sections of all the reports in one.
BuildSummaryReport(rs) ==
  LET ss == FlattenSeq([i \in DOMAIN rs |-> rs[i].sections])
      retitled(s) == NewRenderedSection(s.title, s.summary, s.status, CHOOSE bs \in DecodeRenderSection(s) : TRUE)
  IN  [producer |-> "summary", title |-> <<"Plugin Reports">>, status |-> strictestReportStatus(ToSet(rs)),
       summary |-> <<Len(rs), "plugin reports">>,
       sections |-> [i \in DOMAIN ss |-> retitled(ss[i])]]

-----------------------------------------------------------------------------
(* What is printed *)

sectionLabel(s) == CASE s = "pass" -> "Passed" [] s = "warn" -> "Warning" [] s = "fail" -> "Failed"

\* Amounts are in hundredths of a cent; a delta has a sign.
formatMoneyAmount(n) ==
  CASE n = 0           -> <<"$0">>
    [] n > 0 /\ n < 100 -> <<"<$0.01">>
    [] n >= 100        -> <<"$", n>>
    [] n < 0           -> IF n > -100 THEN <<"-", "<$0.01">> ELSE <<"-", "$", -n>>
formatMoney(v) ==
  IF v.kind = "money_delta" /\ v.amount > 0 THEN <<"+">> \o formatMoneyAmount(v.amount)
  ELSE formatMoneyAmount(v.amount)

formatPlainPart(v) ==
  CASE v.kind = "status"                   -> <<sectionLabel(v.status)>>
    [] v.kind \in {"money", "money_delta"} -> formatMoney(v)
    [] OTHER                               -> v.text
formatPlainValue(v) ==
  IF v.kind = "inline" THEN FlattenSeq([i \in DOMAIN v.parts |-> formatPlainPart(v.parts[i])])
  ELSE formatPlainPart(v)
\* Line breaks and bars are escaped there; only code looks different.
formatMarkdownValue(v) == IF v.kind = "code" THEN <<"code">> \o v.text ELSE formatPlainValue(v)

formatValue(v, style) == IF style = "markdown" THEN formatMarkdownValue(v) ELSE formatPlainValue(v)

tableLines(b, style) ==
  LET cell(row, j) == IF j \in DOMAIN row THEN formatValue(row[j], style) ELSE <<>>
  IN  [i \in 1..(Len(b.rows) + 1) |->
         [j \in DOMAIN b.columns |-> cell(IF i = 1 THEN b.columns ELSE b.rows[i - 1], j)]]
printBlock(b, style) ==
  CASE b.kind = "text"    -> [title |-> b.title, lines |-> <<<<formatValue(b.text, style)>>>>]
    [] b.kind = "list"    -> [title |-> b.title, lines |-> [i \in DOMAIN b.items |-> <<formatValue(b.items[i], style)>>]]
    [] b.kind = "table"   -> [title |-> b.title, lines |-> tableLines(b, style)]
    [] b.kind = "details" -> [title |-> b.summary, lines |-> [i \in DOMAIN b.body |-> <<b.body[i]>>]]

printSection(s, style) ==
  LET blocks == CHOOSE bs \in DecodeRenderSection(s) : TRUE
  IN  [status |-> s.status, title |-> s.title, summary |-> s.summary,
       blocks |-> [i \in DOMAIN blocks |-> printBlock(blocks[i], style)]]
MarkdownSection(s) == printSection(s, "markdown")
CLISection(s) == printSection(s, "cli")

-----------------------------------------------------------------------------

NoPage == [form |-> "none"]
Unreadable == [form |-> "unreadable"]

\* LoadReports: a report that cannot be read or is not valid fails them all.
loadable == \A p \in Looked : \A r \in stored[p] : validReport(r)

publications == Cardinality({p \in Looked : computed[p] # {}})

\* A producer publishes what it has computed: a report that is refused takes
\* the old one with it.
PublishContents(p, r) ==
  /\ page = NoPage /\ computed[p] = {} /\ publications < MaxPublished
  /\ computed' = [computed EXCEPT ![p] = {r}]
  /\ stored' = [stored EXCEPT ![p] = producerReport(p, r)]
  /\ UNCHANGED <<planned, page>>

ComposeComment ==
  LET c == planResults
      ss == BuildSummarySections(c, NewReportCollection)
  IN  /\ page = NoPage
      /\ page' = IF loadable
                   THEN [form |-> "comment", sections |-> [i \in DOMAIN ss |-> MarkdownSection(ss[i])]]
                   ELSE Unreadable
      /\ UNCHANGED <<planned, computed, stored>>

PrintReports ==
  LET r == BuildSummaryReport(NewReportCollection)
  IN  /\ page = NoPage
      /\ page' = IF ~loadable THEN Unreadable
                 ELSE [form |-> "local", status |-> r.status,
                       sections |-> [i \in DOMAIN r.sections |-> CLISection(r.sections[i])]]
      /\ UNCHANGED <<planned, computed, stored>>

\* Contents are looked at apart from the files and the comment: here those
\* stand still, and there nothing is looked at.
NotLooked == [form |-> "not_looked"]
Nowhere == [m \in Paths |-> [form |-> "none"]]

FilesInit ==
  /\ ReviewInit
  /\ planned = Nowhere /\ page = NotLooked
  /\ computed = [p \in Looked |-> {}] /\ stored = [p \in Looked |-> {}]

ContentsInit ==
  /\ ReviewInit
  /\ kind = CHOOSE k \in Kinds : TRUE
  /\ report = [w \in Pipelines |-> [p \in Producers |-> NoFile]]
  /\ planned \in TerraformPlans
  /\ computed = [p \in Looked |-> {}]
  /\ stored = [p \in Looked |-> {}] \/ \E q \in Looked, f \in OldFiles :
       f.producer = q /\ stored = [p \in Looked |-> IF p = q THEN {f} ELSE {}]
  /\ page = NoPage

ContentsNext ==
  /\ \/ \E p \in Looked : \E r \in Results[p] : PublishContents(p, r)
     \/ ComposeComment
     \/ PrintReports
  /\ UNCHANGED vars

ReportsNext ==
  \/ page = NotLooked /\ Next /\ UNCHANGED contentVars
  \/ page # NotLooked /\ ContentsNext

ReportsSpec == (FilesInit \/ ContentsInit) /\ [][ReportsNext]_<<vars, contentVars>>

-----------------------------------------------------------------------------
(* Properties *)

messages(rs) == UNION {ToSet(rs[i].failures) \cup ToSet(rs[i].warnings) : i \in DOMAIN rs}
lines == UNION {UNION {ToSet(page.sections[i].blocks[j].lines) : j \in DOMAIN page.sections[i].blocks} :
                  i \in DOMAIN page.sections}

policyIsTold(rs) ==
  \A i \in DOMAIN rs :
    /\ \A f \in ToSet(rs[i].failures) : \E l \in lines :
         Len(l) = 4 /\ l[1] = <<rs[i].module>> /\ l[2] = <<"Failed">> /\ l[4] = f.message
    /\ \A f \in ToSet(rs[i].warnings) : \E l \in lines :
         Len(l) = 4 /\ l[1] = <<rs[i].module>> /\ l[2] = <<"Warning">> /\ l[4] = f.message
costIsTold(r) ==
  \A i \in DOMAIN r.modules :
    LET x == r.modules[i]
    IN  IF x.error # <<>> THEN <<<<x.module, ":">> \o x.error>> \in lines
        ELSE x.before # x.after =>
          \E l \in lines : Len(l) = 4 /\ l[1] = <<x.module>> /\ l[4] # <<"$0">>
updatesAreTold(us) ==
  \A i \in DOMAIN us : us[i].status # "up_to_date" =>
    \E l \in lines : Len(l) = 5 /\ l[1] = <<us[i].module>> /\ l[5] = StatusLabel(us[i])
isTold(p, r) ==
  CASE p = "policy" -> policyIsTold(r) [] p = "cost" -> costIsTold(r)
    [] p = "tfupdate" -> updatesAreTold(r.providers) /\ updatesAreTold(r.modules)

severity == "pass" :> 0 @@ "warn" :> 1 @@ "fail" :> 2
\* A module's details list the resources of each action in their order, the first
\* by a name, which may be cut, and say how many more there are.
Actions == {"create", "update", "replace", "delete", "read"}
namesIt(given, r) ==
  LET beginning == IF Last(given) = "..." THEN Front(given) ELSE given
  IN  IsPrefix(beginning, IF r.module = <<>> THEN r.name \o r.key ELSE address(r))
detailsOf(m) ==
  {b \in UNION {ToSet(page.sections[i].blocks) : i \in DOMAIN page.sections} :
     b.title = planDetailsTitle(planResults[m])}
resourcesAreTold(b, p) ==
  \A a \in Actions :
    LET those == SelectSeq(p.resources, LAMBDA r : r.action = a)
        listed == SelectSeq(b.lines, LAMBDA l : l[1][1] = a)
        named == SelectSeq(listed, LAMBDA l : Len(l[1]) = 2)
        rest == SelectSeq(listed, LAMBDA l : Len(l[1]) = 3)
    IN  /\ Len(those) = Len(named) + sumOver(rest, LAMBDA l : l[1][3])
        /\ \A i \in DOMAIN named : namesIt(named[i][1][2], those[i])

plansAreTold ==
  \A m \in DOMAIN planResults :
    LET rows == {l \in lines : Len(l) = 3 /\ l[2] = <<m>>}
        p == ParseJSON(planned[m])
    IN  IF planned[m].form = "torn" THEN \E l \in rows : l[1] = <<"failed">>
        ELSE IF ~changesIn(p) THEN rows = {}
        ELSE /\ \E l \in rows : l[1] = <<"changes">> /\ l[3] = planCounts(p)
             /\ \E b \in detailsOf(m) : resourcesAreTold(b, p)

\* What a producer has computed reaches the reader: its report is built unless a
\* policy gives a message without words, can be read back, and every summary of
\* it shows each message, error, price change and update, each module that
\* changes or failed to plan and all its resources, by name or number, under a
\* heading as grave as anything below it (report.go of cost, policy and tfupdate,
\* render_section.go:85-150, sections.go:20-163, format.go:16-90, 142-151).  A
\* name is not always one resource's: outside modules the instances that count
\* and for_each make of one read alike, a data source reads like a resource, and
\* addresses that begin alike read alike when they are cut.
ReaderIsTold ==
  page # NotLooked =>
    /\ \A p \in Looked : \A r \in computed[p] :
         stored[p] = {} <=> p = "policy" /\ \E f \in messages(r) : f.message = <<>>
    /\ page = Unreadable => \E p \in Looked : computed[p] = {} /\ stored[p] # {}
    /\ page.form \in {"comment", "local"} =>
         /\ \A p \in Looked : \A r \in computed[p] : stored[p] # {} => isTold(p, r)
         /\ LET top == IF page.form = "local" THEN page.status ELSE page.sections[1].status
            IN  \A i \in DOMAIN page.sections : severity[page.sections[i].status] <= severity[top]
    /\ page.form = "comment" => plansAreTold
===============================================================================
