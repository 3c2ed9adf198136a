----------------------------- MODULE MCGenerate -----------------------------
(***************************************************************************)
(* What terraci generate does, its two halves side by side, for one run of *)
(* TLC each on an instance of its own:                                     *)
(*   "select"   TargetSelection over one small repository layout, with all *)
(*              small dependency relations, library calls, filters and     *)
(*              diffs after one commit, and some of them after histories   *)
(*              of every shape;                                            *)
(*   "build"    PipelineBuilder, CIPipelines and LocalRun over the         *)
(*              sub-relations of one small dependency graph, the target    *)
(*              sets change detection can select, and the jobs of the      *)
(*              plugins.                                                   *)
(* While one half is checked the other stays in an initial state.          *)
(***************************************************************************)
EXTENDS LocalRun, TargetSelection

CONSTANT Parts   \* the halves that are checked

VARIABLE part

-----------------------------------------------------------------------------
(* Selection: the repository *)


kafka == <<"lib", "kafka">>
acl   == <<"lib", "kafka", "acl">>
topic == <<"lib", "topic">>
app   == <<"svc", "app">>
db    == <<"svc", "db">>
replica == <<"svc", "db", "replica">>   \* a module inside a module
net   == <<"svc", "net">>
noTF  == <<"svc", "db", "files">>       \* without .tf files
hidden  == <<"svc", "app", ".terraform">>
fetched == <<"svc", "app", ".terraform", "net">>

mcDirs == <<<<"lib">>, kafka, acl, topic, <<"svc">>, app, hidden, fetched, db, noTF, replica, net>>
mcIDs  == DOMAIN mcDirs

\* app may read db, replica and net; db may read net; net may read app.
remoteOf(a, d, n) ==
  [x \in ToSet(mcDirs) |-> CASE x = app -> a [] x = db -> d [] x = net -> n [] OTHER -> <<>>]

\* topic calls kafka; app and net call libraries.
callsOf(a, n) ==
  [x \in ToSet(mcDirs) |->
     CASE x = app -> a [] x = net -> n [] x = topic -> <<kafka>> [] OTHER -> <<>>]

File(d, related) == [dir |-> d, tf |-> related]

diffs ==
  {{File(d, TRUE)} : d \in {<<"lib">>, kafka, acl, topic, app, db, net, noTF, replica, fetched}}
    \cup {{}, {File(app, FALSE)}, {File(db, TRUE), File(kafka, TRUE)}, {File(Append(acl, "x"), TRUE)}}

-----------------------------------------------------------------------------
(* Checkouts.  Commit 1 has every file; fs is edited on the branch that is   *)
(* checked out, ms on main.                                                  *)

mcFiles == UNION diffs
start == [f \in mcFiles |-> 1]
edited(tree, files, content) == [f \in files |-> content] @@ tree

Checkout(parents, trees, refs, head) ==
  [parents |-> parents, trees |-> trees, refs |-> refs, originHead |-> <<>>, head |-> head, shallow |-> FALSE]
main(c) == <<"heads", "main">> :> c
origin(c) == <<"remotes", "origin", "main">> :> c
v1(c) == <<"tags", "v1">> :> c

linear(fs) == Checkout(<<<<>>, <<1>>>>, <<start, edited(start, fs, 2)>>, main(2), 2)

\* main has moved on, the local branch of that name may be stale, and the
\* branch removes files or edits them, possibly as main has done.
branched(fs, ms, behind, content) ==
  Checkout(<<<<>>, <<1>>, <<1>>>>, <<start, edited(start, ms, 2), edited(start, fs, content)>>,
           main(behind) @@ origin(2) @@ v1(1), 3)
\* ... and has been merged into the branch, or each into the other.
merged(fs, ms) ==
  LET both == edited(edited(start, ms, 2), fs, 3)
  IN  Checkout(<<<<>>, <<1>>, <<1>>, <<3, 2>>>>, <<start, edited(start, ms, 2), edited(start, fs, 3), both>>,
               main(1) @@ origin(2) @@ v1(1), 4)
crossed(fs, ms) ==
  LET both == edited(edited(start, ms, 2), fs, 3)
  IN  Checkout(<<<<>>, <<1>>, <<1>>, <<3, 2>>, <<2, 3>>>>,
               <<start, edited(start, ms, 2), edited(start, fs, 3), both, both>>, origin(5) @@ v1(1), 4)
unrelated(fs) == Checkout(<<<<>>, <<>>>>, <<start, edited(start, fs, 2)>>, origin(1), 2)
noRepository == Checkout(<<>>, <<>>, [n \in {} |-> 1], 1)

mcEdits == {{}, {File(app, TRUE)}, {File(db, TRUE), File(kafka, TRUE)}}
mcCheckouts ==
  {noRepository}
    \cup {branched(fs, ms, c, x) : fs \in mcEdits, ms \in mcEdits \cup {{File(net, TRUE)}}, c \in {1, 2}, x \in {NoFile, 2, 3}}
    \cup {merged(fs, ms) : fs \in mcEdits, ms \in mcEdits}
    \cup {crossed(fs, ms) : fs \in mcEdits, ms \in mcEdits}
    \cup {unrelated(fs) : fs \in mcEdits}
    \cup {[branched(fs, {}, 2, 3) EXCEPT !.shallow = TRUE] : fs \in mcEdits}
mcBaseRefs ==
  {NoRef, Name(<<"main">>), Name(<<"origin", "main">>), Name(<<"v1">>), Name(<<"gone">>), HeadBack(1), HeadBack(3),
   Hash(1), Hash(9)}

-----------------------------------------------------------------------------
Repo(git, baseRef, paths, excluded, remote, calls, changedOnly, modulePath) ==
  [dirs |-> mcDirs, withoutTF |-> {hidden, noTF}, paths |-> paths, excluded |-> excluded, git |-> git, remote |-> remote, calls |-> calls,
   changedOnly |-> changedOnly, baseRef |-> baseRef, modulePath |-> modulePath]

\* Every diff, and a request for one module or without a diff.
mcAskedFor ==
  {[diff |-> f, changedOnly |-> TRUE, modulePath |-> <<>>] : f \in diffs}
    \cup {[diff |-> {File(db, TRUE), File(kafka, TRUE)}, changedOnly |-> c, modulePath |-> p] : c \in BOOLEAN, p \in {<<>>, app}}

mcLinear ==
  {Repo(linear(x.diff), NoRef, {<<"lib">>}, e, remoteOf(a, d, n), callsOf(ca, cn), x.changedOnly, x.modulePath) :
      x \in mcAskedFor,
      e \in {{}, {db}, {net}, {app}},
      a \in {<<>>, <<db>>, <<replica, db>>, <<net>>},
      d \in {<<>>, <<net>>},
      n \in {<<>>, <<app>>},
      ca \in {<<>>, <<kafka>>, <<acl>>, <<topic, acl>>},
      cn \in {<<>>, <<topic>>}}
OverHistories(checkouts) ==
  {Repo(g, b, {<<"lib">>, <<>>, <<"..", "lib">>, <<slash, "svc">>}, {}, remoteOf(a, <<net>>, <<>>), callsOf(<<kafka>>, <<>>), TRUE, <<>>) :
      g \in checkouts, b \in mcBaseRefs, a \in {<<>>, <<db>>}}
mcRepos == mcLinear \cup OverHistories(mcCheckouts)

\* The library kafka itself is edited, which the library topic calls.
mcNested == {r \in mcLinear : r.git = linear({File(kafka, TRUE)}) /\ r.excluded = {} /\ r.modulePath = <<>>}

\* What git clone makes: origin/HEAD is there too.
mcClones == OverHistories({[g EXCEPT !.originHead = <<"main">>] : g \in mcCheckouts \ {noRepository}})

-----------------------------------------------------------------------------
(* Building: the graph and the jobs *)


mcBuilt == 1..6

\* The paths of 4 and 6, web/api and web-api, make the same job names.
words   == <<<<"net">>, <<"dns">>, <<"app">>, <<"web", "api">>, <<"db">>, <<"web", "api">>>>
mcWords == [m \in mcIDs |-> IF m \in mcBuilt THEN words[m] ELSE <<"other">>]

Contributed(n, deps, consumes, produces) ==
  [name |-> n, commands |-> <<"run">>, deps |-> deps, consumes |-> consumes, produces |-> produces, allow |-> FALSE]
Outputs(p) == PluginResultAndReportResources(p)

\* The jobs of the plugins of the repository.
cost    == CostJob
update  == UpdateJob
summary == SummaryJob

\* Jobs of other plugins.
audit    == Contributed(<<"audit">>, <<<<"terraci", "summary">>>>,
              <<PluginProducerResource("plugin_report", "cost", FALSE),
                ResourceRequest("plan_text", "module", 1, NoProducer, TRUE)>>, Outputs("audit"))
gate     == Contributed(<<"gate">>, <<<<"apply", "app">>, <<"cost", "estimation">>>>, <<>>, <<>>)
twin     == Contributed(<<"twin">>, <<>>, <<>>, Outputs("cost"))
imposter == Contributed(<<"plan", "db">>, <<>>, <<>>, <<>>)
\* It names a job twice.
again    == Contributed(<<"again">>, <<cost.name, cost.name>>, <<>>, <<>>)
lint     == Contributed(<<"lint">>, <<>>, <<AllPluginResources("plugin_result", TRUE),
                                           ModulePlanResource("plan_json", 3),
                                           ResourceRequest("plan_json", "all_modules", NoModule, NoProducer, TRUE)>>, <<>>)

pluginSets == {<<>>, <<summary>>, <<cost, summary, update>>, <<summary, audit, cost>>,
               <<gate, cost>>, <<audit, cost>>, <<cost, twin>>, <<imposter>>, <<lint, update, cost>>}

intents == {[apply |-> TRUE,  required |-> <<>>],
            [apply |-> FALSE, required |-> <<AllPlanResources("plan_binary")>>],
            [apply |-> FALSE, required |-> <<ModulePlanResource("plan_text", 3)>>]}

edges == {<<3, 1>>, <<3, 4>>, <<4, 5>>, <<2, 5>>, <<5, 3>>}

GraphOf(E) ==
  BuildFromDependencies([i \in mcBuilt |-> i],
    [i \in mcBuilt |-> [dependsOn |-> SetToSeq({e[2] : e \in {x \in E : x[1] = i}}), libraries |-> <<>>]],
    [i \in mcBuilt |-> i])

\* What a run of everything selects, and what --changed-only does.
selected(ids) == [changed |-> FALSE, ids |-> ids]
affected(ids) == [changed |-> TRUE, ids |-> ids]
targetSets == {selected(t) : t \in {1..5, {}, {4, 6}}} \cup {affected(c) : c \in {{1}, {3}, {1, 2}}}

mcBuilds ==
  {[G |-> GraphOf(E), targets |-> IF t.changed THEN GetAffectedModules(GraphOf(E), t.ids) ELSE t.ids,
    apply |-> i.apply, required |-> i.required, jobs |-> p] :
     E \in SUBSET edges, t \in targetSets, i \in intents, p \in pluginSets}

Settings(art, rules, if) == [artifacts |-> art, rules |-> rules, when |-> "", ifExpr |-> if]
plain == Settings(Unset, "", "")
When(w) == [plain EXCEPT !.when = w]
For(type, s) == s @@ [type |-> type]
CI(backend, defaults, overwrites) == [backend |-> backend, defaults |-> defaults, overwrites |-> overwrites]

mcConfigs ==
  {CI("gitlab", plain, <<>>), CI("github", plain, <<>>),
   CI("gitlab", Settings(Unset, "match", ""),
      <<For(cost.name, Settings(Unset, "no_match", "")), For(<<"plan">>, Settings({PlanResource("plan_text", 1)}, "", ""))>>),
   CI("gitlab", plain, <<For(<<"apply">>, Settings(Unset, "no_match", "")), For(<<"apply">>, Settings(Unset, "match", ""))>>),
   CI("gitlab", When("always"),
      <<For(<<"plan">>, When("on_success")), For(<<"apply">>, When("manual")), For(cost.name, Settings(Unset, "on_failure", ""))>>),
   CI("github", plain, <<For(summary.name, Settings(Unset, "", "always()"))>>)}

mcPipelines == {"p1", "p2"}
Run(E, t, i, p) == [G |-> GraphOf(E), targets |-> t, apply |-> i.apply, required |-> i.required, jobs |-> p]
mcExecuted ==
  {Run({<<3, 1>>}, {1, 3}, [apply |-> TRUE, required |-> <<>>], <<>>),
   Run({<<3, 1>>}, {1, 3}, [apply |-> TRUE, required |-> <<>>], <<cost, summary>>),
   Run({<<3, 1>>}, {1, 3}, [apply |-> FALSE, required |-> <<>>], <<summary, audit, cost>>),
   Run({}, {1}, [apply |-> FALSE, required |-> <<>>], <<again, cost>>),
   Run({<<3, 4>>, <<4, 5>>}, {4, 5}, [apply |-> TRUE, required |-> <<>>], <<cost, summary, update>>)}

Planned == [apply |-> FALSE, required |-> <<AllPlanResources("plan_binary")>>]
Applied == [apply |-> TRUE, required |-> <<>>]
mcLocalBuilds ==
  {Run({<<3, 1>>}, {1, 3}, Applied, <<cost, summary>>), Run({<<3, 1>>}, {3}, Planned, <<cost, PolicyJob(TRUE)>>),
   Run({<<3, 1>>}, {1, 3}, Planned, <<update>>), Run({<<3, 1>>}, {}, Applied, <<>>)}
mcRequests == {[mode |-> "run", parallelism |-> 0], [mode |-> "run", parallelism |-> 1], [mode |-> "plan", parallelism |-> 0]}
mcExecutionConfigs == {[binary |-> b, init |-> TRUE, parallelism |-> n] : b \in {"", "tofu", "pulumi"}, n \in {0, -1}}
mcAllBuilds == mcBuilds \cup mcExecuted \cup mcLocalBuilds

\* For a run that does not build.
mcIdle == {[G |-> NewDependencyGraph, targets |-> {}, apply |-> TRUE, required |-> <<>>, jobs |-> <<>>]}

-----------------------------------------------------------------------------
buildVars == <<vars, ciVars, localVars>>

GenerateInit ==
  \/ /\ part \in Parts \cap {"select"}
     /\ build = CHOOSE b \in Builds : TRUE
     /\ LocalInit /\ SelectionInit
  \/ /\ part \in Parts \cap {"build"}
     /\ repo = CHOOSE r \in Repos : TRUE
     /\ SelectionInit /\ LocalInit

GenerateNext ==
  \/ part = "select" /\ SelectionNext /\ UNCHANGED <<part, buildVars>>
  \/ part = "build" /\ LocalNext /\ UNCHANGED <<part, selectionVars>>

GenerateSpec == GenerateInit /\ [][GenerateNext]_<<part, selectionVars, buildVars>>
=============================================================================
