------------------------------ MODULE MCReports ------------------------------
(* ReportContents with two pipelines of one merge request: the first in a    *)
(* workspace earlier pipelines may have left in any state, the second in a   *)
(* new one; and contents for two modules.                                    *)
EXTENDS ReportContents

CONSTANTS m1, m2, w1, w2

change(action, type) == [action |-> action, type |-> type]
mcPlanFiles == {{}, {change("create", "vpc"), change("read", "ami")}}
old == [m \in {m1} |-> parsePlanJSON(planFile({change("delete", "vpc")}))]
same == [m \in {m1} |-> parsePlanJSON(planFile({}))]

workspace(r, rep) == [plan |-> [m \in Modules |-> NoFile],
                      results |-> [p \in Producers |-> r], report |-> rep]
fresh == workspace(NoFile, [p \in Producers |-> NoFile])
left(p, c) == Report(p, "warn", Provenance(p, c))
mcLeft == {fresh, workspace(Torn, [p \in Producers |-> Torn])}
  \cup {workspace(resultsFile({}), [p \in Producers |-> left(p, of)]) : of \in {old, same}}
mcWorkspaces == {(w1 :> a) @@ (w2 :> fresh) : a \in mcLeft}
mcKinds == {(w1 :> k) @@ (w2 :> "review") : k \in {"review", "local"}}
mcUserLabels == {<<"urgent">>}

decide(deny, warn) == [deny |-> deny, warn |-> warn]
override(ms, enabled, deny) ==
  [match |-> ms, enabled |-> enabled, namespaces |-> <<>>, decisions |-> decide(deny, "")]
config(deny, os) == [enabled |-> "yes", namespaces |-> <<>>, decisions |-> decide(deny, ""),
                     overrides |-> os, sources |-> <<"reachable">>]
mcConfig == config("block", <<override({}, "", "ignore")>>)
mcAllows == [files |-> 1, error |-> "", rules |-> [n \in {"terraform"} |-> [deny |-> {}, warn |-> {m1}]]]

(* Contents: two modules of two environments *)
mcEnvironment == m1 :> "prod" @@ m2 :> "stage"
instance(module, name, key, actions) ==
  [module |-> module, mode |-> <<>>, name |-> <<"type", name>>, key |-> key, actions |-> actions, importing |-> FALSE]
does(name, actions) == instance(<<>>, name, <<>>, actions)
holds(rs) == [form |-> "json", resources |-> rs]
\* Two instances of one resource; one in a module; two whose addresses are cut.
busy == holds(<<instance(<<>>, "a", <<"0">>, <<"create">>), instance(<<>>, "a", <<"1">>, <<"create">>), does("b", <<"create">>),
                instance(<<"net">>, "c", <<>>, <<"delete">>), instance(<<"net">>, "c", <<"0">>, <<"delete", "create">>),
                instance(<<"net">>, "c", <<"1">>, <<"delete", "create">>), [does("d", <<"read">>) EXCEPT !.mode = <<"data">>], does("e", <<"no-op">>)>>)
quiet == holds(<<does("a", <<"no-op">>), [does("b", <<"no-op">>) EXCEPT !.importing = TRUE], does("d", <<"read">>)>>)
mcTerraformPlans ==
  LET u == holds(<<does("u", <<"update">>)>>)
  IN  {m1 :> p[1] @@ m2 :> p[2] : p \in {<<busy, u>>, <<Torn, u>>, <<quiet, Torn>>, <<busy, NoFile>>}}

finding(t) == [namespace |-> "terraform", message |-> t]
mcFindings == {<<>>, <<finding(<<"open">>)>>, <<finding(<<"open">>), finding(<<>>)>>}
policyOf(f1, w1_, f2) == <<[module |-> m1, failures |-> f1, warnings |-> w1_],
                           [module |-> m2, failures |-> f2, warnings |-> <<>>]>>
mcPolicyResults == {policyOf(f, w, g) : f \in mcFindings, w \in mcFindings, g \in {<<>>, <<finding(<<"late">>)>>}}
estimate(m, e, b, a) == [module |-> m, error |-> e, before |-> b, after |-> a]
costOf(x, n) == [modules |-> <<estimate(m1, <<>>, 0, 50), x>>, estimated |-> 1, unknown |-> n,
                 unsupported |-> 0, prefetch |-> IF n = 0 THEN <<>> ELSE <<<<"no prices">>>>]
mcCostResults == {costOf(estimate(m2, e, b, a), n) : e \in {<<>>, <<"no region">>}, b \in {0, 300}, a \in {0, 300}, n \in 0..1}
update(m, s, latest) == [module |-> m, source |-> "aws", current |-> <<"1.0">>, latest |-> latest, status |-> s,
                         issue |-> IF s \in {"error", "skipped"} THEN <<"no answer">> ELSE <<>>]
updatesOf(s, t, n) == [providers |-> <<update(m1, s, <<"1.1">>), update(m2, "up_to_date", <<"1.0">>)>>,
                       modules |-> <<update(m2, t, <<>>)>>, unread |-> n]
mcUpdateResults == {updatesOf(s, t, n) : s \in {"applied", "skipped", "error", "up_to_date"},
                                         t \in {"update_available", "up_to_date"}, n \in 0..1}
mcResults == "policy" :> mcPolicyResults @@ "tfupdate" :> mcUpdateResults @@ "cost" :> mcCostResults

oldReport(p, payload) ==
  [producer |-> p, title |-> <<"Old">>, status |-> "fail", summary |-> <<>>,
   sections |-> IF payload = {} THEN <<>>
                ELSE <<[kind |-> "rendered", title |-> <<>>, summary |-> <<>>, status |-> "pass",
                        payload |-> [version |-> {}, blocks |-> <<>>]]>>]
mcOldFiles == {oldReport("policy", {}), oldReport("policy", {"legacy"})}
=============================================================================
