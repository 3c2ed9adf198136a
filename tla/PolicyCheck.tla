----------------------------- MODULE PolicyCheck -----------------------------
(***************************************************************************)
(* terraci policy check: which rules apply to a module, what the decisions *)
(* make of them, and what that means for the job.  A policy set is what    *)
(* the sources hold: per namespace the modules its deny and warn rules     *)
(* speak of, and the error its files give when they are compiled.          *)
(***************************************************************************)
EXTENDS Sequences, SequencesExt, FiniteSets, Naturals

CONSTANTS
  Modules,
  PolicyConfig,   \* the policy section of the configuration
  Policies        \* what the configured sources hold

-----------------------------------------------------------------------------
(* Configuration *)

Normalize(d) == [deny |-> IF d.deny = "" THEN "block" ELSE d.deny,
                 warn |-> IF d.warn = "" THEN "warn" ELSE d.warn]
CanBlock(d) == "block" \in {Normalize(d).deny, Normalize(d).warn}

over(x, y) == IF y = "" THEN x ELSE y
applyOverride(c, o) ==
  [enabled |-> over(c.enabled, o.enabled),
   namespaces |-> IF o.namespaces = <<>> THEN c.namespaces ELSE o.namespaces,
   decisions |-> [deny |-> over(c.decisions.deny, o.decisions.deny),
                  warn |-> over(c.decisions.warn, o.decisions.warn)]]

EffectiveConfig(m) ==
  LET base == [enabled |-> PolicyConfig.enabled, namespaces |-> PolicyConfig.namespaces,
               decisions |-> Normalize(PolicyConfig.decisions)]
  IN  FoldLeft(LAMBDA c, o : IF m \in o.match THEN applyOverride(c, o) ELSE c,
               base, PolicyConfig.overrides)

NamespacesOrDefault(c) == IF c.namespaces = <<>> THEN <<"terraform">> ELSE c.namespaces

\* Every source or none: the first that cannot be fetched ends the command.
Materialize == \A i \in DOMAIN PolicyConfig.sources : PolicyConfig.sources[i] = "reachable"

-----------------------------------------------------------------------------
(* Evaluation *)

findings(kind, n, m) ==
  IF n \in DOMAIN Policies.rules /\ m \in Policies.rules[n][kind] THEN {<<n, kind>>} ELSE {}

\* All files are compiled for every query; an error that speaks of something
\* undefined is read as a query with no answer.
runQuery(kind, n, m) ==
  IF Policies.error = "" THEN [err |-> FALSE, found |-> findings(kind, n, m)]
  ELSE [err |-> Policies.error # "undefined", found |-> {}]

Evaluate(m, namespaces) ==
  LET ask(kind) == {runQuery(kind, namespaces[i], m) : i \in DOMAIN namespaces}
      all(kind) == UNION {q.found : q \in ask(kind)}
  IN  IF Policies.files = 0 THEN [err |-> FALSE, denies |-> {}, warns |-> {}]
      ELSE [err |-> \E q \in ask("deny") \cup ask("warn") : q.err,
            denies |-> all("deny"), warns |-> all("warn")]

applied(action, f, d, w) == (IF d = action THEN f.denies ELSE {}) \cup (IF w = action THEN f.warns ELSE {})
result(m, fails, warns, skipped, suppressed) ==
  [module |-> m, failures |-> fails, warnings |-> warns, skipped |-> skipped, suppressed |-> suppressed]

ApplyEvaluation(m, f, d) ==
  result(m, applied("block", f, d.deny, d.warn), applied("warn", f, d.deny, d.warn), FALSE,
         applied("ignore", f, d.deny, d.warn))

checkPlan(m) ==
  LET c == EffectiveConfig(m)
      f == Evaluate(m, NamespacesOrDefault(c))
  IN  IF c.enabled # "yes" THEN result(m, {}, {}, TRUE, {})
      ELSE IF f.err THEN result(m, {<<"terraci", "error">>}, {}, FALSE, {})
      ELSE ApplyEvaluation(m, f, c.decisions)

HasFailures(r) == r.failures # {}
HasWarnings(r) == r.failures = {} /\ r.warnings # {}

\* The results of the modules that have a plan file, those that cannot be
\* parsed included: their check fails.
Check(planned, unparsable) ==
  {IF m \in unparsable /\ EffectiveConfig(m).enabled = "yes"
     THEN result(m, {<<"terraci", "error">>}, {}, FALSE, {}) ELSE checkPlan(m) : m \in planned}

NewSummary(results) ==
  LET failed == {r \in results : HasFailures(r)}
      warned == {r \in results : HasWarnings(r)}
  IN  [total |-> Cardinality(results), failed |-> Cardinality(failed), warned |-> Cardinality(warned),
       passed |-> Cardinality(results \ (failed \cup warned)),
       skipped |-> Cardinality({r \in results : r.skipped})]

StatusFromCounts(fail, warn) == IF fail > 0 THEN "fail" ELSE IF warn > 0 THEN "warn" ELSE "pass"
=============================================================================
