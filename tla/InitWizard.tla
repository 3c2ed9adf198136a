----------------------------- MODULE InitWizard -----------------------------
(***************************************************************************)
(* terraci init: from flags, or from a form people fill in, a              *)
(* configuration is built out of what the plugins make of the answers, and *)
(* written over .terraci.yaml.  Commands that are run later load it.       *)
(***************************************************************************)
EXTENDS Startup

CONSTANTS
  Asked,         \* bound: the fields people answer other than by their default
  MaxSaveFaults  \* bound on the writes that go wrong

VARIABLES
  form,    \* what is bound to the fields while the form is shown, in a set
  origin,  \* history: the state the file was built from, in a set
  saveFaults
wizardVars == <<form, origin, saveFaults>>
appVars == <<startupVars, wizardVars>>

ConfigFile == ".terraci.yaml"

\* Load looks for it first, wherever else a configuration may be.
ASSUME ConfigFileAssumption == ConfigNames \in Seq(STRING) /\ ConfigNames # <<>> /\ ConfigNames[1] = ConfigFile

\* The plugins that contribute to init and how each is switched on (plugin.go
\* of each); the providers among them run CI.
ASSUME ContributorsAssumption ==
  \A f \in Range(Factories) :
    /\ "ci" \in f.caps => "init" \in f.caps
    /\ "init" \in f.caps =>
         /\ "config" \in f.caps
         /\ <<f.name, f.mode>> \in {<<"gitlab", "configured">>, <<"github", "configured">>, <<"cost", "explicit">>,
                                   <<"policy", "explicit">>, <<"tfupdate", "explicit">>, <<"summary", "default">>}
         /\ "ci" \in f.caps <=> f.name \in {"gitlab", "github"}

ciProviders == {f.name : f \in Range(byCapability("ci"))}
contributors == {f.name : f \in Range(byCapability("init"))}

-----------------------------------------------------------------------------
(* StateMap: the values of the keys that are set; StateKey.Get is the zero   *)
(* value of the others.                                                      *)

BoolKeys == {"summary.enabled", "cost.enabled", "policy.enabled", "tfupdate.enabled",
             "tfupdate.pipeline", "gitlab.cache.enabled"}
Get(s, k) == IF k \in DOMAIN s THEN s[k] ELSE IF k \in BoolKeys THEN FALSE ELSE Unset
Set(s, k, v) == (k :> v) @@ s

\* The fields of the plugins, and their defaults
InitFields ==
  ("gitlab.image" :> "terraform") @@ ("gitlab.stages_prefix" :> "deploy") @@ ("gitlab.cache.enabled" :> TRUE)
  @@ ("github.runs_on" :> "ubuntu-latest")
  @@ ("summary.enabled" :> TRUE) @@ ("cost.enabled" :> FALSE)
  @@ ("policy.enabled" :> FALSE) @@ ("policy.source_path" :> "policies") @@ ("policy.decisions.deny" :> "block")
  @@ ("tfupdate.enabled" :> FALSE) @@ ("tfupdate.target" :> "all") @@ ("tfupdate.bump" :> "minor")
  @@ ("tfupdate.pipeline" :> FALSE)
ApplyDefault(s, keys) == s @@ [k \in keys |-> InitFields[k]]

\* What a select field offers, and a word for what may be typed
Options(k) ==
  CASE k = "provider"     -> ciProviders
    [] k = "binary"       -> {"terraform", "tofu"}
    [] k = "tfupdate.bump" -> {"patch", "minor", "major"}
    [] k = "tfupdate.target" -> {"all", "modules", "providers"}
    [] k = "policy.decisions.deny" -> {"block", "warn", "ignore"}
    [] k \in BoolKeys     -> BOOLEAN
    [] OTHER              -> {Unset, "own"}

-----------------------------------------------------------------------------
(* Groups of fields: shown always, or when a key has a value.  The order in  *)
(* which they are shown is left out.                                         *)

NewInitGroup(category, keys, when) == [category |-> category, keys |-> keys, when |-> when]
Always == <<>>
gitlabGroups ==
  {NewInitGroup("provider", {"gitlab.image", "gitlab.stages_prefix", "gitlab.cache.enabled"}, <<"provider", "gitlab">>)}
githubGroups == {NewInitGroup("provider", {"github.runs_on"}, <<"provider", "github">>)}
costGroups == {NewInitGroup("feature", {"cost.enabled"}, Always)}
summaryGroups == {NewInitGroup("feature", {"summary.enabled"}, Always)}
policyGroups ==
  {NewInitGroup("feature", {"policy.enabled"}, Always),
   NewInitGroup("detail", {"policy.source_path", "policy.decisions.deny"}, <<"policy.enabled", TRUE>>)}
tfupdateGroups ==
  {NewInitGroup("feature", {"tfupdate.enabled"}, Always),
   NewInitGroup("detail", {"tfupdate.target", "tfupdate.bump", "tfupdate.pipeline"}, <<"tfupdate.enabled", TRUE>>)}
InitGroups(n) ==
  CASE n = "gitlab" -> gitlabGroups [] n = "github" -> githubGroups [] n = "cost" -> costGroups
    [] n = "summary" -> summaryGroups [] n = "policy" -> policyGroups [] n = "tfupdate" -> tfupdateGroups

\* Groups of features, and those of pipelines, are shown as one, when any of
\* them is to be.
mergedDisplayGroup(gs) ==
  IF gs = {} THEN {} ELSE {[keys |-> UNION {g.keys : g \in gs}, when |-> {g.when : g \in gs}]}
buildDisplayGroups ==
  LET groups == UNION {InitGroups(n) : n \in contributors}
      of(category) == {g \in groups : g.category = category}
  IN  {[keys |-> g.keys, when |-> {g.when}] : g \in of("provider") \cup of("detail")}
        \cup mergedDisplayGroup(of("pipeline")) \cup mergedDisplayGroup(of("feature"))
Visible(g, s) == \E w \in g.when : w = Always \/ (w # Always /\ Get(s, w[1]) = w[2])
basicsGroup == [keys |-> {"provider", "binary", "pattern"}, when |-> {Always}]

-----------------------------------------------------------------------------
(* What init begins with *)

\* Nothing to choose from leaves the provider unset.
defaultProvider == IF "gitlab" \in ciProviders THEN "gitlab" ELSE IF "github" \in ciProviders THEN "github" ELSE Unset
DefaultState ==
  ("binary" :> "terraform") @@ ("pattern" :> "ok") @@ ("summary.enabled" :> TRUE)
    @@ (IF ciProviders = {} THEN [k \in {} |-> Unset] ELSE "provider" :> defaultProvider)

ApplyOverrides(s, o) ==
  LET over(k, v, t) == IF v = Unset THEN t ELSE Set(t, k, v)
  IN  over("provider", o.provider, over("binary", o.binary, over("pattern", o.pattern, s)))

\* Building the form gives every field of it its default, shown or not.
newInitModel == ApplyDefault(DefaultState, UNION {g.keys : g \in buildDisplayGroups})

-----------------------------------------------------------------------------
(* What a plugin makes of the answers: a section, or none.  Of its values    *)
(* those are kept that a command reads in Startup.                           *)

gitlabInitConfig(s) ==
  IF Get(s, "provider") # "gitlab" THEN {}
  ELSE {[NoDocument EXCEPT !.image = IF Get(s, "gitlab.image") = Get(s, "binary") THEN Unset ELSE Get(s, "gitlab.image")]}
githubInitConfig(s) == IF Get(s, "provider") # "github" THEN {} ELSE {NoDocument}
costInitConfig(s) == IF Get(s, "cost.enabled") THEN {NoDocument} ELSE {}
policyInitConfig(s) == IF Get(s, "policy.enabled") THEN {NoDocument} ELSE {}
\* Mutant: the section is only written for what is on.
summaryInitConfigOn(s) == IF Get(s, "summary.enabled") THEN {NoDocument} ELSE {}
summaryInitConfig(s) == IF Get(s, "summary.enabled") THEN {} ELSE {[NoDocument EXCEPT !.on = FALSE]}

\* What the plugin has by default is not written.
tfupdateInitConfig(s) ==
  IF ~Get(s, "tfupdate.enabled") THEN {}
  ELSE {[NoDocument EXCEPT !.bump = IF Get(s, "tfupdate.bump") = "minor" THEN Unset ELSE Get(s, "tfupdate.bump"),
                           !.pipeline = Get(s, "tfupdate.pipeline")]}

BuildInitConfig(n, s) ==
  CASE n = "gitlab" -> gitlabInitConfig(s) [] n = "github" -> githubInitConfig(s)
    [] n = "cost" -> costInitConfig(s) [] n = "policy" -> policyInitConfig(s)
    [] n = "summary" -> summaryInitConfig(s) [] n = "tfupdate" -> tfupdateInitConfig(s)

\* An empty pattern, like an empty binary, is the default one.
BuildConfig(s) ==
  LET written == {n \in contributors : BuildInitConfig(n, s) # {}}
      config == [binary |-> IF Get(s, "binary") = Unset THEN "terraform" ELSE Get(s, "binary"),
                 pattern |-> IF Get(s, "pattern") = Unset THEN "ok" ELSE Get(s, "pattern"),
                 extensions |-> [n \in written |-> CHOOSE d \in BuildInitConfig(n, s) : TRUE]]
  IN  {c \in {config} : Validate(c)}

-----------------------------------------------------------------------------

AppInit ==
  /\ StartupInit
  /\ form = {}
  /\ origin = {}
  /\ saveFaults = 0

initRuns == run.at = "running" /\ run.req.command = "init"

\* Save truncates the file and writes it: an error, or the end of the process,
\* leaves it as it was, without its contents or with some of them.
Save(s) ==
  LET built == BuildConfig(s)
  IN  \/ /\ built = {}
         /\ fails
         /\ UNCHANGED <<file, origin, saveFaults>>
      \/ /\ \E c \in built : file' = [file EXCEPT ![ConfigFile] = yaml(c)]
         /\ origin' = {s}
         /\ ends("ok")
         /\ UNCHANGED saveFaults
      \/ /\ built # {} /\ saveFaults < MaxSaveFaults
         /\ saveFaults' = saveFaults + 1
         /\ \E f \in {file[ConfigFile], [form |-> "empty"], [form |-> "broken"]} :
              /\ file' = [file EXCEPT ![ConfigFile] = f]
              /\ origin' = IF f = file[ConfigFile] THEN origin ELSE {}
         /\ fails

\* An existing file is kept unless it is to be overwritten.  Without flags, and
\* without a terminal to ask at, there is nothing to do.
StartInit ==
  LET overwrites == file[ConfigFile].form = "none" \/ run.req.force
  IN  /\ initRuns /\ form = {}
      /\ \/ /\ ~overwrites \/ (run.req.flags = {} /\ ~env.terminal)
            /\ fails
            /\ UNCHANGED <<form, file, origin, saveFaults>>
         \/ /\ overwrites
            /\ \E o \in run.req.flags : Save(ApplyOverrides(DefaultState, o))
            /\ UNCHANGED form
         \/ /\ overwrites /\ run.req.flags = {} /\ env.terminal
            /\ form' = {newInitModel}
            /\ UNCHANGED <<file, run, origin, saveFaults>>
      /\ UNCHANGED <<catalog, env, instances, commands>>

\* A field of a group that is shown is answered.  Groups are hidden and shown
\* again with the answers they depend on; what was answered in them stays.
Answer(k) ==
  /\ initRuns
  /\ \E s \in form :
       /\ \E g \in buildDisplayGroups \cup {basicsGroup} : k \in g.keys /\ Visible(g, s)
       /\ \E v \in Options(k) : form' = {Set(s, k, v)}
  /\ UNCHANGED <<startupVars, origin, saveFaults>>

Complete ==
  /\ initRuns
  /\ \E s \in form : Save(s)
  /\ form' = {}
  /\ UNCHANGED <<catalog, env, instances, commands>>

\* ctrl+c: "init canceled"
Quit ==
  /\ initRuns /\ form # {}
  /\ form' = {}
  /\ fails
  /\ UNCHANGED <<catalog, file, env, instances, commands, origin, saveFaults>>

\* Bound: people edit between commands; what they find first is any content.
Edit ==
  /\ commands \in 1..(MaxCommands - 1)
  /\ \E n \in Range(ConfigNames), c \in Contents \cup {NoFile} :
       Write(n, c) /\ origin' = IF n = ConfigFile THEN {} ELSE origin
  /\ UNCHANGED <<form, saveFaults>>

AppNext ==
  \/ StartupNext /\ UNCHANGED wizardVars
  \/ StartInit \/ (\E k \in Asked : Answer(k)) \/ Complete \/ Quit
  \/ Edit

AppSpec == AppInit /\ [][AppNext]_appVars

-----------------------------------------------------------------------------
(* Properties *)

loadsIt == /\ ~run.req.skipConfig /\ run.req.config = Unset /\ run.req.command # "init"

chosen(s) == {n \in contributors \ ciProviders : Get(s, CASE n = "cost" -> "cost.enabled" [] n = "summary" -> "summary.enabled"
                                                   [] n = "policy" -> "policy.enabled" [] n = "tfupdate" -> "tfupdate.enabled")}

\* Written with the image init proposes, which it leaves out as a default.
imageless(s) == \E doc \in gitlabInitConfig(s) : ~validateImage(doc)

\* "Optional Docker image override for Terraform jobs" (docs/config/gitlab.md:23):
\* what init has written for GitLab with the image it proposes, no command refuses.
ImageIsOptional ==
  run.at = "failed" /\ loadsIt => \A s \in origin : imageless(s) => run.result = "error"

\* Written without the bump tfupdate asks for, which is left out as a default.
bumpless(s) == \E doc \in tfupdateInitConfig(s) : doc.bump = Unset

\* "`minor` ... (default)" (docs/cli/tfupdate.md:149): once init has switched it
\* on, terraci tfupdate does not end for want of a bump.
BumpHasDefault ==
  run.at = "failed" /\ loadsIt /\ run.req.command = "tfupdate" =>
    \A s \in origin : "tfupdate" \in chosen(s) => run.result # "error"

\* The commands that what was answered leaves nothing to do: of a feature that
\* was not chosen, tfupdate without a bump (BumpHasDefault), and generate for no
\* provider or for another one than the chosen.
declined(s) ==
  \/ run.req.command \in {"policy", "tfupdate"} \ chosen(s)
  \/ run.req.command = "tfupdate" /\ bumpless(s)
  \/ /\ run.req.command = "generate"
     /\ Get(s, "provider") \notin ciProviders \/ env.provider \notin {Unset, Get(s, "provider")}

\* What init has written, no command is refused for, save a gitlab section that
\* lacks the image (ImageIsOptional), and of the commands that start only those
\* fail that have nothing to do; the CI provider is the chosen one
\* whatever CI system runs it, and exactly the chosen features are on, whatever
\* was answered in groups that have been hidden since
\* (initflow/flow.go:179-224, 277-367, init_wizard.go of the plugins).
InitIsUnderstood ==
  run.at # "idle" /\ loadsIt =>
    \A s \in origin :
      /\ run.at = "failed" => IF run.result = "error" THEN declined(s) ELSE imageless(s)
      /\ run.at = "running" =>
           /\ \A p \in ciProviders : IsEnabled(plugin(p), instances[p]) <=> p = Get(s, "provider")
           /\ env.provider \in {Unset, Get(s, "provider")} /\ Get(s, "provider") \in ciProviders =>
                ResolveCIProvider(instances) = Get(s, "provider")
           /\ \A n \in contributors \ ciProviders : IsEnabled(plugin(n), instances[n]) <=> n \in chosen(s)
=============================================================================
