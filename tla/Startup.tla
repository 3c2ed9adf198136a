------------------------------- MODULE Startup -------------------------------
(***************************************************************************)
(* How a command of terraci comes to run: the plugins compiled into it     *)
(* register factories; every command gets plugin instances of its own,     *)
(* loads a configuration file, hands each plugin its section, lets enabled *)
(* plugins check it and collects what they add to pipelines.               *)
(*                                                                         *)
(* A section of the configuration is what plugins tell apart in it: does   *)
(* it decode, is it valid, does it switch the plugin on, and the values    *)
(* commands read.  One process may run several commands.                   *)
(***************************************************************************)
EXTENDS Sequences, SequencesExt, Functions, FiniteSets, Naturals, TLC

CONSTANTS
  Factories,      \* the plugin factories, in the order they are registered
  ConfigNames,    \* the names a configuration file may have, in order
  Contents,       \* what people may write in one
  Environments,   \* what the environment says of the CI system
  Requests,       \* the command lines
  MaxCommands     \* bound on the commands of a process

ASSUME FactoriesAssumption == Factories \in Seq(Range(Factories))

VARIABLES
  catalog,    \* the registered factories, and whether one was refused
  file,       \* the configuration files of the working directory
  env,        \* the environment of the process
  instances,  \* per plugin, the instance of the present command
  run,        \* the present command
  commands    \* how many have run
startupVars == <<catalog, file, env, instances, run, commands>>

-----------------------------------------------------------------------------
(* Plugins *)

\* The string nothing has been written to
Unset == ""

registered == Len(catalog.order) = Len(Factories)

\* The init functions of the plugins, before anything else.  A duplicate or an
\* invalid plugin ends the process before it has begun.
RegisterFactory ==
  /\ ~registered /\ ~catalog.panic
  /\ LET f == Factories[Len(catalog.order) + 1]
     IN  catalog' = IF ~f.valid \/ \E i \in DOMAIN catalog.order : catalog.order[i].name = f.name
                      THEN [catalog EXCEPT !.panic = TRUE] ELSE [catalog EXCEPT !.order = Append(@, f)]
  /\ UNCHANGED <<file, env, instances, run, commands>>

Names == {catalog.order[i].name : i \in DOMAIN catalog.order}
plugin(n) == CHOOSE f \in Range(catalog.order) : f.name = n

\* Those plugins of the catalog, in the order of their registration
asRegistered(plugins) ==
  FlattenSeq([i \in DOMAIN catalog.order |-> IF catalog.order[i] \in plugins THEN <<catalog.order[i]>> ELSE <<>>])
byCapability(cap) == asRegistered({f \in Range(catalog.order) : cap \in f.caps})

NoDocument == [decodes |-> TRUE, valid |-> TRUE, on |-> TRUE, image |-> Unset, bump |-> Unset, pipeline |-> FALSE]
NewInstance == [configured |-> FALSE, doc |-> NoDocument]

\* Mutant: a command gets the instances of the one before it.
NewRegistryReused == IF DOMAIN instances = Names THEN instances ELSE [n \in Names |-> NewInstance]
NewRegistry == [n \in Names |-> NewInstance]

IsEnabled(f, instance) ==
  \/ "config" \notin f.caps
  \/ f.mode = "always"
  \/ f.mode = "configured" /\ instance.configured
  \/ f.mode = "explicit" /\ instance.configured /\ instance.doc.on
  \/ f.mode = "default" /\ (instance.configured => instance.doc.on)

activeByCapability(cap, is) == asRegistered({f \in Range(byCapability(cap)) : IsEnabled(f, is[f.name])})

\* Each plugin gets the section under its key; the first that does not decode
\* ends it.  Sections that are no plugin's are left alone.
DecodeConfig(is, config) ==
  LET loaders == byCapability("config")
      present == {i \in DOMAIN loaders : loaders[i].name \in DOMAIN config.extensions}
      bad == {i \in present : ~config.extensions[loaders[i].name].decodes}
      decoded == {loaders[i].name : i \in {j \in present : \A b \in bad : j < b}}
  IN  [ok |-> bad = {},
       is |-> [n \in DOMAIN is |-> IF n \in decoded THEN [configured |-> TRUE, doc |-> config.extensions[n]] ELSE is[n]]]

\* Mutant: what is on without being configured is all that is checked.
preflightsForStartupDefault(is) ==
  asRegistered({f \in Range(activeByCapability("preflight", is)) : f.mode \in {"always", "default"}})
preflightsForStartup(is) == activeByCapability("preflight", is)

\* Config.Validate of the GitLab plugin looks into the image that need not be there,
\* which ends the process; the next command is then run by another, and nothing
\* below tells it from a command of the same.
validateImage(doc) == doc.image # Unset
Preflight(f, is) ==
  is[f.name].configured => is[f.name].doc.valid /\ (f.name = "gitlab" => validateImage(is[f.name].doc))

RunPreflight(is) == \A f \in Range(preflightsForStartup(is)) : Preflight(f, is)

PipelineContributionEnabled(f, is) == "gate" \in f.caps => is[f.name].doc.pipeline
CollectContributions(is) ==
  {f.name : f \in {g \in Range(activeByCapability("contributes", is)) : PipelineContributionEnabled(g, is)}}

-----------------------------------------------------------------------------
(* Resolvers *)

NotFound == Unset
resolveSingle(active) == IF Len(active) = 1 THEN active[1].name ELSE NotFound

\* A name wins, then the CI system that runs us, then the only one there is.
ResolveCIProvider(is) ==
  LET active == activeByCapability("ci", is)
      named == asRegistered({f \in Range(active) : f.name = env.provider})
      detected == asRegistered({f \in Range(active) : f.name \in env.detected})
  IN  IF env.provider # Unset THEN IF named = <<>> THEN NotFound ELSE named[1].name
      ELSE IF detected # <<>> THEN detected[1].name ELSE resolveSingle(active)

-----------------------------------------------------------------------------
(* Configuration *)

NoFile == [form |-> "none"]
Default == [binary |-> "terraform", pattern |-> "ok", extensions |-> [x \in {} |-> NoDocument]]
yaml(config) == [form |-> "yaml", config |-> config]

Validate(config) == config.pattern = "ok" /\ config.binary \in {"terraform", "tofu"}

\* A file with nothing in it is one with the defaults.
Load(f) ==
  CASE f.form \in {"none", "broken"} -> {}
    [] f.form = "empty"              -> {Default}
    [] f.form = "yaml"               -> {c \in {f.config} : Validate(c)}

LoadOrDefault ==
  LET there == {i \in DOMAIN ConfigNames : file[ConfigNames[i]].form # "none"}
  IN  IF there = {} THEN {Default} ELSE Load(file[ConfigNames[Min(there)]])

-----------------------------------------------------------------------------
(* Commands *)

NoCommand == [at |-> "idle"]

StartupInit ==
  /\ catalog = [order |-> <<>>, panic |-> FALSE]
  /\ file \in [Range(ConfigNames) -> {NoFile} \cup Contents]
  /\ env \in Environments
  /\ instances = [n \in {} |-> NewInstance]
  /\ run = NoCommand
  /\ commands = 0

\* Flow.Prepare: a command that skips the configuration skips all that follows
\* from it.
Prepare(req) ==
  LET loaded == IF req.config = Unset THEN LoadOrDefault ELSE Load(file[req.config])
      config == IF req.skipConfig \/ loaded = {} THEN Default ELSE CHOOSE c \in loaded : TRUE
      decoded == IF req.skipConfig THEN [ok |-> TRUE, is |-> NewRegistry]
                                   ELSE DecodeConfig(NewRegistry, config)
      ready == /\ req.skipConfig \/ loaded # {}
               /\ decoded.ok
               /\ req.skipConfig \/ req.skipPreflight \/ RunPreflight(decoded.is)
  IN  /\ run.at \in {"idle", "ended", "failed"}
      /\ registered /\ commands < MaxCommands
      /\ commands' = commands + 1
      /\ instances' = decoded.is
      /\ run' = [at |-> IF ready THEN "running" ELSE "failed", req |-> req, config |-> config,
                 contributions |-> IF ready /\ ~req.skipConfig THEN CollectContributions(decoded.is) ELSE {},
                 result |-> Unset]
      /\ UNCHANGED <<catalog, file, env>>

ends(result) == run' = [run EXCEPT !.at = "ended", !.result = result]
fails == run' = [run EXCEPT !.at = "failed", !.result = "error"]

\* settings.defaultImage of the GitLab generator
defaultImage ==
  LET configured == instances["gitlab"].doc.image
  IN  IF configured # Unset THEN configured ELSE IF run.config.binary = "tofu" THEN "tofu" ELSE "terraform"

\* generate, once it has found targets: the pipeline of the provider.
Generate ==
  LET p == ResolveCIProvider(instances)
  IN  /\ run.at = "running" /\ run.req.command = "generate"
      /\ \/ p = NotFound /\ fails
         \/ p # NotFound /\ ends(IF p = "gitlab" THEN defaultImage ELSE p)
      /\ UNCHANGED <<catalog, file, env, instances, commands>>

\* policy and tfupdate check that their plugin is enabled, and tfupdate, which is
\* not given --bump here, that it knows how far it may go.
PluginCommand(n) ==
  /\ run.at = "running" /\ run.req.command = n
  /\ IF ~IsEnabled(plugin(n), instances[n]) \/ (n = "tfupdate" /\ instances[n].doc.bump = Unset)
       THEN fails ELSE ends("ok")
  /\ UNCHANGED <<catalog, file, env, instances, commands>>

\* validate, graph and version only look.
Look ==
  /\ run.at = "running" /\ run.req.command \in {"validate", "version"}
  /\ ends("ok")
  /\ UNCHANGED <<catalog, file, env, instances, commands>>

\* People edit the configuration between commands.
Write(n, content) ==
  /\ run.at # "running"
  /\ file' = [file EXCEPT ![n] = content]
  /\ UNCHANGED <<catalog, env, instances, run, commands>>

StartupNext ==
  \/ RegisterFactory
  \/ \E req \in Requests : Prepare(req)
  \/ Generate
  \/ \E n \in {"policy", "tfupdate"} : PluginCommand(n)
  \/ Look

-----------------------------------------------------------------------------
(* Properties *)

\* While a command runs, what each plugin takes for its configuration is the
\* section of this command's file and nothing of a command before it
\* (registry.go:79-94, base.go:78-89, doc.go "repeated command invocations
\* cannot leak mutable runtime state").
PluginsSeeOnlyThisConfig ==
  run.at = "running" =>
    \A f \in Range(byCapability("config")) :
      instances[f.name] =
        IF run.req.skipConfig \/ f.name \notin DOMAIN run.config.extensions THEN NewInstance
        ELSE [configured |-> TRUE, doc |-> run.config.extensions[f.name]]

\* No command builds a pipeline with, or is run by, a plugin whose configuration
\* its preflight would refuse, unless its policy skips preflights; and what is
\* in the pipeline is of plugins that are on (flow.go:113-123, lifecycle.go:86-110,
\* resolve.go:182-224).
NothingRunsUnchecked ==
  run.at \in {"running", "ended"} =>
    /\ \A n \in run.contributions : IsEnabled(plugin(n), instances[n])
    /\ ~run.req.skipPreflight /\ ~run.req.skipConfig =>
         \A f \in Range(catalog.order) :
           "preflight" \in f.caps /\ instances[f.name].configured /\ ~instances[f.name].doc.valid
             => ~IsEnabled(f, instances[f.name])
=============================================================================
