----------------------------- MODULE CommandProofs ----------------------------
(***************************************************************************)
(* Theorems about the commands of terraci: what a plugin of a command sees *)
(* of the configuration, that the command runs only once it is checked,    *)
(* and that terraci init writes what it will itself understand (Startup,   *)
(* InitWizard); and that terraci tfupdate leaves no lock entry half        *)
(* written or further than the bump allows (UpdatePlan, DependencyUpdate). *)
(***************************************************************************)
EXTENDS DependencyUpdate, InitWizard, SequenceLemmas

-----------------------------------------------------------------------------
(* The catalog *)

\* The plugins that have registered are different ones, and commands come after.
CatalogInv ==
  /\ catalog = [order |-> catalog.order, panic |-> catalog.panic]
  /\ catalog.order \in Seq(Range(Factories)) /\ Len(catalog.order) <= Len(Factories)
  /\ \A i, j \in DOMAIN catalog.order : catalog.order[i].name = catalog.order[j].name => i = j
  /\ ~registered => run = NoCommand /\ origin = {}

\* asRegistered leaves the order of registration and drops what is not asked for.
LEMMA AsRegistered ==
  ASSUME CatalogInv, NEW P
  PROVE  /\ asRegistered(P) \in Seq(Range(Factories))
         /\ Range(asRegistered(P)) = P \cap Range(catalog.order)
<1>. DEFINE order == catalog.order
            pick(i) == IF order[i] \in P THEN <<order[i]>> ELSE <<>>
            picks == [i \in DOMAIN order |-> pick(i)]
            T == Range(Factories)
<1>1. order \in Seq(T)
  BY DEF CatalogInv
<1>. HIDE DEF order, T
<1>2. \A i \in DOMAIN order : pick(i) \in Seq(T)
  BY <1>1
<1>3. \A i \in DOMAIN order : Range(pick(i)) = {order[i]} \cap P
  BY DEF Range
<1>. HIDE DEF pick
<1>4. picks \in Seq(Seq(T)) /\ DOMAIN picks = DOMAIN order
  BY <1>1, <1>2
<1>5. FlattenSeq(picks) \in Seq(T)
      /\ Range(FlattenSeq(picks)) = UNION {Range(picks[i]) : i \in DOMAIN picks}
  <2>. HIDE DEF picks
  <2>. QED
    BY <1>4, FlattenRange
<1>6. UNION {Range(picks[i]) : i \in DOMAIN picks} = P \cap Range(order)
  BY <1>3, <1>4 DEF Range
<1>7. asRegistered(P) = FlattenSeq(picks)
  BY DEF asRegistered, picks, pick, order
<1>. QED
  BY <1>5, <1>6, <1>7 DEF order, T

\* If it asks for one plugin, it gets a sequence of one.
LEMMA OneRegistered ==
  ASSUME CatalogInv, NEW f \in Range(catalog.order), NEW P, P \cap Range(catalog.order) = {f}
  PROVE  asRegistered(P) = <<f>>
<1>. DEFINE order == catalog.order
            pick(i) == IF order[i] \in P THEN <<order[i]>> ELSE <<>>
            picks == [i \in DOMAIN order |-> pick(i)]
            T == Range(Factories)
<1>1. order \in Seq(T) /\ \A i, j \in DOMAIN order : order[i].name = order[j].name => i = j
  BY DEF CatalogInv
<1>. HIDE DEF order, T
<1>2. \A i \in DOMAIN order : pick(i) \in Seq(T) /\ Range(pick(i)) = {order[i]} \cap P /\ IsInjective(pick(i))
  BY <1>1 DEF Range, IsInjective
<1>. HIDE DEF pick
<1>3. picks \in Seq(Seq(T)) /\ DOMAIN picks = DOMAIN order
  BY <1>1, <1>2
<1>4. \A i \in DOMAIN picks : IsInjective(picks[i])
  BY <1>2
<1>5. \A i, j \in DOMAIN picks : Range(picks[i]) \cap Range(picks[j]) # {} => i = j
  BY <1>1, <1>2
<1>6. asRegistered(P) = FlattenSeq(picks)
  BY DEF asRegistered, picks, pick, order
<1>7. IsInjective(asRegistered(P))
  <2>. HIDE DEF picks
  <2>. QED
    BY <1>3, <1>4, <1>5, <1>6, FlattenInjective
<1>8. asRegistered(P) \in Seq(T) /\ Range(asRegistered(P)) = {f}
  BY AsRegistered DEF T
<1>9. Len(asRegistered(P)) = Cardinality({f})
  BY <1>7, <1>8, LenOfInjective
<1>10. Cardinality({f}) = 1
  BY FS_Singleton
<1>11. asRegistered(P)[1] = f
  <2>1. 1 \in DOMAIN asRegistered(P)
    BY <1>8, <1>9, <1>10
  <2>. QED
    BY <1>8, <2>1 DEF Range
<1>. QED
  BY <1>8, <1>9, <1>10, <1>11

\* A name is that of one plugin.
LEMMA PluginOfName ==
  ASSUME CatalogInv, NEW f \in Range(catalog.order)
  PROVE  plugin(f.name) = f /\ f.name \in Names
<1>1. \A h \in Range(catalog.order) : h.name = f.name => h = f
  BY DEF CatalogInv, Range
<1>. QED
  BY <1>1 DEF plugin, Names, Range

LEMMA Capable ==
  ASSUME CatalogInv, NEW cap
  PROVE  /\ Range(byCapability(cap)) = {f \in Range(catalog.order) : cap \in f.caps}
         /\ \A is : Range(activeByCapability(cap, is)) =
                      {f \in Range(catalog.order) : cap \in f.caps /\ IsEnabled(f, is[f.name])}
<1>1. Range(byCapability(cap)) = {f \in Range(catalog.order) : cap \in f.caps}
  BY AsRegistered DEF byCapability
<1>2. ASSUME NEW is
      PROVE  Range(activeByCapability(cap, is)) =
               {f \in Range(catalog.order) : cap \in f.caps /\ IsEnabled(f, is[f.name])}
  BY <1>1, AsRegistered DEF activeByCapability
<1>. QED
  BY <1>1, <1>2

-----------------------------------------------------------------------------
(* What a command makes of its configuration *)

\* What DecodeConfig makes of new instances, if it does not fail.
Section(f, config) ==
  IF f.name \in DOMAIN config.extensions THEN [configured |-> TRUE, doc |-> config.extensions[f.name]] ELSE NewInstance

LEMMA Decoded ==
  ASSUME CatalogInv, NEW config, DecodeConfig(NewRegistry, config).ok
  PROVE  \A f \in Range(catalog.order) :
           DecodeConfig(NewRegistry, config).is[f.name] = IF "config" \in f.caps THEN Section(f, config) ELSE NewInstance
<1>. DEFINE loaders == byCapability("config")
            present == {i \in DOMAIN loaders : loaders[i].name \in DOMAIN config.extensions}
            bad == {i \in present : ~config.extensions[loaders[i].name].decodes}
            decoded == {loaders[i].name : i \in {j \in present : \A b \in bad : j < b}}
<1>1. bad = {}
  BY DEF DecodeConfig
<1>2. decoded = {loaders[i].name : i \in present}
  BY <1>1
<1>3. DecodeConfig(NewRegistry, config).is =
        [n \in Names |-> IF n \in decoded THEN [configured |-> TRUE, doc |-> config.extensions[n]] ELSE NewInstance]
  BY DEF DecodeConfig, NewRegistry
<1>4. ASSUME NEW f \in Range(catalog.order)
      PROVE  f.name \in decoded <=> "config" \in f.caps /\ f.name \in DOMAIN config.extensions
  <2>1. Range(loaders) = {h \in Range(catalog.order) : "config" \in h.caps}
    BY Capable
  <2>2. \A h \in Range(loaders) : h.name = f.name => h = f
    BY <2>1, PluginOfName
  <2>. HIDE DEF loaders
  <2>. QED
    BY <1>2, <2>1, <2>2 DEF Range
<1>. HIDE DEF decoded
<1>. QED
  BY <1>3, <1>4, PluginOfName DEF Section

\* What the present command's plugins are, and whether it may run with them.
prepared == IF run.req.skipConfig THEN NewRegistry ELSE DecodeConfig(NewRegistry, run.config).is
accepted ==
  \/ run.req.skipConfig
  \/ /\ DecodeConfig(NewRegistry, run.config).ok
     /\ run.req.skipPreflight \/ RunPreflight(instances)
collected == IF run.req.skipConfig THEN {} ELSE CollectContributions(instances)

\* The instances are those of the present command: new ones, into which its own
\* configuration has been decoded.
CommandInv ==
  \/ run = NoCommand
  \/ /\ run = [at |-> run.at, req |-> run.req, config |-> run.config,
               contributions |-> run.contributions, result |-> run.result]
     /\ run.at \in {"running", "ended", "failed"}
     /\ instances = prepared
     /\ run.at \in {"running", "ended"} => accepted /\ run.contributions = collected

\* The configuration file is what init has built it to be, until somebody edits it.
FileInv ==
  /\ DOMAIN file = Range(ConfigNames)
  /\ \A s \in origin : \E c \in BuildConfig(s) : file[ConfigFile] = yaml(c)

\* A command that loads it has it for its configuration, and fails because there
\* is nothing for it to do or because its plugins do not accept it.
LoadInv ==
  run.at # "idle" /\ loadsIt =>
    \A s \in origin :
      /\ run.config \in BuildConfig(s)
      /\ run.at = "failed" => IF run.result = "error" THEN declined(s) ELSE ~accepted

AppInv == CatalogInv /\ CommandInv /\ FileInv /\ LoadInv

LEMMA AppInitInv == ASSUME AppInit PROVE AppInv
<1>1. CatalogInv
  <2>1. catalog = [order |-> <<>>, panic |-> FALSE] /\ run = NoCommand /\ origin = {}
    BY DEF AppInit, StartupInit
  <2>. QED
    BY <2>1 DEF CatalogInv
<1>2. CommandInv /\ FileInv /\ LoadInv
  BY DEF AppInit, StartupInit, CommandInv, FileInv, LoadInv, NoCommand
<1>. QED
  BY <1>1, <1>2 DEF AppInv

\* The plugins stay what they are while commands run.
LEMMA SamePlugins ==
  ASSUME catalog' = catalog
  PROVE  /\ NewRegistry' = NewRegistry
         /\ \A c : DecodeConfig(NewRegistry, c)' = DecodeConfig(NewRegistry, c)
         /\ \A is : RunPreflight(is)' <=> RunPreflight(is)
         /\ \A is : CollectContributions(is)' = CollectContributions(is)
         /\ contributors' = contributors /\ ciProviders' = ciProviders
         /\ \A s : BuildConfig(s)' = BuildConfig(s) /\ chosen(s)' = chosen(s)
BY DEF NewRegistry, Names, DecodeConfig, byCapability, asRegistered, RunPreflight, preflightsForStartup,
       activeByCapability, CollectContributions, contributors, ciProviders, BuildConfig, chosen

\* What declines a command depends on no more than its line and the plugins.
LEMMA SameReasons ==
  ASSUME catalog' = catalog, env' = env, run.req' = run.req
  PROVE  (loadsIt' <=> loadsIt) /\ \A s : declined(s)' <=> declined(s)
<1>1. loadsIt' <=> loadsIt
  BY DEF loadsIt
<1>2. ASSUME NEW s PROVE declined(s)' <=> declined(s)
  BY SamePlugins DEF declined, bumpless
<1>. QED
  BY <1>1, <1>2

-----------------------------------------------------------------------------
(* What init has written *)

\* A section for each plugin that makes one of the answers.
LEMMA Written ==
  ASSUME CatalogInv, NEW s, NEW c \in BuildConfig(s)
  PROVE  /\ DOMAIN c.extensions = {n \in contributors : BuildInitConfig(n, s) # {}}
         /\ \A n \in DOMAIN c.extensions : c.extensions[n] \in BuildInitConfig(n, s)
<1>. DEFINE written == {n \in contributors : BuildInitConfig(n, s) # {}}
<1>. DEFINE extensions == [n \in written |-> CHOOSE d \in BuildInitConfig(n, s) : TRUE]
            config == [binary |-> IF Get(s, "binary") = Unset THEN "terraform" ELSE Get(s, "binary"),
                       pattern |-> IF Get(s, "pattern") = Unset THEN "ok" ELSE Get(s, "pattern"), extensions |-> extensions]
<1>0. c \in {x \in {config} : Validate(x)}
  BY DEF BuildConfig
<1>1. c.extensions = extensions
  <2>. HIDE DEF extensions
  <2>. QED
    BY <1>0
<1>2. \A n \in written : (CHOOSE d \in BuildInitConfig(n, s) : TRUE) \in BuildInitConfig(n, s)
  OBVIOUS
<1>. HIDE DEF written
<1>3. DOMAIN c.extensions = written /\ \A n \in written : c.extensions[n] \in BuildInitConfig(n, s)
  BY <1>1, <1>2
<1>. QED
  BY <1>3 DEF written

\* Who contributes to init
LEMMA Contributor ==
  ASSUME CatalogInv, NEW f \in Range(catalog.order)
  PROVE  /\ f.name \in contributors <=> "init" \in f.caps
         /\ f.name \in ciProviders <=> "ci" \in f.caps
         /\ "ci" \in f.caps => "init" \in f.caps
         /\ "init" \in f.caps =>
              /\ "config" \in f.caps
              /\ <<f.name, f.mode>> \in {<<"gitlab", "configured">>, <<"github", "configured">>, <<"cost", "explicit">>,
                                        <<"policy", "explicit">>, <<"tfupdate", "explicit">>, <<"summary", "default">>}
              /\ "ci" \in f.caps <=> f.name \in {"gitlab", "github"}
<1>1. f \in Range(Factories)
  BY DEF CatalogInv, Range
<1>2. \A h \in Range(catalog.order) : h.name = f.name => h = f
  BY PluginOfName
<1>3. /\ f.name \in contributors <=> "init" \in f.caps
      /\ f.name \in ciProviders <=> "ci" \in f.caps
  BY <1>2, Capable DEF contributors, ciProviders
<1>. QED
  BY <1>1, <1>3, ContributorsAssumption

\* What a plugin writes for itself decodes, is valid and says what was answered.
LEMMA Sections ==
  ASSUME NEW s, NEW n \in {"gitlab", "github", "cost", "policy", "tfupdate", "summary"}, NEW d \in BuildInitConfig(n, s)
  PROVE  /\ d.decodes /\ d.valid
         /\ n = "gitlab" => d \in gitlabInitConfig(s)
         /\ d.on <=> n # "summary"
<1>. DEFINE image == IF Get(s, "gitlab.image") = Get(s, "binary") THEN Unset ELSE Get(s, "gitlab.image")
            bump == IF Get(s, "tfupdate.bump") = "minor" THEN Unset ELSE Get(s, "tfupdate.bump")
            pipeline == Get(s, "tfupdate.pipeline")
<1>1. \/ n = "gitlab" /\ d \in gitlabInitConfig(s) /\ d = [NoDocument EXCEPT !.image = image]
      \/ n = "tfupdate" /\ d = [NoDocument EXCEPT !.bump = bump, !.pipeline = pipeline]
      \/ n = "summary" /\ d = [NoDocument EXCEPT !.on = FALSE]
      \/ n \in {"github", "cost", "policy"} /\ d = NoDocument
  <2>1. CASE n = "gitlab"
    BY <2>1 DEF BuildInitConfig, gitlabInitConfig
  <2>2. CASE n = "tfupdate"
    BY <2>2 DEF BuildInitConfig, tfupdateInitConfig
  <2>3. CASE n = "summary"
    BY <2>3 DEF BuildInitConfig, summaryInitConfig
  <2>4. CASE n \in {"github", "cost", "policy"}
    BY <2>4 DEF BuildInitConfig, githubInitConfig, costInitConfig, policyInitConfig
  <2>. QED
    BY <2>1, <2>2, <2>3, <2>4
<1>. HIDE DEF image, bump, pipeline
<1>2. NoDocument.decodes /\ NoDocument.valid /\ NoDocument.on
  BY DEF NoDocument
<1>3. CASE n = "gitlab" /\ d \in gitlabInitConfig(s) /\ d = [NoDocument EXCEPT !.image = image]
  BY <1>2, <1>3
<1>4. CASE n = "tfupdate" /\ d = [NoDocument EXCEPT !.bump = bump, !.pipeline = pipeline]
  BY <1>2, <1>4
<1>5. CASE n = "summary" /\ d = [NoDocument EXCEPT !.on = FALSE]
  <2>1. ~d.on /\ d.decodes /\ d.valid
    BY <1>5 DEF NoDocument
  <2>. QED
    BY <1>5, <2>1
<1>6. CASE n \in {"github", "cost", "policy"} /\ d = NoDocument
  BY <1>2, <1>6
<1>. QED
  BY <1>1, <1>3, <1>4, <1>5, <1>6

\* Such a configuration decodes, and only an image that is left out is refused.
LEMMA OnlyImagesRefused ==
  ASSUME AppInv, NEW s, ~run.req.skipConfig, run # NoCommand, run.config \in BuildConfig(s)
  PROVE  /\ DecodeConfig(NewRegistry, run.config).ok
         /\ ~accepted => imageless(s)
<1>. DEFINE c == run.config
<1>1. CatalogInv /\ instances = DecodeConfig(NewRegistry, c).is
  BY DEF AppInv, CommandInv, prepared
<1>2. \A f \in Range(catalog.order) : f.name \in DOMAIN c.extensions =>
        /\ "init" \in f.caps
        /\ c.extensions[f.name] \in BuildInitConfig(f.name, s)
        /\ c.extensions[f.name].decodes /\ c.extensions[f.name].valid
        /\ f.name = "gitlab" => c.extensions[f.name] \in gitlabInitConfig(s)
  <2>. SUFFICES ASSUME NEW f \in Range(catalog.order), f.name \in DOMAIN c.extensions
                PROVE  /\ "init" \in f.caps
                       /\ c.extensions[f.name] \in BuildInitConfig(f.name, s)
                       /\ c.extensions[f.name].decodes /\ c.extensions[f.name].valid
                       /\ f.name = "gitlab" => c.extensions[f.name] \in gitlabInitConfig(s)
    OBVIOUS
  <2>1. f.name \in contributors /\ c.extensions[f.name] \in BuildInitConfig(f.name, s)
    BY <1>1, Written
  <2>2. "init" \in f.caps /\ f.name \in {"gitlab", "github", "cost", "policy", "tfupdate", "summary"}
    BY <1>1, <2>1, Contributor
  <2>. QED
    BY <2>1, <2>2, Sections
<1>3. DecodeConfig(NewRegistry, c).ok
  <2>1. \A i \in DOMAIN byCapability("config") : byCapability("config")[i] \in Range(catalog.order)
    <3>1. Range(byCapability("config")) \subseteq Range(catalog.order)
      BY <1>1, Capable
    <3>. QED
      BY <3>1 DEF Range
  <2>. DEFINE loaders == byCapability("config")
              present == {i \in DOMAIN loaders : loaders[i].name \in DOMAIN c.extensions}
              bad == {i \in present : ~c.extensions[loaders[i].name].decodes}
  <2>2. bad = {}
    BY <1>2, <2>1
  <2>3. DecodeConfig(NewRegistry, c).ok <=> bad = {}
    BY DEF DecodeConfig
  <2>. QED
    BY <2>2, <2>3
<1>4. ASSUME ~accepted PROVE imageless(s)
  <2>1. ~RunPreflight(instances)
    BY <1>3, <1>4 DEF accepted
  <2>2. PICK f \in Range(preflightsForStartup(instances)) : ~Preflight(f, instances)
    BY <2>1 DEF RunPreflight
  <2>3. f \in Range(catalog.order)
    BY <1>1, <2>2, Capable DEF preflightsForStartup
  <2>4. instances[f.name] = IF "config" \in f.caps THEN Section(f, c) ELSE NewInstance
    BY <1>1, <1>3, <2>3, Decoded
  <2>5. /\ f.name \in DOMAIN c.extensions
        /\ instances[f.name] = [configured |-> TRUE, doc |-> c.extensions[f.name]]
    BY <2>2, <2>4 DEF Section, Preflight, NewInstance
  <2>6. f.name = "gitlab" /\ ~validateImage(c.extensions[f.name])
    BY <1>2, <2>2, <2>3, <2>5 DEF Preflight
  <2>. QED
    BY <1>2, <2>3, <2>5, <2>6 DEF imageless
<1>. QED
  BY <1>3, <1>4

\* With it, a provider is on if it was chosen, and a feature if it was switched on.
LEMMA SwitchedAsAnswered ==
  ASSUME AppInv, NEW s, ~run.req.skipConfig, run # NoCommand, run.config \in BuildConfig(s),
         NEW f \in Range(catalog.order), "init" \in f.caps
  PROVE  /\ "ci" \in f.caps => (IsEnabled(f, instances[f.name]) <=> f.name = Get(s, "provider"))
         /\ "ci" \notin f.caps => (IsEnabled(f, instances[f.name]) <=> f.name \in chosen(s))
<1>. DEFINE c == run.config
            n == f.name
            there == n \in DOMAIN c.extensions
<1>1. CatalogInv /\ instances = DecodeConfig(NewRegistry, c).is /\ DecodeConfig(NewRegistry, c).ok
  BY OnlyImagesRefused DEF AppInv, CommandInv, prepared
<1>2. /\ "config" \in f.caps /\ n \in contributors
      /\ <<n, f.mode>> \in {<<"gitlab", "configured">>, <<"github", "configured">>, <<"cost", "explicit">>,
                           <<"policy", "explicit">>, <<"tfupdate", "explicit">>, <<"summary", "default">>}
      /\ "ci" \in f.caps <=> n \in {"gitlab", "github"}
      /\ n \in ciProviders <=> "ci" \in f.caps
  BY <1>1, Contributor
<1>3. there <=> BuildInitConfig(n, s) # {}
  BY <1>1, <1>2, Written
<1>4. there => (c.extensions[n].on <=> n # "summary")
  BY <1>1, <1>2, Written, Sections
<1>5. instances[n] = IF there THEN [configured |-> TRUE, doc |-> c.extensions[n]] ELSE NewInstance
  BY <1>1, <1>2, Decoded DEF Section
<1>6. ~NewInstance.configured
  BY DEF NewInstance
<1>7. /\ f.mode = "configured" => (IsEnabled(f, instances[n]) <=> there)
      /\ f.mode = "explicit" /\ n # "summary" => (IsEnabled(f, instances[n]) <=> there)
      /\ f.mode = "default" /\ n = "summary" => (IsEnabled(f, instances[n]) <=> ~there)
  BY <1>2, <1>4, <1>5, <1>6 DEF IsEnabled
<1>8. /\ n \in {"gitlab", "github"} => (BuildInitConfig(n, s) # {} <=> n = Get(s, "provider"))
      /\ n = "cost" => (BuildInitConfig(n, s) # {} <=> Get(s, "cost.enabled"))
      /\ n = "policy" => (BuildInitConfig(n, s) # {} <=> Get(s, "policy.enabled"))
      /\ n = "tfupdate" => (BuildInitConfig(n, s) # {} <=> Get(s, "tfupdate.enabled"))
      /\ n = "summary" => (BuildInitConfig(n, s) # {} <=> ~Get(s, "summary.enabled"))
  BY DEF BuildInitConfig, gitlabInitConfig, githubInitConfig, costInitConfig, policyInitConfig, tfupdateInitConfig,
         summaryInitConfig
<1>9. n \notin ciProviders =>
        /\ n = "cost" => (n \in chosen(s) <=> Get(s, "cost.enabled"))
        /\ n = "policy" => (n \in chosen(s) <=> Get(s, "policy.enabled"))
        /\ n = "tfupdate" => (n \in chosen(s) <=> Get(s, "tfupdate.enabled"))
        /\ n = "summary" => (n \in chosen(s) <=> Get(s, "summary.enabled"))
  BY <1>2 DEF chosen
<1>. HIDE DEF n, there
<1>. QED
  BY <1>2, <1>3, <1>7, <1>8, <1>9 DEF n

\* Of the CI systems the chosen one is resolved to, whichever runs the command.
LEMMA ChosenIsResolved ==
  ASSUME AppInv, NEW s, ~run.req.skipConfig, run # NoCommand, run.config \in BuildConfig(s),
         env.provider \in {Unset, Get(s, "provider")}, Get(s, "provider") \in ciProviders
  PROVE  ResolveCIProvider(instances) = Get(s, "provider")
<1>. DEFINE p == Get(s, "provider")
            on == {f \in Range(byCapability("ci")) : IsEnabled(f, instances[f.name])}
<1>1. CatalogInv
  BY DEF AppInv
<1>2. PICK f \in Range(byCapability("ci")) : f.name = p
  BY DEF ciProviders
<1>3. f \in Range(catalog.order) /\ "ci" \in f.caps
  BY <1>1, <1>2, Capable
<1>4. \A h \in Range(byCapability("ci")) : IsEnabled(h, instances[h.name]) <=> h.name = p
  BY <1>1, Capable, Contributor, SwitchedAsAnswered
<1>5. on = {f}
  BY <1>1, <1>2, <1>3, <1>4, Capable, PluginOfName
<1>6. activeByCapability("ci", instances) = <<f>>
  <2>1. on \cap Range(catalog.order) = {f}
    BY <1>3, <1>5
  <2>. HIDE DEF on
  <2>2. asRegistered(on) = <<f>>
    BY <1>1, <1>3, <2>1, OneRegistered
  <2>. QED
    BY <2>2 DEF activeByCapability, on
<1>7. Range(<<f>>) = {f}
  <2>1. DOMAIN <<f>> = {1} /\ <<f>>[1] = f
    OBVIOUS
  <2>. QED
    BY <2>1 DEF Range
<1>. DEFINE Q == {h \in Range(<<f>>) : h.name \in env.detected}
<1>8. asRegistered(Q) = <<>> \/ asRegistered(Q) = <<f>>
  <2>1. CASE f.name \in env.detected
    <3>1. Q \cap Range(catalog.order) = {f}
      BY <1>3, <1>7, <2>1
    <3>. HIDE DEF Q
    <3>. QED
      BY <1>1, <1>3, <3>1, OneRegistered
  <2>2. CASE f.name \notin env.detected
    <3>1. Q = {}
      BY <1>7, <2>2
    <3>. HIDE DEF Q
    <3>2. asRegistered(Q) \in Seq(Range(Factories)) /\ Range(asRegistered(Q)) = Q \cap Range(catalog.order)
      BY <1>1, AsRegistered
    <3>3. ASSUME asRegistered(Q) # <<>> PROVE FALSE
      <4>1. 1 \in DOMAIN asRegistered(Q)
        BY <3>2, <3>3
      <4>. QED
        BY <3>1, <3>2, <4>1 DEF Range
    <3>. QED
      BY <3>3
  <2>. QED
    BY <2>1, <2>2
<1>. HIDE DEF Q
<1>9. resolveSingle(<<f>>) = p
  BY <1>2 DEF resolveSingle
<1>. DEFINE named == asRegistered({h \in Range(<<f>>) : h.name = env.provider})
<1>10. ResolveCIProvider(instances) =
         IF env.provider # Unset THEN IF named = <<>> THEN NotFound ELSE named[1].name
         ELSE IF asRegistered(Q) # <<>> THEN asRegistered(Q)[1].name ELSE resolveSingle(<<f>>)
  BY <1>6 DEF ResolveCIProvider, Q
<1>11. CASE env.provider # Unset
  <2>1. {h \in Range(<<f>>) : h.name = env.provider} = {f}
    BY <1>2, <1>7, <1>11
  <2>2. {f} \cap Range(catalog.order) = {f}
    BY <1>3
  <2>3. named = <<f>>
    BY <1>1, <1>3, <2>1, <2>2, OneRegistered
  <2>. QED
    BY <1>2, <1>10, <1>11, <2>3
<1>12. CASE env.provider = Unset /\ asRegistered(Q) = <<>>
  BY <1>9, <1>10, <1>12
<1>13. CASE env.provider = Unset /\ asRegistered(Q) = <<f>>
  BY <1>2, <1>10, <1>13
<1>. QED
  BY <1>8, <1>11, <1>12, <1>13

-----------------------------------------------------------------------------
(* What a command leaves *)

\* A command ends, or fails for a reason its configuration gives.
Excused == fails /\ (loadsIt => \A s \in origin : declined(s))
Goes == run' = run \/ (run.at = "running" /\ (Excused \/ \E r : ends(r)))

LEMMA CommandKept ==
  ASSUME AppInv, catalog' = catalog, instances' = instances,
         \/ run' = run
         \/ run.at = "running" /\ (fails \/ \E r : ends(r))
  PROVE  CommandInv'
<1>1. CASE run' = run
  BY <1>1, SamePlugins DEF AppInv, CommandInv, prepared, accepted, collected
<1>2. CASE run.at = "running" /\ (fails \/ \E r : ends(r))
  <2>1. run # NoCommand
    BY <1>2 DEF NoCommand
  <2>2. PICK at \in {"failed", "ended"} : \E r :
          run' = [at |-> at, req |-> run.req, config |-> run.config,
                  contributions |-> run.contributions, result |-> r]
    BY <1>2, <2>1 DEF AppInv, CommandInv, ends, fails
  <2>3. instances = prepared /\ accepted /\ run.contributions = collected
    BY <1>2, <2>1 DEF AppInv, CommandInv
  <2>4. prepared' = prepared /\ (accepted' <=> accepted) /\ collected' = collected
    BY <2>2, SamePlugins DEF prepared, accepted, collected
  <2>. QED
    BY <2>2, <2>3, <2>4 DEF CommandInv
<1>. QED
  BY <1>1, <1>2

LEMMA LoadKept ==
  ASSUME AppInv, catalog' = catalog, env' = env, instances' = instances, origin' \subseteq origin, Goes
  PROVE  LoadInv'
<1>1. CASE run' = run
  BY <1>1, SamePlugins, SameReasons DEF AppInv, LoadInv, accepted
<1>2. CASE run.at = "running" /\ (Excused \/ \E r : ends(r))
  <2>1. run # NoCommand
    BY <1>2 DEF NoCommand
  <2>2. \/ /\ Excused
           /\ run' = [at |-> "failed", req |-> run.req, config |-> run.config,
                      contributions |-> run.contributions, result |-> "error"]
        \/ \E r : run' = [at |-> "ended", req |-> run.req, config |-> run.config,
                          contributions |-> run.contributions, result |-> r]
    BY <1>2, <2>1 DEF AppInv, CommandInv, ends, fails, Excused
  <2>3. run'.req = run.req /\ run'.config = run.config
    BY <2>2
  <2>4. (loadsIt' <=> loadsIt) /\ \A s : declined(s)' <=> declined(s)
    BY <2>3, SameReasons
  <2>5. loadsIt => \A s \in origin : run.config \in BuildConfig(s)
    BY <1>2 DEF AppInv, LoadInv
  <2>6. \A s : BuildConfig(s)' = BuildConfig(s)
    BY SamePlugins
  <2>7. run'.at = "failed" => Excused /\ run'.result = "error"
    BY <2>2
  <2>. QED
    BY <2>3, <2>4, <2>5, <2>6, <2>7 DEF LoadInv, Excused
<1>. QED
  BY <1>1, <1>2 DEF Goes

LEMMA CatalogKept ==
  ASSUME AppInv, catalog' = catalog, registered \/ (run' = NoCommand /\ origin' = {})
  PROVE  CatalogInv'
BY DEF AppInv, CatalogInv, registered

\* A command that runs came after all the plugins.
LEMMA RunningIsRegistered == ASSUME AppInv, run.at = "running" PROVE registered
BY DEF AppInv, CatalogInv, NoCommand

LEMMA FileKept ==
  ASSUME AppInv, catalog' = catalog, file' = file, origin' \subseteq origin
  PROVE  FileInv'
BY SamePlugins DEF AppInv, FileInv

LEMMA RegisterKeepsApp == ASSUME AppInv, RegisterFactory, UNCHANGED wizardVars PROVE AppInv'
<1>1. run = NoCommand /\ origin = {} /\ run' = run /\ origin' = origin /\ file' = file
  BY DEF AppInv, CatalogInv, RegisterFactory, wizardVars
<1>2. CatalogInv'
  <2>. DEFINE order == catalog.order
              f == Factories[Len(order) + 1]
  <2>1. order \in Seq(Range(Factories)) /\ Len(order) < Len(Factories)
        /\ catalog = [order |-> order, panic |-> catalog.panic]
        /\ \A i, j \in DOMAIN order : order[i].name = order[j].name => i = j
    BY FactoriesAssumption DEF AppInv, CatalogInv, RegisterFactory, registered
  <2>2. CASE ~f.valid \/ \E i \in DOMAIN order : order[i].name = f.name
    <3>1. catalog' = [order |-> order, panic |-> TRUE]
      BY <2>1, <2>2 DEF RegisterFactory
    <3>. QED
      BY <1>1, <2>1, <3>1 DEF CatalogInv
  <2>3. CASE ~(~f.valid \/ \E i \in DOMAIN order : order[i].name = f.name)
    <3>1. catalog' = [order |-> Append(order, f), panic |-> catalog.panic]
      BY <2>1, <2>3 DEF RegisterFactory
    <3>2. f \in Range(Factories)
      <4>1. Len(order) + 1 \in DOMAIN Factories
        BY <2>1, FactoriesAssumption
      <4>. QED
        BY <4>1 DEF Range
    <3>. HIDE DEF f
    <3>3. Append(order, f) \in Seq(Range(Factories)) /\ Len(Append(order, f)) <= Len(Factories)
          /\ \A i \in DOMAIN Append(order, f) :
               \/ i \in DOMAIN order /\ Append(order, f)[i] = order[i]
               \/ i = Len(order) + 1 /\ Append(order, f)[i] = f
      BY <2>1, <3>2, FactoriesAssumption
    <3>4. \A i, j \in DOMAIN Append(order, f) : Append(order, f)[i].name = Append(order, f)[j].name => i = j
      BY <2>1, <2>3, <3>3
    <3>. QED
      BY <1>1, <3>1, <3>3, <3>4 DEF CatalogInv
  <2>. QED
    BY <2>2, <2>3
<1>. QED
  BY <1>1, <1>2 DEF AppInv, CommandInv, FileInv, LoadInv, NoCommand

\* The configuration file is the first that is looked for.
LEMMA FirstFile ==
  ASSUME NEW c, file[ConfigFile] = yaml(c), Validate(c)
  PROVE  LoadOrDefault = {c}
<1>. DEFINE there == {i \in DOMAIN ConfigNames : file[ConfigNames[i]].form # "none"}
<1>1. 1 \in there
  BY ConfigFileAssumption DEF yaml
<1>2. there \subseteq Nat /\ \A i \in there : 1 <= i
  BY ConfigFileAssumption
<1>3. Min(there) = 1
  <2>. HIDE DEF there
  <2>1. \E x \in there : \A y \in there : x <= y
    BY <1>1, <1>2
  <2>2. Min(there) \in there /\ \A y \in there : Min(there) <= y
    BY <2>1, Zenon DEF Min
  <2>3. Min(there) \in Nat /\ 1 <= Min(there) /\ Min(there) <= 1
    BY <1>1, <1>2, <2>2
  <2>. HIDE DEF Min
  <2>. QED
    BY <2>3
<1>4. Load(file[ConfigNames[Min(there)]]) = {c}
  <2>. HIDE DEF there
  <2>. QED
    BY <1>3, ConfigFileAssumption DEF Load, yaml
<1>. QED
  BY <1>1, <1>4 DEF LoadOrDefault

LEMMA PrepareKeepsApp ==
  ASSUME AppInv, NEW req \in Requests, Prepare(req), UNCHANGED wizardVars
  PROVE  AppInv'
<1>. DEFINE loaded == IF req.config = Unset THEN LoadOrDefault ELSE Load(file[req.config])
            config == IF req.skipConfig \/ loaded = {} THEN Default ELSE CHOOSE c \in loaded : TRUE
            decoded == IF req.skipConfig THEN [ok |-> TRUE, is |-> NewRegistry] ELSE DecodeConfig(NewRegistry, config)
            ready == /\ req.skipConfig \/ loaded # {}
                     /\ decoded.ok
                     /\ req.skipConfig \/ req.skipPreflight \/ RunPreflight(decoded.is)
<1>1. /\ registered /\ instances' = decoded.is
      /\ run' = [at |-> IF ready THEN "running" ELSE "failed", req |-> req, config |-> config,
                 contributions |-> IF ready /\ ~req.skipConfig THEN CollectContributions(decoded.is) ELSE {},
                 result |-> Unset]
      /\ catalog' = catalog /\ file' = file /\ origin' = origin
  BY DEF Prepare, wizardVars
<1>2. CatalogInv' /\ FileInv'
  BY <1>1, CatalogKept, FileKept
<1>3. decoded.is = IF req.skipConfig THEN NewRegistry ELSE DecodeConfig(NewRegistry, config).is
  OBVIOUS
<1>4. decoded.ok <=> req.skipConfig \/ DecodeConfig(NewRegistry, config).ok
  OBVIOUS
<1>. DEFINE dc == DecodeConfig(NewRegistry, config)
<1>5. /\ prepared' = IF req.skipConfig THEN NewRegistry ELSE dc.is
      /\ accepted' <=> req.skipConfig \/ (dc.ok /\ (req.skipPreflight \/ RunPreflight(decoded.is)))
      /\ collected' = IF req.skipConfig THEN {} ELSE CollectContributions(decoded.is)
  <2>. HIDE DEF config, decoded, ready
  <2>. QED
    BY <1>1, SamePlugins DEF prepared, accepted, collected
<1>. HIDE DEF dc, config, decoded
<1>6. CommandInv'
  BY <1>1, <1>3, <1>4, <1>5 DEF CommandInv, dc
<1>7. LoadInv'
  <2>. SUFFICES ASSUME loadsIt', NEW s \in origin
                PROVE  config \in BuildConfig(s) /\ (~ready => ~accepted')
    BY <1>1, SamePlugins DEF LoadInv, Unset
  <2>1. ~req.skipConfig /\ req.config = Unset
    BY <1>1 DEF loadsIt
  <2>2. PICK c \in BuildConfig(s) : file[ConfigFile] = yaml(c)
    BY DEF AppInv, FileInv
  <2>3. Validate(c)
    BY <2>2 DEF BuildConfig
  <2>4. loaded = {c}
    BY <2>1, <2>2, <2>3, FirstFile
  <2>5. config = c
    BY <2>1, <2>4 DEF config
  <2>6. ready <=> decoded.ok /\ (req.skipPreflight \/ RunPreflight(decoded.is))
    BY <2>1, <2>4
  <2>. QED
    BY <1>4, <1>5, <2>1, <2>2, <2>5, <2>6 DEF dc
<1>. QED
  BY <1>2, <1>6, <1>7 DEF AppInv

LEMMA SaveKeepsApp ==
  ASSUME AppInv, initRuns, NEW s, Save(s), catalog' = catalog, instances' = instances
  PROVE  AppInv'
<1>1. run.at = "running" /\ run.req.command = "init" /\ registered
  BY RunningIsRegistered DEF initRuns
<1>2. fails \/ \E r : ends(r)
  BY DEF Save
<1>3. CatalogInv' /\ CommandInv'
  BY <1>1, <1>2, CatalogKept, CommandKept
<1>4. LoadInv'
  <2>1. run # NoCommand
    BY <1>1 DEF NoCommand
  <2>2. run'.req = run.req
    BY <1>2, <2>1 DEF AppInv, CommandInv, ends, fails
  <2>. QED
    BY <1>1, <2>2 DEF LoadInv, loadsIt
<1>5. FileInv'
  <2>1. ConfigFile \in DOMAIN file
    BY ConfigFileAssumption DEF AppInv, FileInv, Range
  <2>2. CASE UNCHANGED <<file, origin>>
    BY <2>2, FileKept
  <2>3. CASE \E c \in BuildConfig(s) : file' = [file EXCEPT ![ConfigFile] = yaml(c)] /\ origin' = {s}
    BY <2>1, <2>3, SamePlugins DEF AppInv, FileInv
  <2>4. CASE \E f : /\ file' = [file EXCEPT ![ConfigFile] = f]
                    /\ origin' = IF f = file[ConfigFile] THEN origin ELSE {}
    <3>1. PICK f : /\ file' = [file EXCEPT ![ConfigFile] = f]
                   /\ origin' = IF f = file[ConfigFile] THEN origin ELSE {}
      BY <2>4
    <3>2. DOMAIN file' = DOMAIN file /\ file'[ConfigFile] = f
      BY <2>1, <3>1
    <3>. QED
      BY <3>1, <3>2, SamePlugins DEF AppInv, FileInv
  <2>. QED
    BY <2>2, <2>3, <2>4 DEF Save
<1>. QED
  BY <1>3, <1>4, <1>5 DEF AppInv

LEMMA StartInitKeepsApp == ASSUME AppInv, StartInit PROVE AppInv'
<1>1. initRuns /\ catalog' = catalog /\ env' = env /\ instances' = instances
  BY DEF StartInit
<1>2. registered
  BY <1>1, RunningIsRegistered DEF initRuns
<1>3. CASE \E o \in run.req.flags : Save(ApplyOverrides(DefaultState, o))
  BY <1>1, <1>3, SaveKeepsApp
<1>4. CASE fails /\ UNCHANGED <<file, origin>>
  <2>1. Goes /\ run.at = "running"
    BY <1>1, <1>4 DEF Goes, Excused, loadsIt, initRuns
  <2>. QED
    BY <1>1, <1>2, <1>4, <2>1, CatalogKept, CommandKept, FileKept, LoadKept DEF AppInv
<1>5. CASE UNCHANGED <<file, run, origin>>
  BY <1>1, <1>2, <1>5, CatalogKept, CommandKept, FileKept, LoadKept DEF AppInv, Goes
<1>. QED
  BY <1>3, <1>4, <1>5 DEF StartInit

\* Steps of a command that leave plugins and files alone
LEMMA CommandRuns ==
  ASSUME AppInv, catalog' = catalog, env' = env, instances' = instances, file' = file, origin' = origin, Goes
  PROVE  AppInv'
<1>1. registered \/ (run' = NoCommand /\ origin' = {})
  BY RunningIsRegistered DEF AppInv, CatalogInv, Goes
<1>. QED
  BY <1>1, CatalogKept, CommandKept, FileKept, LoadKept DEF AppInv, Goes, Excused

\* generate fails for want of a provider, and a plugin's command when it is off
\* or, of tfupdate, when its section has no bump.
LEMMA FailsForReason ==
  ASSUME AppInv, Generate \/ (\E n \in {"policy", "tfupdate"} : PluginCommand(n)) \/ Look
  PROVE  run.at = "running" /\ (Excused \/ \E r : ends(r))
<1>1. run.at = "running" /\ run # NoCommand /\ CatalogInv
  BY DEF Generate, PluginCommand, Look, NoCommand, AppInv
<1>2. SUFFICES ASSUME fails, loadsIt, NEW s \in origin, ~(\E r : ends(r)) PROVE declined(s)
  BY <1>1 DEF Excused, Generate, PluginCommand, Look
<1>3. ~run.req.skipConfig /\ run.config \in BuildConfig(s)
  BY <1>1, <1>2 DEF AppInv, LoadInv, loadsIt
<1>4. ASSUME run.req.command = "generate", ResolveCIProvider(instances) = NotFound PROVE declined(s)
  <2>. SUFFICES ASSUME Get(s, "provider") \in ciProviders, env.provider \in {Unset, Get(s, "provider")} PROVE FALSE
    BY <1>4 DEF declined
  <2>1. ResolveCIProvider(instances) = Get(s, "provider")
    BY <1>1, <1>3, ChosenIsResolved
  <2>2. Get(s, "provider") \in {"gitlab", "github"}
    <3>1. PICK f \in Range(byCapability("ci")) : f.name = Get(s, "provider")
      BY DEF ciProviders
    <3>. QED
      BY <1>1, <3>1, Capable, Contributor
  <2>. QED
    BY <1>4, <2>1, <2>2 DEF NotFound, Unset
<1>5. ASSUME NEW n \in {"policy", "tfupdate"}, run.req.command = n,
             ~IsEnabled(plugin(n), instances[n]) \/ (n = "tfupdate" /\ instances[n].doc.bump = Unset)
      PROVE  declined(s)
  <2>. SUFFICES ASSUME n \in chosen(s) PROVE n = "tfupdate" /\ bumpless(s)
    BY <1>5 DEF declined
  <2>1. PICK f \in Range(byCapability("init")) : f.name = n /\ n \notin ciProviders
    BY DEF chosen, contributors
  <2>2. f \in Range(catalog.order) /\ "init" \in f.caps /\ "ci" \notin f.caps /\ plugin(n) = f
    BY <1>1, <2>1, Capable, Contributor, PluginOfName
  <2>3. IsEnabled(f, instances[n])
    BY <1>1, <1>3, <2>1, <2>2, SwitchedAsAnswered
  <2>4. n = "tfupdate" /\ instances[n].doc.bump = Unset
    BY <1>5, <2>2, <2>3
  <2>5. "config" \in f.caps /\ f.mode = "explicit"
    BY <1>1, <2>1, <2>2, <2>4, Contributor
  <2>6. instances[n].configured
    BY <2>3, <2>5 DEF IsEnabled
  <2>7. instances[n] = Section(f, run.config)
    BY <1>1, <1>3, <2>1, <2>2, <2>5, OnlyImagesRefused, Decoded DEF AppInv, CommandInv, prepared
  <2>8. n \in DOMAIN run.config.extensions /\ instances[n].doc = run.config.extensions[n]
    BY <2>1, <2>6, <2>7 DEF Section, NewInstance
  <2>9. instances[n].doc \in tfupdateInitConfig(s)
    BY <1>1, <1>3, <2>4, <2>8, Written DEF BuildInitConfig
  <2>. QED
    BY <2>4, <2>9 DEF bumpless
<1>6. CASE Generate
  BY <1>2, <1>4, <1>6 DEF Generate
<1>7. CASE \E n \in {"policy", "tfupdate"} : PluginCommand(n)
  BY <1>2, <1>5, <1>7 DEF PluginCommand
<1>8. CASE Look
  BY <1>2, <1>8 DEF Look
<1>. QED
  BY <1>6, <1>7, <1>8

LEMMA EditKeepsApp == ASSUME AppInv, Edit PROVE AppInv'
<1>1. catalog' = catalog /\ env' = env /\ instances' = instances /\ run' = run /\ origin' \subseteq origin
  BY DEF Edit, Write
<1>2. registered \/ (run' = NoCommand /\ origin' = {})
  BY <1>1 DEF AppInv, CatalogInv
<1>3. FileInv'
  <2>. PICK n \in Range(ConfigNames) : \E content :
         file' = [file EXCEPT ![n] = content] /\ origin' = IF n = ConfigFile THEN {} ELSE origin
    BY DEF Edit, Write
  <2>. QED
    BY <1>1, SamePlugins DEF AppInv, FileInv
<1>. QED
  BY <1>1, <1>2, <1>3, CatalogKept, CommandKept, LoadKept DEF AppInv, Goes

LEMMA AppStep == ASSUME AppInv, [AppNext]_appVars PROVE AppInv'
<1>1. CASE StartupNext /\ UNCHANGED wizardVars
  <2>1. CASE RegisterFactory
    BY <1>1, <2>1, RegisterKeepsApp
  <2>2. CASE \E req \in Requests : Prepare(req)
    BY <1>1, <2>2, PrepareKeepsApp
  <2>3. CASE Generate \/ (\E n \in {"policy", "tfupdate"} : PluginCommand(n)) \/ Look
    <3>1. UNCHANGED <<catalog, file, env, instances>>
      BY <2>3 DEF Generate, PluginCommand, Look
    <3>2. Goes
      BY <2>3, FailsForReason DEF Goes
    <3>. QED
      BY <1>1, <3>1, <3>2, CommandRuns DEF wizardVars
  <2>. QED
    BY <1>1, <2>1, <2>2, <2>3 DEF StartupNext
<1>2. CASE StartInit
  BY <1>2, StartInitKeepsApp
<1>3. CASE \E k \in Asked : Answer(k)
  BY <1>3, CommandRuns DEF Answer, startupVars, Goes
<1>4. CASE Complete
  BY <1>4, SaveKeepsApp DEF Complete
<1>5. CASE Quit
  <2>1. Goes /\ UNCHANGED <<catalog, file, env, instances, origin>>
    BY <1>5 DEF Quit, initRuns, Goes, Excused, loadsIt
  <2>. QED
    BY <2>1, CommandRuns
<1>6. CASE Edit
  BY <1>6, EditKeepsApp
<1>7. CASE UNCHANGED appVars
  BY <1>7, CommandRuns DEF appVars, startupVars, wizardVars, Goes
<1>. QED
  BY <1>1, <1>2, <1>3, <1>4, <1>5, <1>6, <1>7 DEF AppNext

THEOREM AppInvHolds == AppSpec => []AppInv
BY AppInitInv, AppStep, PTL DEF AppSpec

\* What a plugin takes for its configuration is the section of the present
\* command's file and nothing of a command before it (registry.go:79-94,
\* lifecycle.go:46-66, base.go:78-89).
THEOREM OwnConfig == AppSpec => []PluginsSeeOnlyThisConfig
<1>1. AppInv => PluginsSeeOnlyThisConfig
  <2>. SUFFICES ASSUME AppInv, run.at = "running", NEW f \in Range(byCapability("config"))
                PROVE  instances[f.name] =
                         IF run.req.skipConfig \/ f.name \notin DOMAIN run.config.extensions THEN NewInstance
                         ELSE [configured |-> TRUE, doc |-> run.config.extensions[f.name]]
    BY DEF PluginsSeeOnlyThisConfig
  <2>1. CatalogInv /\ instances = prepared /\ accepted
    BY DEF AppInv, CommandInv, NoCommand
  <2>2. f \in Range(catalog.order) /\ "config" \in f.caps /\ f.name \in Names
    BY <2>1, Capable, PluginOfName
  <2>3. CASE run.req.skipConfig
    BY <2>1, <2>2, <2>3 DEF prepared, NewRegistry
  <2>4. CASE ~run.req.skipConfig
    BY <2>1, <2>2, <2>4, Decoded DEF prepared, accepted, Section
  <2>. QED
    BY <2>3, <2>4
<1>. QED
  BY <1>1, AppInvHolds, PTL

\* No command has a plugin run with a configuration its preflight would refuse,
\* or takes jobs of one that is off, whatever was run and edited before
\* (flow.go:113-123, lifecycle.go:86-110, resolve.go:182-224).
THEOREM Checked == AppSpec => []NothingRunsUnchecked
<1>1. AppInv => NothingRunsUnchecked
  <2>. SUFFICES ASSUME AppInv, run.at \in {"running", "ended"} PROVE NothingRunsUnchecked
    BY DEF NothingRunsUnchecked
  <2>1. CatalogInv /\ accepted /\ run.contributions = collected
    BY DEF AppInv, CommandInv, NoCommand
  <2>2. ASSUME NEW n \in run.contributions PROVE IsEnabled(plugin(n), instances[n])
    <3>1. PICK f \in Range(activeByCapability("contributes", instances)) : f.name = n
      BY <2>1 DEF collected, CollectContributions
    <3>. QED
      BY <2>1, <3>1, Capable, PluginOfName
  <2>3. ASSUME ~run.req.skipPreflight, ~run.req.skipConfig, NEW f \in Range(catalog.order),
               "preflight" \in f.caps, instances[f.name].configured, ~instances[f.name].doc.valid
        PROVE  ~IsEnabled(f, instances[f.name])
    <3>1. RunPreflight(instances)
      BY <2>1, <2>3 DEF accepted
    <3>2. IsEnabled(f, instances[f.name]) => f \in Range(preflightsForStartup(instances))
      BY <2>1, <2>3, Capable DEF preflightsForStartup
    <3>. QED
      BY <2>3, <3>1, <3>2 DEF RunPreflight, Preflight
  <2>. QED
    BY <2>2, <2>3 DEF NothingRunsUnchecked
<1>. QED
  BY <1>1, AppInvHolds, PTL

\* What init has written, the commands run after it take as it was answered,
\* whatever was shown, hidden, edited or failed before
\* (initflow/flow.go:179-224, 277-367, init_wizard.go of the plugins).
THEOREM Understood == AppSpec => []InitIsUnderstood
<1>1. AppInv => InitIsUnderstood
  <2>. SUFFICES ASSUME AppInv, run.at # "idle", loadsIt, NEW s \in origin
                PROVE  /\ run.at = "failed" => IF run.result = "error" THEN declined(s) ELSE imageless(s)
                       /\ run.at = "running" =>
                            /\ \A p \in ciProviders : IsEnabled(plugin(p), instances[p]) <=> p = Get(s, "provider")
                            /\ env.provider \in {Unset, Get(s, "provider")} /\ Get(s, "provider") \in ciProviders =>
                                 ResolveCIProvider(instances) = Get(s, "provider")
                            /\ \A n \in contributors \ ciProviders :
                                 IsEnabled(plugin(n), instances[n]) <=> n \in chosen(s)
    BY DEF InitIsUnderstood
  <2>0. NoCommand.at = "idle"
    BY DEF NoCommand
  <2>1. CatalogInv /\ run # NoCommand /\ ~run.req.skipConfig
    BY <2>0 DEF AppInv, loadsIt
  <2>2. /\ run.config \in BuildConfig(s)
        /\ run.at = "failed" => IF run.result = "error" THEN declined(s) ELSE ~accepted
    BY DEF AppInv, LoadInv
  <2>3. run.at = "failed" => IF run.result = "error" THEN declined(s) ELSE imageless(s)
    BY <2>1, <2>2, OnlyImagesRefused
  <2>4. ASSUME NEW p \in ciProviders PROVE IsEnabled(plugin(p), instances[p]) <=> p = Get(s, "provider")
    <3>1. PICK f \in Range(byCapability("ci")) : f.name = p
      BY DEF ciProviders
    <3>. QED
      BY <2>1, <2>2, <3>1, Capable, Contributor, PluginOfName, SwitchedAsAnswered
  <2>5. ASSUME NEW n \in contributors \ ciProviders PROVE IsEnabled(plugin(n), instances[n]) <=> n \in chosen(s)
    <3>1. PICK f \in Range(byCapability("init")) : f.name = n
      BY DEF contributors
    <3>2. f \in Range(catalog.order) /\ "init" \in f.caps /\ "ci" \notin f.caps
      BY <2>1, <3>1, Capable, Contributor
    <3>. QED
      BY <2>1, <2>2, <3>1, <3>2, PluginOfName, SwitchedAsAnswered
  <2>. QED
    BY <2>1, <2>2, <2>3, <2>4, <2>5, ChosenIsResolved
<1>. QED
  BY <1>1, AppInvHolds, PTL

-----------------------------------------------------------------------------
(* Versions *)

LEMMA VersionOrder ==
  /\ \A v, w \in Versions : AtMost(v, w) \/ AtMost(w, v)
  /\ \A u, v, w \in Versions : AtMost(u, v) /\ AtMost(v, w) => AtMost(u, w)
<1>1. \A v, w \in Versions :
        Less(v, w) <=> \/ v[1] < w[1]
                       \/ v[1] = w[1] /\ v[2] < w[2]
                       \/ v[1] = w[1] /\ v[2] = w[2] /\ v[3] < w[3]
                       \/ v[1] = w[1] /\ v[2] = w[2] /\ v[3] = w[3] /\ v[4] < w[4]
  <2>. SUFFICES ASSUME NEW v \in Versions, NEW w \in Versions
                PROVE  Less(v, w) <=> \/ v[1] < w[1]
                                      \/ v[1] = w[1] /\ v[2] < w[2]
                                      \/ v[1] = w[1] /\ v[2] = w[2] /\ v[3] < w[3]
                                      \/ v[1] = w[1] /\ v[2] = w[2] /\ v[3] = w[3] /\ v[4] < w[4]
    OBVIOUS
  <2>. DEFINE same(i) == \A j \in 1..(i - 1) : v[j] = w[j]
  <2>1. Less(v, w) <=> \/ v[1] < w[1] /\ same(1)
                       \/ v[2] < w[2] /\ same(2)
                       \/ v[3] < w[3] /\ same(3)
                       \/ v[4] < w[4] /\ same(4)
    <3>1. 1..4 = {1, 2, 3, 4}
      OBVIOUS
    <3>. QED
      BY <3>1 DEF Less
  <2>2. /\ same(1)
        /\ same(2) <=> v[1] = w[1]
        /\ same(3) <=> v[1] = w[1] /\ v[2] = w[2]
        /\ same(4) <=> v[1] = w[1] /\ v[2] = w[2] /\ v[3] = w[3]
    <3>1. 1..(1 - 1) = {} /\ 1..(2 - 1) = {1} /\ 1..(3 - 1) = {1, 2} /\ 1..(4 - 1) = {1, 2, 3}
      OBVIOUS
    <3>. QED
      BY <3>1
  <2>. HIDE DEF same
  <2>. QED
    BY <2>1, <2>2
<1>2. \A v \in Versions : v[1] \in Nat /\ v[2] \in Nat /\ v[3] \in Nat /\ v[4] \in Nat
                          /\ v = <<v[1], v[2], v[3], v[4]>>
  BY DEF Versions
<1>3. ASSUME NEW v \in Versions, NEW w \in Versions PROVE v = w \/ Less(v, w) \/ Less(w, v)
  BY <1>1, <1>2
<1>4. ASSUME NEW u \in Versions, NEW v \in Versions, NEW w \in Versions, Less(u, v), Less(v, w) PROVE Less(u, w)
  BY <1>1, <1>2, <1>4
<1>. QED
  BY <1>3, <1>4 DEF AtMost

\* Of some versions one is the newest.
LEMMA Newest ==
  ASSUME NEW S, S \subseteq Versions, IsFiniteSet(S), S # {}
  PROVE  newest(S) \in S
<1>. DEFINE greatest(T) == \E v \in T : \A w \in T : AtMost(w, v)
            A == {k \in Nat : \A T \in SUBSET S : IsFiniteSet(T) /\ Cardinality(T) = k /\ T # {} => greatest(T)}
<1>1. 0 \in A
  BY FS_EmptySet
<1>2. ASSUME NEW k \in Nat, k \in A PROVE k + 1 \in A
  <2>. SUFFICES ASSUME NEW T \in SUBSET S, IsFiniteSet(T), Cardinality(T) = k + 1, T # {} PROVE greatest(T)
    OBVIOUS
  <2>1. PICK x \in T : TRUE
    OBVIOUS
  <2>2. IsFiniteSet(T \ {x}) /\ Cardinality(T \ {x}) = k
    <3>1. IsFiniteSet(T \ {x}) /\ Cardinality(T \ {x}) = Cardinality(T) - 1
      BY <2>1, FS_RemoveElement
    <3>. QED
      BY <3>1
  <2>3. CASE T \ {x} = {}
    BY <2>1, <2>3 DEF AtMost
  <2>4. CASE T \ {x} # {}
    <3>1. PICK v \in T \ {x} : \A w \in T \ {x} : AtMost(w, v)
      BY <1>2, <2>2, <2>4
    <3>2. CASE AtMost(x, v)
      BY <2>1, <3>1, <3>2
    <3>3. CASE AtMost(v, x)
      <4>1. \A w \in T \ {x} : AtMost(w, x)
        BY <2>1, <3>1, <3>3, VersionOrder
      <4>. QED
        BY <2>1, <4>1 DEF AtMost
    <3>. QED
      BY <2>1, <3>1, <3>2, <3>3, VersionOrder
  <2>. QED
    BY <2>3, <2>4
<1>3. \A k \in Nat : k \in A
  <2>. HIDE DEF A
  <2>. QED
    BY <1>1, <1>2, AllNumbers
<1>4. greatest(S)
  <2>1. Cardinality(S) \in Nat
    BY FS_CardinalityType
  <2>. QED
    BY <1>3, <2>1
<1>. QED
  BY <1>4, Zenon DEF newest

-----------------------------------------------------------------------------
(* What a plan takes a provider to *)

\* The current version of a locked provider is the locked one.
FromLock(p, locked) ==
  /\ p.versions \subseteq ProviderVersions[p.source]
  /\ locked # NoEntry => p.current \subseteq {locked.version} /\ (p.versions # {} => p.current = {locked.version})

\* Then no more is selected than the bump allows from there.
LEMMA SelectedWithinBump ==
  ASSUME NEW p, NEW locked, FromLock(p, locked), locked # NoEntry, p.source \in Range(Providers),
         NEW needs, NEW bump \in {"patch", "minor", "major"}, NEW v \in selectProviderVersion(p, needs, bump)
  PROVE  withinBump(locked.version, v, bump)
<1>. DEFINE admitted(x) == SatisfiesAll(x, p.base) /\ \A n \in needs : SatisfiesAll(x, n)
            fits == {x \in p.versions : ~isPrerelease(x) /\ admitted(x) /\ \A c \in p.current : withinBump(c, x, bump)}
<1>1. CASE fits # {}
  <2>1. v = newest(fits)
    BY <1>1 DEF selectProviderVersion
  <2>2. IsFiniteSet(fits) /\ fits \subseteq Versions
    <3>1. fits \subseteq ProviderVersions[p.source]
      BY DEF FromLock
    <3>. QED
      BY <3>1, RegistryAssumption, FS_Subset
  <2>3. newest(fits) \in fits
    <3>. HIDE DEF fits
    <3>. QED
      BY <1>1, <2>2, Newest
  <2>4. p.current = {locked.version}
    BY <1>1 DEF FromLock
  <2>. QED
    BY <2>1, <2>3, <2>4
<1>2. CASE fits = {}
  <2>1. v = locked.version
    BY <1>2 DEF selectProviderVersion, FromLock
  <2>. QED
    BY <2>1 DEF withinBump
<1>. QED
  BY <1>1, <1>2

-----------------------------------------------------------------------------
(* What a plan has *)

\* Those providers, in order: those, and nothing else.
LEMMA InOrder ==
  ASSUME NEW sources, sources \subseteq Range(Providers)
  PROVE  inOrder(sources) \in Seq(Range(Providers)) /\ Range(inOrder(sources)) = sources
<1>. DEFINE T == Range(Providers)
            picks == [i \in DOMAIN Providers |-> IF Providers[i] \in sources THEN <<Providers[i]>> ELSE <<>>]
<1>1. Providers \in Seq(T)
  BY RegistryAssumption
<1>2. \A i \in DOMAIN Providers : Providers[i] \in T
  BY DEF Range
<1>3. picks \in Seq(Seq(T)) /\ DOMAIN picks = DOMAIN Providers
  <2>1. DOMAIN Providers = 1..Len(Providers) /\ Len(Providers) \in Nat
    BY <1>1
  <2>2. \A i \in DOMAIN Providers : picks[i] \in Seq(T)
    BY <1>2
  <2>. QED
    BY <2>1, <2>2
<1>4. \A i \in DOMAIN picks : Range(picks[i]) = {Providers[i]} \cap sources
  BY <1>3 DEF Range
<1>5. FlattenSeq(picks) \in Seq(T) /\ Range(FlattenSeq(picks)) = UNION {Range(picks[i]) : i \in DOMAIN picks}
  <2>. HIDE DEF picks, T
  <2>. QED
    BY <1>3, FlattenRange
<1>6. UNION {Range(picks[i]) : i \in DOMAIN picks} = sources
  <2>1. UNION {Range(picks[i]) : i \in DOMAIN picks} = UNION {{Providers[i]} \cap sources : i \in DOMAIN Providers}
    BY <1>3, <1>4
  <2>. HIDE DEF picks
  <2>. QED
    BY <2>1 DEF Range
<1>. QED
  BY <1>5, <1>6 DEF inOrder

LockedEntry(e) == e = NoEntry \/ e.version # Zero

LEMMA ProviderPlan ==
  ASSUME NEW source, NEW constraint, NEW locked, LockedEntry(locked), NEW required, NEW failing, NEW c
  PROVE  /\ providerPlan(source, constraint, locked, required, failing, c).source = source
         /\ FromLock(providerPlan(source, constraint, locked, required, failing, c), locked)
<1>. DEFINE p == providerPlan(source, constraint, locked, required, failing, c)
<1>1. p.source = source
  BY DEF providerPlan
<1>2. p.versions \subseteq ProviderVersions[source]
  BY DEF providerPlan
<1>3. ASSUME locked # NoEntry
      PROVE  p.current \subseteq {locked.version} /\ (p.versions # {} => p.current = {locked.version})
  <2>1. locked.version # Zero
    BY <1>3 DEF LockedEntry
  <2>. QED
    BY <2>1 DEF providerPlan
<1>. QED
  BY <1>1, <1>2, <1>3 DEF FromLock

\* What is planned for what is on disk, as DisksAssumption has it.
OnDisk(there) ==
  /\ there.required \in Seq(Range(there.required))
  /\ \A r \in Range(there.required) : r.source \in Range(Providers)
  /\ \A s \in Range(Providers) : LockedEntry(there.lock[s])

PlansOf(plans, there) ==
  /\ plans \in Seq(Range(plans))
  /\ \A p \in Range(plans) : p.source \in Range(Providers) /\ FromLock(p, there.lock[p.source])
  /\ \A s \in Range(Providers) : there.lock[s] # NoEntry => \E p \in Range(plans) : p.source = s

LEMMA ProviderPlans ==
  ASSUME NEW there, OnDisk(there), NEW c, NEW failing
  PROVE  PlansOf(buildProviderPlans(there, c, failing), there)
<1>. DEFINE sources == {s \in Range(Providers) : /\ there.lock[s] # NoEntry
                                                 /\ \A r \in Range(there.required) : r.source # s}
            only == inOrder(sources)
            ofFile == [i \in DOMAIN there.required |->
                         LET r == there.required[i]
                         IN  providerPlan(r.source, r.constraint, there.lock[r.source], TRUE, failing, c)]
            ofLock == [i \in DOMAIN only |->
                         LET s == only[i]
                         IN  providerPlan(s, there.lock[s].constraint, there.lock[s], FALSE, failing, c)]
            T == Range(ofFile) \cup Range(ofLock)
            good(p) == p.source \in Range(Providers) /\ FromLock(p, there.lock[p.source])
<1>1. buildProviderPlans(there, c, failing) = ofFile \o ofLock
  BY DEF buildProviderPlans
<1>2. only \in Seq(Range(Providers)) /\ Range(only) = sources
  <2>1. sources \subseteq Range(Providers)
    OBVIOUS
  <2>. HIDE DEF sources
  <2>. QED
    BY <2>1, InOrder
<1>3. DOMAIN only = 1..Len(only) /\ Len(only) \in Nat /\ \A i \in DOMAIN only : only[i] \in sources
  <2>. HIDE DEF only, sources
  <2>. QED
    BY <1>2 DEF Range
<1>4. /\ DOMAIN there.required = 1..Len(there.required) /\ Len(there.required) \in Nat
      /\ \A i \in DOMAIN there.required : there.required[i].source \in Range(Providers)
  BY DEF OnDisk, Range
<1>5. \A i \in DOMAIN there.required : ofFile[i].source = there.required[i].source /\ good(ofFile[i])
  <2>. SUFFICES ASSUME NEW i \in DOMAIN there.required
                PROVE  ofFile[i].source = there.required[i].source /\ good(ofFile[i])
    OBVIOUS
  <2>. DEFINE r == there.required[i]
  <2>1. ofFile[i] = providerPlan(r.source, r.constraint, there.lock[r.source], TRUE, failing, c)
    OBVIOUS
  <2>2. r.source \in Range(Providers) /\ LockedEntry(there.lock[r.source])
    BY <1>4 DEF OnDisk
  <2>3. ofFile[i].source = r.source /\ FromLock(ofFile[i], there.lock[r.source])
    <3>. DEFINE q == providerPlan(r.source, r.constraint, there.lock[r.source], TRUE, failing, c)
    <3>1. q.source = r.source /\ FromLock(q, there.lock[r.source])
      BY <2>2, ProviderPlan
    <3>. HIDE DEF q, ofFile
    <3>. QED
      BY <2>1, <3>1 DEF q
  <2>. HIDE DEF ofFile
  <2>. QED
    BY <2>2, <2>3
<1>6. \A i \in DOMAIN only : ofLock[i].source = only[i] /\ good(ofLock[i])
  <2>. SUFFICES ASSUME NEW i \in DOMAIN only PROVE ofLock[i].source = only[i] /\ good(ofLock[i])
    OBVIOUS
  <2>1. ofLock[i] = providerPlan(only[i], there.lock[only[i]].constraint, there.lock[only[i]], FALSE, failing, c)
    BY Zenon
  <2>2. only[i] \in Range(Providers) /\ LockedEntry(there.lock[only[i]])
    BY <1>3 DEF OnDisk
  <2>3. ofLock[i].source = only[i] /\ FromLock(ofLock[i], there.lock[only[i]])
    <3>. DEFINE s == only[i]
                q == providerPlan(s, there.lock[s].constraint, there.lock[s], FALSE, failing, c)
    <3>. HIDE DEF only, ofLock
    <3>1. q.source = s /\ FromLock(q, there.lock[s])
      BY <2>2, ProviderPlan
    <3>. QED
      BY <2>1, <3>1
  <2>. HIDE DEF ofLock, only
  <2>. QED
    BY <2>2, <2>3
<1>7. ofFile \in Seq(T) /\ ofLock \in Seq(T)
  <2>1. DOMAIN ofFile = 1..Len(there.required) /\ DOMAIN ofLock = 1..Len(only)
    BY <1>3, <1>4
  <2>2. ofFile = [i \in 1..Len(there.required) |-> ofFile[i]] /\ ofLock = [i \in 1..Len(only) |-> ofLock[i]]
    BY <1>3, <1>4
  <2>. HIDE DEF ofFile, ofLock
  <2>3. (\A i \in DOMAIN ofFile : ofFile[i] \in T) /\ (\A i \in DOMAIN ofLock : ofLock[i] \in T)
    BY DEF Range
  <2>. HIDE DEF T
  <2>4. ofFile \in [1..Len(there.required) -> T] /\ ofLock \in [1..Len(only) -> T]
    BY <2>1, <2>2, <2>3
  <2>. HIDE DEF only
  <2>. QED
    BY <1>3, <1>4, <2>4
<1>8. ofFile \o ofLock \in Seq(T) /\ Range(ofFile \o ofLock) = T
  <2>. HIDE DEF ofFile, ofLock
  <2>1. Range(ofFile \o ofLock) = Range(ofFile) \cup Range(ofLock)
    <3>. HIDE DEF T
    <3>. QED
      BY <1>7, RangeOfConcat
  <2>2. ofFile \o ofLock \in Seq(T)
    <3>. HIDE DEF T
    <3>. QED
      BY <1>7
  <2>. QED
    BY <2>1, <2>2
<1>9. \A p \in T : good(p)
  BY <1>5, <1>6 DEF Range
<1>10. ASSUME NEW s \in Range(Providers), there.lock[s] # NoEntry PROVE \E p \in T : p.source = s
  <2>1. CASE \E r \in Range(there.required) : r.source = s
    <3>1. PICK i \in DOMAIN there.required : there.required[i].source = s
      BY <2>1 DEF Range
    <3>2. ofFile[i].source = s /\ i \in DOMAIN ofFile
      BY <1>5, <3>1
    <3>. HIDE DEF ofFile, ofLock
    <3>. QED
      BY <3>2 DEF Range
  <2>2. CASE \A r \in Range(there.required) : r.source # s
    <3>1. s \in Range(only)
      BY <1>2, <1>10, <2>2
    <3>. HIDE DEF only
    <3>2. PICK i \in DOMAIN only : only[i] = s
      BY <3>1 DEF Range
    <3>. QED
      BY <1>6, <3>2 DEF Range
  <2>. QED
    BY <2>1, <2>2
<1>. HIDE DEF T
<1>. QED
  BY <1>1, <1>8, <1>9, <1>10 DEF PlansOf

-----------------------------------------------------------------------------
(* The invariant of an update *)

\* What is to be locked is within the bump of what was.
SyncOk(y) ==
  /\ y.source \in Range(Providers)
  /\ y.module \in Range(Modules) /\ before[y.module].lock[y.source] # NoEntry =>
       withinBump(before[y.module].lock[y.source].version, y.version, cfg.bump)

PlanOk(p) ==
  /\ p.modules \in Seq(Range(p.modules)) /\ p.providers \in Seq(Range(p.providers))
  /\ p.lockSync \in Seq(Range(p.lockSync))
  /\ \A y \in Range(p.lockSync) : SyncOk(y)

FoundFor(found, plans, bump) == \A f \in found : \E s : f.versions = solveProviders(plans, s, bump)

SyncsFor(m, sync, lock, bump) ==
  /\ sync \in Seq(Range(sync))
  /\ \A y \in Range(sync) :
       /\ y.module = m /\ y.source \in Range(Providers)
       /\ lock[y.source] # NoEntry => withinBump(lock[y.source].version, y.version, bump)

\* A locked provider has a plan, so what it is taken to is what that plan says.
LEMMA LockSyncWithinBump ==
  ASSUME NEW m, NEW there, NEW plans, PlansOf(plans, there), NEW c, c.bump \in {"patch", "minor", "major"},
         NEW failing, NEW found, FoundFor(found, plans, c.bump),
         NEW sync \in lockSync(m, plans, found, c, failing)
  PROVE  SyncsFor(m, sync, there.lock, c.bump)
<1>1. CASE found = {}
  <2>1. sync = <<>>
    BY <1>1 DEF lockSync
  <2>. QED
    BY <2>1 DEF Range, SyncsFor
<1>2. CASE found # {}
  <2>. DEFINE f == CHOOSE x \in found : TRUE
              planFor(s) == {i \in DOMAIN plans : plans[i].source = s}
              versionOf(s) ==
                IF planFor(s) # {} THEN UNION {f.versions[i] : i \in planFor(s)}
                ELSE IF <<s>> \in failing THEN {}
                ELSE selectProviderVersion([versions |-> ProviderVersions[s], current |-> {}, base |-> <<>>],
                                           needsOf(f.selection, s), c.bump)
              root(s) == IF \E i \in planFor(s) : plans[i].required /\ c.pin
                           THEN <<Term("=", CHOOSE v \in versionOf(s) : TRUE, 3)>>
                           ELSE IF planFor(s) = {} THEN <<>> ELSE plans[CHOOSE i \in planFor(s) : TRUE].base
              merged(s) == {plans[i].base : i \in planFor(s)} \cup needsOf(f.selection, s)
              wantedOnes == {s \in Range(Providers) : planFor(s) # {} \/ needsOf(f.selection, s) # {}}
              wanted == inOrder(wantedOnes)
              entryFor(k) == [module |-> m, source |-> wanted[k], version |-> CHOOSE v \in versionOf(wanted[k]) : TRUE,
                              constraint |-> MergeConstraints(root(wanted[k]), merged(wanted[k]))]
  <2>1. /\ \A s \in Range(wanted) : versionOf(s) # {}
        /\ sync = [k \in DOMAIN wanted |-> entryFor(k)]
    BY <1>2 DEF lockSync
  <2>2. wanted \in Seq(Range(Providers)) /\ Range(wanted) \subseteq Range(Providers)
    <3>1. wantedOnes \subseteq Range(Providers)
      OBVIOUS
    <3>. HIDE DEF wantedOnes
    <3>. QED
      BY <3>1, InOrder
  <2>3. \A s \in Range(Providers) : there.lock[s] # NoEntry =>
          \A v \in versionOf(s) : withinBump(there.lock[s].version, v, c.bump)
    <3>. SUFFICES ASSUME NEW s \in Range(Providers), there.lock[s] # NoEntry, NEW v \in versionOf(s)
                  PROVE  withinBump(there.lock[s].version, v, c.bump)
      OBVIOUS
    <3>1. planFor(s) # {}
      <4>1. PICK p \in Range(plans) : p.source = s
        BY DEF PlansOf
      <4>. QED
        BY <4>1 DEF Range
    <3>2. PICK i \in planFor(s) : v \in f.versions[i]
      BY <3>1
    <3>3. f \in found
      BY <1>2
    <3>4. PICK selected : f.versions = solveProviders(plans, selected, c.bump)
      BY <3>3 DEF FoundFor
    <3>5. i \in DOMAIN plans /\ plans[i].source = s
      OBVIOUS
    <3>6. v \in selectProviderVersion(plans[i], needsOf(selected, plans[i].source), c.bump)
      <4>1. f.versions[i] = selectProviderVersion(plans[i], needsOf(selected, plans[i].source), c.bump)
        BY <3>4, <3>5 DEF solveProviders
      <4>. HIDE DEF f
      <4>. QED
        BY <3>2, <4>1
    <3>7. plans[i] \in Range(plans) /\ FromLock(plans[i], there.lock[s])
      BY <3>5 DEF PlansOf, Range
    <3>. HIDE DEF f, planFor
    <3>. QED
      BY <3>5, <3>6, <3>7, SelectedWithinBump
  <2>. HIDE DEF versionOf, root, merged, planFor, wanted, f
  <2>4. wanted \in Seq(Range(wanted)) /\ DOMAIN sync = 1..Len(wanted) /\ Len(wanted) \in Nat
    BY <2>1, <2>2 DEF Range
  <2>5. sync \in Seq(Range(sync))
    <3>. HIDE DEF entryFor
    <3>1. \A k \in 1..Len(wanted) : sync[k] \in Range(sync)
      BY <2>4 DEF Range
    <3>2. sync = [k \in 1..Len(wanted) |-> entryFor(k)]
      BY <2>1, <2>4
    <3>3. sync \in [1..Len(wanted) -> Range(sync)]
      BY <3>1, <3>2
    <3>. QED
      BY <2>4, <3>3
  <2>6. ASSUME NEW k \in DOMAIN wanted
        PROVE  /\ sync[k].module = m /\ sync[k].source \in Range(Providers)
               /\ there.lock[sync[k].source] # NoEntry =>
                    withinBump(there.lock[sync[k].source].version, sync[k].version, c.bump)
    <3>1. wanted[k] \in Range(wanted) /\ wanted[k] \in Range(Providers)
      BY <2>2 DEF Range
    <3>2. sync[k].module = m /\ sync[k].source = wanted[k] /\ sync[k].version \in versionOf(wanted[k])
      BY <2>1, <3>1
    <3>. QED
      BY <2>3, <3>1, <3>2
  <2>. QED
    BY <2>1, <2>5, <2>6 DEF Range, SyncsFor
<1>. QED
  BY <1>1, <1>2

\* A plan that is made from the disk as it was is in order.
LEMMA SolvedOk ==
  ASSUME before \in Disks, cfg \in Configs, NEW m \in Range(Modules), NEW failing,
         NEW p \in SolveModule(m, parsed(before[m]), cfg, failing)
  PROVE  PlanOk(p)
<1>. DEFINE there == parsed(before[m])
            mps == [i \in DOMAIN there.calls |-> buildModulePlan(there.calls[i], cfg, failing)]
            plans == buildProviderPlans(there, cfg, failing)
            found == compatible(mps, plans, cfg.bump)
<1>1. /\ OnDisk(there) /\ there.calls \in Seq(Range(there.calls))
      /\ there.lock = before[m].lock
  <2>1. CASE before[m].tf = "broken"
    <3>1. there = [before[m] EXCEPT !.calls = <<>>, !.required = <<>>]
      BY <2>1 DEF parsed
    <3>2. there.calls = <<>> /\ there.required = <<>> /\ there.lock = before[m].lock
      BY <3>1, DisksAssumption
    <3>. HIDE DEF there
    <3>3. there.required \in Seq(Range(there.required)) /\ there.calls \in Seq(Range(there.calls)) /\ Range(there.required) = {}
      BY <3>2 DEF Range
    <3>. QED
      BY <3>2, <3>3, DisksAssumption DEF OnDisk, LockedEntry
  <2>2. CASE before[m].tf # "broken"
    BY <2>2, DisksAssumption DEF parsed, OnDisk, LockedEntry
  <2>. QED
    BY <2>1, <2>2
<1>2. PlansOf(plans, there)
  BY <1>1, ProviderPlans
<1>3. PICK sync \in lockSync(m, plans, found, cfg, failing) :
        p = [modules |-> IF ~ShouldCheckModules(cfg) THEN <<>>
                         ELSE [i \in DOMAIN mps |-> moduleUpdate(m, mps[i], found, i)],
             providers |-> IF ~ShouldCheckProviders(cfg) THEN <<>>
                           ELSE [i \in DOMAIN plans |-> providerUpdate(m, plans[i], found, i)],
             lockSync |-> sync]
  BY DEF SolveModule
<1>4. FoundFor(found, plans, cfg.bump)
  <2>. HIDE DEF mps, plans
  <2>. QED
    BY DEF compatible, FoundFor
<1>5. SyncsFor(m, sync, there.lock, cfg.bump)
  <2>1. cfg.bump \in {"patch", "minor", "major"}
    BY ConfigsAssumption
  <2>2. sync \in lockSync(m, plans, found, cfg, failing)
    BY <1>3
  <2>. HIDE DEF plans, found, there
  <2>. QED
    BY <1>2, <1>4, <2>1, <2>2, LockSyncWithinBump
<1>6. \A y \in Range(p.lockSync) : SyncOk(y)
  <2>. HIDE DEF there
  <2>. QED
    BY <1>1, <1>3, <1>5 DEF SyncOk, SyncsFor
<1>7. ASSUME NEW k \in Nat, NEW f, DOMAIN f = 1..k, f = [i \in 1..k |-> f[i]] PROVE f \in Seq(Range(f))
  <2>1. \A i \in 1..k : f[i] \in Range(f)
    BY <1>7 DEF Range
  <2>2. f \in [1..k -> Range(f)]
    BY <1>7, <2>1
  <2>. QED
    BY <2>2
<1>8. DOMAIN mps = 1..Len(there.calls) /\ Len(there.calls) \in Nat
  BY <1>1
<1>9. DOMAIN plans = 1..Len(plans) /\ Len(plans) \in Nat
  BY <1>2 DEF PlansOf
<1>10. p.modules \in Seq(Range(p.modules))
  <2>. HIDE DEF mps, there, plans, found
  <2>1. CASE p.modules = <<>>
    BY <2>1
  <2>2. CASE p.modules = [i \in DOMAIN mps |-> moduleUpdate(m, mps[i], found, i)]
    BY <1>7, <1>8, <2>2
  <2>. QED
    BY <1>3, <2>1, <2>2
<1>11. p.providers \in Seq(Range(p.providers))
  <2>. HIDE DEF mps, there, plans, found
  <2>1. CASE p.providers = <<>>
    BY <2>1
  <2>2. CASE p.providers = [i \in DOMAIN plans |-> providerUpdate(m, plans[i], found, i)]
    BY <1>7, <1>9, <2>2
  <2>. QED
    BY <1>3, <2>1, <2>2
<1>12. p.lockSync \in Seq(Range(p.lockSync))
  BY <1>3, <1>5 DEF SyncsFor
<1>. QED
  BY <1>6, <1>10, <1>11, <1>12 DEF PlanOk

DiskInv ==
  /\ cfg \in Configs /\ before \in Disks
  /\ DOMAIN disk = Range(Modules)
  /\ \A m \in Range(Modules) : /\ DOMAIN disk[m] = {"tf", "calls", "required", "locked", "lock"}
                               /\ DOMAIN disk[m].lock = Range(Providers)

WorkerInv ==
  /\ DOMAIN worker = Range(Modules)
  /\ \A m \in Range(Modules) : DOMAIN worker[m] = {"at", "seen", "plan"} /\ \A p \in worker[m].plan : PlanOk(p)

TodoInv ==
  /\ todo \in Seq(Range(todo))
  /\ \A t \in Range(todo) : t.kind = "lock" => SyncOk(t.i)

\* Until it is applied nothing is written, and packages are hashed for the
\* provider that is to be locked next, for each of its platforms.
StageInv ==
  /\ phase = "plan" => disk = before /\ todo = <<>>
  /\ hashing # Idle => doing("lock") /\ DOMAIN hashing = Platforms[task.i.source]

LocksInv == WholeEntries /\ LockedWithinBump

UpdateInv == DiskInv /\ WorkerInv /\ TodoInv /\ StageInv /\ LocksInv

LEMMA InitUpdate == ASSUME Init PROVE UpdateInv
<1>1. DiskInv /\ disk = before
  BY DisksAssumption DEF Init, DiskInv
<1>2. WorkerInv
  BY DEF Init, WorkerInv
<1>3. TodoInv
  BY DEF Init, TodoInv, Range
<1>4. StageInv
  BY DEF Init, StageInv
<1>5. WholeEntries
  BY <1>1 DEF WholeEntries
<1>6. LockedWithinBump
  BY <1>1, ConfigsAssumption DEF LockedWithinBump, DiskInv, lockOf, withinBump
<1>. QED
  BY <1>1, <1>2, <1>3, <1>4, <1>5, <1>6 DEF UpdateInv, LocksInv

\* Only the lock entries of the disk matter to what is locked.
SameLocks ==
  /\ DOMAIN disk' = DOMAIN disk
  /\ \A m \in Range(Modules) : DOMAIN disk[m]' = DOMAIN disk[m] /\ disk[m].lock' = disk[m].lock

Whole(e, s) ==
  /\ {zh(s, e.version, p) : p \in Platforms[s] \cap Summed[s]} \subseteq e.hashes
  /\ {h1(s, e.version, p) : p \in h1Platforms(s)} \subseteq e.hashes

LEMMA SameWhole == ASSUME UNCHANGED cfg, NEW e, NEW s, Whole(e, s) PROVE Whole(e, s)'
BY DEF Whole, h1Platforms, zh, h1

LEMMA SameLocksKeep ==
  ASSUME DiskInv, LocksInv, SameLocks, UNCHANGED <<cfg, before>>
  PROVE  DiskInv' /\ LocksInv'
<1>1. DiskInv'
  BY DEF DiskInv, SameLocks
<1>2. WholeEntries'
  <2>. SUFFICES ASSUME NEW m \in Range(Modules), NEW s \in Range(Providers), disk[m].lock[s]' # before[m].lock[s]'
                PROVE  Whole(disk[m].lock[s], s)'
    BY DEF WholeEntries, Whole
  <2>1. disk[m].lock[s]' = disk[m].lock[s] /\ before[m].lock[s]' = before[m].lock[s]
    BY DEF SameLocks
  <2>2. Whole(disk[m].lock[s], s)
    BY <2>1 DEF LocksInv, WholeEntries, Whole
  <2>. QED
    BY <2>1, <2>2, SameWhole
<1>3. LockedWithinBump'
  BY DEF LocksInv, LockedWithinBump, SameLocks, lockOf
<1>. QED
  BY <1>1, <1>2, <1>3 DEF LocksInv

LEMMA SameDisk == ASSUME UNCHANGED disk PROVE SameLocks
BY DEF SameLocks

LEMMA FieldWritten ==
  ASSUME DiskInv, NEW m, NEW field \in {"tf", "calls", "required", "locked"}, NEW value,
         disk' = [disk EXCEPT ![m][field] = value]
  PROVE  SameLocks
BY DEF DiskInv, SameLocks

\* Whatever comes of writing a .tf file, the lock entries are what they were.
Writing(m, list, name, constraint) ==
  \/ UNCHANGED disk
  \/ disk' = setConstraint(m, list, name, constraint)
  \/ \E tf \in {"ok", "broken"} : disk' = [disk EXCEPT ![m].tf = tf]

LEMMA WritingKeepsLocks ==
  ASSUME DiskInv, NEW m, NEW list \in {"calls", "required"}, NEW name, NEW constraint,
         Writing(m, list, name, constraint)
  PROVE  SameLocks
<1>1. CASE UNCHANGED disk
  BY <1>1, SameDisk
<1>3. CASE disk' = setConstraint(m, list, name, constraint)
  <2>. DEFINE value == [i \in DOMAIN disk[m][list] |->
                          IF nameIn(list, disk[m][list][i]) = name THEN [disk[m][list][i] EXCEPT !.constraint = constraint]
                          ELSE disk[m][list][i]]
  <2>1. disk' = [disk EXCEPT ![m][list] = value]
    BY <1>3 DEF setConstraint
  <2>. HIDE DEF value
  <2>. QED
    BY <2>1, FieldWritten
<1>4. CASE \E tf \in {"ok", "broken"} : disk' = [disk EXCEPT ![m].tf = tf]
  BY <1>4, FieldWritten
<1>. QED
  BY <1>1, <1>3, <1>4 DEF Writing

\* What is done is done, what is left stays what it was.
LEMMA DoneKeepsTodo ==
  ASSUME TodoInv, todo # <<>>, done, UNCHANGED <<cfg, before>>
  PROVE  TodoInv'
<1>1. Tail(todo) \in Seq(Range(todo)) /\ \A i \in DOMAIN Tail(todo) : Tail(todo)[i] = todo[i + 1] /\ i + 1 \in DOMAIN todo
  BY DEF TodoInv
<1>2. Range(Tail(todo)) \subseteq Range(todo)
  BY <1>1 DEF Range
<1>3. Tail(todo) \in Seq(Range(Tail(todo)))
  BY <1>1, OfItsElements
<1>. QED
  BY <1>2, <1>3 DEF TodoInv, done, SyncOk

LEMMA SameTodo == ASSUME TodoInv, UNCHANGED <<todo, cfg, before>> PROVE TodoInv'
BY DEF TodoInv, SyncOk

LEMMA NothingTodo == ASSUME todo' = <<>> PROVE TodoInv'
BY DEF TodoInv, Range

LEMMA SameWorkers == ASSUME WorkerInv, UNCHANGED <<worker, cfg, before>> PROVE WorkerInv'
BY DEF WorkerInv, PlanOk, SyncOk

-----------------------------------------------------------------------------
(* Planning *)

LEMMA PlansInOrder ==
  ASSUME WorkerInv
  PROVE  plansInOrder \in Seq(Range(plansInOrder)) /\ \A p \in Range(plansInOrder) : PlanOk(p)
<1>. DEFINE picks == [i \in DOMAIN Modules |-> IF planned(Modules[i]) THEN <<planOf(Modules[i])>> ELSE <<>>]
<1>1. DOMAIN Modules = 1..Len(Modules) /\ Len(Modules) \in Nat /\ \A i \in DOMAIN Modules : Modules[i] \in Range(Modules)
  BY ConfigsAssumption DEF Range
<1>2. picks = [i \in 1..Len(Modules) |-> picks[i]]
  BY <1>1
<1>3. \A i \in 1..Len(Modules) :
        picks[i] = (IF planned(Modules[i]) THEN <<planOf(Modules[i])>> ELSE <<>>)
  BY <1>1
<1>4. \A i \in 1..Len(Modules) :
        picks[i] \in Seq(Range(picks[i])) /\ \A p \in Range(picks[i]) : PlanOk(p)
  <2>. SUFFICES ASSUME NEW i \in 1..Len(Modules)
                PROVE  picks[i] \in Seq(Range(picks[i])) /\ \A p \in Range(picks[i]) : PlanOk(p)
    OBVIOUS
  <2>1. CASE planned(Modules[i])
    <3>1. picks[i] = <<planOf(Modules[i])>>
      BY <1>3, <2>1
    <3>2. PlanOk(planOf(Modules[i]))
      BY <1>1, <2>1 DEF planned, planOf, WorkerInv
    <3>. HIDE DEF picks
    <3>3. Range(picks[i]) = {planOf(Modules[i])}
      BY <3>1 DEF Range
    <3>. QED
      BY <3>1, <3>2, <3>3
  <2>2. CASE ~planned(Modules[i])
    <3>1. picks[i] = <<>>
      BY <1>3, <2>2
    <3>. HIDE DEF picks
    <3>. QED
      BY <3>1 DEF Range
  <2>. QED
    BY <2>1, <2>2
<1>. HIDE DEF picks
<1>5. FlattenSeq(picks) \in Seq(Range(FlattenSeq(picks)))
      /\ \A p \in Range(FlattenSeq(picks)) : \E i \in 1..Len(Modules) : p \in Range(picks[i])
  BY <1>1, <1>2, <1>4, FlattenOf
<1>. QED
  BY <1>4, <1>5 DEF plansInOrder, picks

\* What Apply has to do: the lock entries among it are those planned.
LEMMA ApplyTasks ==
  ASSUME NEW r, r.modules \in Seq(Range(r.modules)), r.providers \in Seq(Range(r.providers)),
         NEW syncs, syncs \in Seq(Range(syncs))
  PROVE  /\ applyTasks(r, syncs) \in Seq(Range(applyTasks(r, syncs)))
         /\ \A t \in Range(applyTasks(r, syncs)) : t.kind = "lock" => t.i \in Range(syncs)
<1>. DEFINE tasks(kind, s) == [i \in DOMAIN s |-> [kind |-> kind, i |-> i]]
            locks == [i \in DOMAIN syncs |-> [kind |-> "lock", i |-> syncs[i]]]
            T == {[kind |-> k, i |-> i] : k \in {"module", "provider", "pin_module", "pin_provider"}, i \in Nat}
                   \cup {[kind |-> "lock", i |-> y] : y \in Range(syncs)}
<1>1. ASSUME NEW kind \in {"module", "provider", "pin_module", "pin_provider"}, NEW s, s \in Seq(Range(s))
      PROVE  tasks(kind, s) \in Seq(T)
  <2>1. DOMAIN s = 1..Len(s) /\ Len(s) \in Nat
    OBVIOUS
  <2>2. \A i \in 1..Len(s) : [kind |-> kind, i |-> i] \in T
    OBVIOUS
  <2>3. tasks(kind, s) = [i \in 1..Len(s) |-> [kind |-> kind, i |-> i]]
    BY <2>1
  <2>. HIDE DEF T, tasks
  <2>4. tasks(kind, s) \in [1..Len(s) -> T]
    BY <2>2, <2>3
  <2>. QED
    BY <2>1, <2>4, IsSequence
<1>2. locks \in Seq(T)
  <2>1. DOMAIN syncs = 1..Len(syncs) /\ Len(syncs) \in Nat
    OBVIOUS
  <2>2. \A i \in 1..Len(syncs) : [kind |-> "lock", i |-> syncs[i]] \in T
    <3>1. \A i \in 1..Len(syncs) : syncs[i] \in Range(syncs)
      BY <2>1 DEF Range
    <3>. QED
      BY <3>1
  <2>3. locks = [i \in 1..Len(syncs) |-> [kind |-> "lock", i |-> syncs[i]]]
    BY <2>1
  <2>. HIDE DEF T, locks
  <2>4. locks \in [1..Len(syncs) -> T]
    BY <2>2, <2>3
  <2>. QED
    BY <2>1, <2>4
<1>3. applyTasks(r, syncs) =
        tasks("module", r.modules) \o tasks("provider", r.providers)
          \o (IF cfg.pin THEN tasks("pin_module", r.modules) \o tasks("pin_provider", r.providers) ELSE <<>>) \o locks
  BY DEF applyTasks
<1>4. applyTasks(r, syncs) \in Seq(T)
  <2>1. /\ tasks("module", r.modules) \in Seq(T) /\ tasks("provider", r.providers) \in Seq(T)
        /\ tasks("pin_module", r.modules) \in Seq(T) /\ tasks("pin_provider", r.providers) \in Seq(T)
    <3>. HIDE DEF tasks, T
    <3>. QED
      BY <1>1
  <2>. HIDE DEF tasks, locks, T
  <2>. QED
    BY <1>2, <1>3, <2>1
<1>5. Range(applyTasks(r, syncs)) \subseteq T
  <2>. HIDE DEF T
  <2>. QED
    BY <1>4 DEF Range
<1>6. applyTasks(r, syncs) \in Seq(Range(applyTasks(r, syncs)))
  <2>. HIDE DEF T
  <2>. QED
    BY <1>4, OfItsElements
<1>. QED
  BY <1>5, <1>6

\* Of what the plans have, in order
LEMMA ListsOfPlans ==
  ASSUME NEW ps, ps \in Seq(Range(ps)), NEW f \in {"modules", "providers", "lockSync"},
         \A p \in Range(ps) : p[f] \in Seq(Range(p[f]))
  PROVE  LET all == FlattenSeq([i \in DOMAIN ps |-> ps[i][f]])
         IN  all \in Seq(Range(all)) /\ \A x \in Range(all) : \E p \in Range(ps) : x \in Range(p[f])
<1>. DEFINE lists == [i \in DOMAIN ps |-> ps[i][f]]
<1>1. DOMAIN ps = 1..Len(ps) /\ Len(ps) \in Nat /\ \A i \in 1..Len(ps) : ps[i] \in Range(ps)
  BY DEF Range
<1>2. lists = [i \in 1..Len(ps) |-> lists[i]] /\ \A i \in 1..Len(ps) : lists[i] = ps[i][f]
  BY <1>1
<1>. HIDE DEF lists
<1>3. \A i \in 1..Len(ps) : lists[i] \in Seq(Range(lists[i]))
  BY <1>1, <1>2
<1>4. FlattenSeq(lists) \in Seq(Range(FlattenSeq(lists)))
      /\ \A x \in Range(FlattenSeq(lists)) : \E i \in 1..Len(ps) : x \in Range(lists[i])
  BY <1>1, <1>2, <1>3, FlattenOf
<1>. QED
  BY <1>1, <1>2, <1>4 DEF lists

-----------------------------------------------------------------------------
(* The steps *)

LEMMA SameLocksUpdate ==
  ASSUME UpdateInv, SameLocks, UNCHANGED <<cfg, before>>, WorkerInv', TodoInv', StageInv'
  PROVE  UpdateInv'
BY SameLocksKeep DEF UpdateInv

LEMMA PlanKeeps == ASSUME UpdateInv, NEW m \in Range(Modules), Plan(m) PROVE UpdateInv'
<1>1. UNCHANGED <<disk, cfg, todo, hashing, phase, before>>
  BY DEF Plan
<1>2. phase = "plan" /\ disk = before
  BY DEF Plan, UpdateInv, StageInv
<1>3. DOMAIN worker' = DOMAIN worker /\ \A n \in Range(Modules) :
        /\ DOMAIN worker[n]' = {"at", "seen", "plan"}
        /\ \/ worker[n].plan' = worker[n].plan
           \/ n = m /\ \E failing : worker[n].plan' \subseteq SolveModule(m, parsed(before[m]), cfg, failing)
  <2>1. DOMAIN worker = Range(Modules) /\ \A n \in Range(Modules) : DOMAIN worker[n] = {"at", "seen", "plan"}
    BY DEF UpdateInv, WorkerInv
  <2>2. CASE worker' = [worker EXCEPT ![m].at = "cancelled"]
    BY <2>1, <2>2
  <2>3. ASSUME NEW failing, NEW plan, plan \subseteq SolveModule(m, parsed(before[m]), cfg, failing), NEW at,
               worker' = [worker EXCEPT ![m] = [at |-> at, seen |-> 0, plan |-> plan]]
        PROVE  /\ DOMAIN worker' = DOMAIN worker
               /\ \A n \in Range(Modules) :
                    /\ DOMAIN worker[n]' = {"at", "seen", "plan"}
                    /\ \/ worker[n].plan' = worker[n].plan
                       \/ n = m /\ \E fs : worker[n].plan' \subseteq SolveModule(m, parsed(before[m]), cfg, fs)
    BY <2>1, <2>3
  <2>4. \/ worker' = [worker EXCEPT ![m].at = "cancelled"]
        \/ \E failing :
             LET plan == IF parsed(disk[m]).tf = "unreadable" THEN {} ELSE SolveModule(m, parsed(disk[m]), cfg, failing)
             IN  worker' = [worker EXCEPT ![m] = [at |-> IF plan = {} THEN "failing" ELSE "planned",
                                                  seen |-> 0, plan |-> plan]]
    BY DEF Plan
  <2>5. CASE \E failing :
               LET plan == IF parsed(disk[m]).tf = "unreadable" THEN {} ELSE SolveModule(m, parsed(disk[m]), cfg, failing)
               IN  worker' = [worker EXCEPT ![m] = [at |-> IF plan = {} THEN "failing" ELSE "planned",
                                                    seen |-> 0, plan |-> plan]]
    <3>1. PICK failing :
            LET plan == IF parsed(disk[m]).tf = "unreadable" THEN {} ELSE SolveModule(m, parsed(disk[m]), cfg, failing)
            IN  worker' = [worker EXCEPT ![m] = [at |-> IF plan = {} THEN "failing" ELSE "planned",
                                                 seen |-> 0, plan |-> plan]]
      BY <2>5
    <3>. DEFINE plan == IF parsed(disk[m]).tf = "unreadable" THEN {} ELSE SolveModule(m, parsed(disk[m]), cfg, failing)
    <3>2. plan \subseteq SolveModule(m, parsed(before[m]), cfg, failing)
      BY <1>2
    <3>3. worker' = [worker EXCEPT ![m] = [at |-> IF plan = {} THEN "failing" ELSE "planned", seen |-> 0, plan |-> plan]]
      BY <3>1
    <3>. HIDE DEF plan
    <3>. QED
      BY <2>3, <3>2, <3>3
  <2>. QED
    BY <2>2, <2>4, <2>5
<1>4. WorkerInv'
  <2>. SUFFICES ASSUME NEW n \in Range(Modules), NEW p \in worker[n].plan' PROVE PlanOk(p)'
    BY <1>3 DEF UpdateInv, WorkerInv
  <2>1. PlanOk(p)
    <3>1. CASE p \in worker[n].plan
      BY <3>1 DEF UpdateInv, WorkerInv
    <3>2. CASE \E failing : p \in SolveModule(m, parsed(before[m]), cfg, failing)
      BY <3>2, SolvedOk DEF UpdateInv, DiskInv
    <3>. QED
      BY <1>3, <3>1, <3>2
  <2>. QED
    BY <1>1, <2>1 DEF PlanOk, SyncOk
<1>5. TodoInv'
  BY <1>1, SameTodo DEF UpdateInv
<1>6. StageInv'
  BY <1>1 DEF UpdateInv, StageInv, doing, task
<1>. QED
  BY <1>1, <1>4, <1>5, <1>6, SameDisk, SameLocksUpdate

LEMMA RecordingKeeps ==
  ASSUME UpdateInv, NEW m \in Range(Modules), RecordErrorRead(m) \/ RecordErrorWrite(m)
  PROVE  UpdateInv'
<1>1. UNCHANGED <<disk, cfg, todo, hashing, phase, before>>
  BY DEF RecordErrorRead, RecordErrorWrite
<1>2. WorkerInv'
  <2>1. DOMAIN worker' = DOMAIN worker
        /\ \A n \in Range(Modules) : DOMAIN worker[n]' = DOMAIN worker[n] /\ worker[n].plan' = worker[n].plan
    BY DEF UpdateInv, WorkerInv, RecordErrorRead, RecordErrorWrite
  <2>. QED
    BY <1>1, <2>1 DEF UpdateInv, WorkerInv, PlanOk, SyncOk
<1>3. TodoInv'
  BY <1>1, SameTodo DEF UpdateInv
<1>4. StageInv'
  BY <1>1 DEF UpdateInv, StageInv, doing, task
<1>. QED
  BY <1>1, <1>2, <1>3, <1>4, SameDisk, SameLocksUpdate

\* The end of planning, and of updating, and a cancellation: nothing is written.
LEMMA EndPlanKeeps == ASSUME UpdateInv, EndPlan PROVE UpdateInv'
<1>1. UNCHANGED <<disk, cfg, worker, hashing, before>> /\ phase = "plan" /\ phase' # "plan"
  BY DEF EndPlan
<1>2. WorkerInv'
  BY <1>1, SameWorkers DEF UpdateInv
<1>3. TodoInv'
  <2>1. CASE UNCHANGED todo
    BY <1>1, <2>1, SameTodo DEF UpdateInv
  <2>2. CASE todo' = <<>>
    BY <2>2, NothingTodo
  <2>. DEFINE ps == plansInOrder
              syncs == FlattenSeq([i \in DOMAIN ps |-> ps[i].lockSync])
  <2>3. CASE /\ result' = [modules |-> FlattenSeq([i \in DOMAIN ps |-> ps[i].modules]),
                           providers |-> FlattenSeq([i \in DOMAIN ps |-> ps[i].providers])]
             /\ todo' = applyTasks(result', syncs)
    <3>1. ps \in Seq(Range(ps)) /\ \A p \in Range(ps) : PlanOk(p)
      BY PlansInOrder DEF UpdateInv
    <3>. HIDE DEF ps
    <3>2. /\ result'.modules \in Seq(Range(result'.modules))
          /\ result'.providers \in Seq(Range(result'.providers))
          /\ syncs \in Seq(Range(syncs)) /\ \A y \in Range(syncs) : \E p \in Range(ps) : y \in Range(p.lockSync)
      BY <2>3, <3>1, ListsOfPlans DEF PlanOk
    <3>3. \A y \in Range(syncs) : SyncOk(y)
      BY <3>1, <3>2 DEF PlanOk
    <3>. HIDE DEF syncs
    <3>4. /\ todo' \in Seq(Range(todo'))
          /\ \A t \in Range(todo') : t.kind = "lock" => t.i \in Range(syncs)
      BY <2>3, <3>2, ApplyTasks
    <3>. QED
      BY <1>1, <3>3, <3>4 DEF TodoInv, SyncOk
  <2>. QED
    BY <2>1, <2>2, <2>3 DEF EndPlan
<1>4. StageInv'
  BY <1>1 DEF UpdateInv, StageInv, doing
<1>. QED
  BY <1>1, <1>2, <1>3, <1>4, SameDisk, SameLocksUpdate

LEMMA StoppingKeeps == ASSUME UpdateInv, Cancel \/ End \/ ApplyCancelled \/ LockSyncCancelled PROVE UpdateInv'
<1>1. UNCHANGED <<disk, cfg, worker, hashing, before>>
  BY DEF Cancel, End, ApplyCancelled, LockSyncCancelled
<1>2. WorkerInv'
  BY <1>1, SameWorkers DEF UpdateInv
<1>3. TodoInv'
  BY <1>1, SameTodo, NothingTodo DEF UpdateInv, Cancel, End, ApplyCancelled, LockSyncCancelled
<1>4. StageInv'
  BY <1>1 DEF UpdateInv, StageInv, doing, task, Cancel, End, ApplyCancelled, LockSyncCancelled
<1>. QED
  BY <1>1, <1>2, <1>3, <1>4, SameDisk, SameLocksUpdate

LEMMA WriteKeeps == ASSUME UpdateInv, ApplyModule \/ ApplyProvider \/ Pin PROVE UpdateInv'
<1>1. UNCHANGED <<cfg, worker, hashing, phase, before>> /\ done /\ phase = "apply" /\ todo # <<>> /\ task.kind # "lock"
  BY DEF ApplyModule, ApplyProvider, Pin, doing
<1>2. \E m, name, constraint : \E list \in {"calls", "required"} : Writing(m, list, name, constraint)
  <2>1. CASE ApplyModule
    BY <2>1 DEF ApplyModule, WriteTF, Writing
  <2>2. CASE ApplyProvider
    BY <2>2 DEF ApplyProvider, WriteTF, Writing
  <2>3. CASE Pin
    <3>. DEFINE list == IF task.kind = "pin_module" THEN "modules" ELSE "providers"
                u == result[list][task.i]
                v == IF list = "modules" /\ u.selected # Zero THEN u.selected ELSE u.current
                place == IF list = "modules" THEN "calls" ELSE "required"
    <3>1. UNCHANGED disk \/ WriteTF(u.module, place, nameIn(place, u), <<Term("=", v, 3)>>, TRUE, TRUE)
      BY <2>3 DEF Pin
    <3>2. place \in {"calls", "required"}
      OBVIOUS
    <3>. HIDE DEF place, v, u
    <3>3. Writing(u.module, place, nameIn(place, u), <<Term("=", v, 3)>>)
      BY <3>1 DEF WriteTF, Writing
    <3>. QED
      BY <3>2, <3>3
  <2>. QED
    BY <2>1, <2>2, <2>3
<1>3. SameLocks
  BY <1>2, WritingKeepsLocks DEF UpdateInv
<1>4. WorkerInv'
  BY <1>1, SameWorkers DEF UpdateInv
<1>5. TodoInv'
  BY <1>1, DoneKeepsTodo DEF UpdateInv
<1>6. StageInv'
  BY <1>1 DEF UpdateInv, StageInv, doing
<1>. QED
  BY <1>1, <1>3, <1>4, <1>5, <1>6, SameLocksUpdate

LEMMA StartSyncKeeps == ASSUME UpdateInv, StartSync PROVE UpdateInv'
<1>1. UNCHANGED <<disk, cfg, worker, phase, before>> /\ doing("lock") /\ hashing = Idle
  BY DEF StartSync
<1>2. CASE hashing' = [p \in Platforms[task.i.source] |-> "todo"] /\ UNCHANGED todo
  <2>1. StageInv'
    BY <1>1, <1>2 DEF UpdateInv, StageInv, doing, task
  <2>2. TodoInv'
    BY <1>1, <1>2, SameTodo DEF UpdateInv
  <2>. QED
    BY <1>1, <2>1, <2>2, SameWorkers, SameDisk, SameLocksUpdate DEF UpdateInv
<1>3. CASE UNCHANGED hashing /\ done
  <2>1. StageInv'
    BY <1>1, <1>3 DEF StageInv, doing
  <2>2. TodoInv'
    BY <1>1, <1>3, DoneKeepsTodo DEF UpdateInv, doing
  <2>. QED
    BY <1>1, <2>1, <2>2, SameWorkers, SameDisk, SameLocksUpdate DEF UpdateInv
<1>. QED
  BY <1>2, <1>3 DEF StartSync

LEMMA HashKeeps == ASSUME UpdateInv, NEW p, Hash(p) PROVE UpdateInv'
<1>1. UNCHANGED <<disk, cfg, worker, todo, phase, before>> /\ DOMAIN hashing' = DOMAIN hashing /\ hashing # Idle
  BY DEF Hash, Idle
<1>2. StageInv'
  BY <1>1 DEF UpdateInv, StageInv, doing, task
<1>3. TodoInv'
  BY <1>1, SameTodo DEF UpdateInv
<1>. QED
  BY <1>1, <1>2, <1>3, SameWorkers, SameDisk, SameLocksUpdate DEF UpdateInv

\* The entry that is written has what was hashed: all of it.
LEMMA EndSyncKeeps == ASSUME UpdateInv, EndSync PROVE UpdateInv'
<1>. DEFINE sync == task.i
            m == sync.module
            hashes == collectAllHashes(sync)
            entryWith(h) == [version |-> sync.version, constraint |-> sync.constraint,
                             hashes |-> h \cup disk[m].lock[sync.source].hashes]
<1>1. UNCHANGED <<cfg, worker, phase, before>> /\ doing("lock") /\ hashing # Idle /\ hashing' = Idle /\ done
  BY DEF EndSync
<1>2. WorkerInv' /\ TodoInv'
  BY <1>1, SameWorkers, DoneKeepsTodo DEF UpdateInv, doing
<1>3. StageInv'
  BY <1>1 DEF StageInv, doing
<1>4. \/ \E h \in hashes : disk' = [disk EXCEPT ![m].lock[sync.source] = entryWith(h)]
      \/ UNCHANGED disk
      \/ \E l \in {"ok", "broken"} : disk' = [disk EXCEPT ![m].locked = l]
  BY DEF EndSync
<1>5. ASSUME NEW h \in hashes, disk' = [disk EXCEPT ![m].lock[sync.source] = entryWith(h)]
      PROVE  UpdateInv'
  <2>1. /\ DOMAIN disk' = DOMAIN disk
        /\ \A n \in Range(Modules) : DOMAIN disk[n]' = DOMAIN disk[n] /\ DOMAIN disk[n].lock' = DOMAIN disk[n].lock
        /\ \A n \in Range(Modules), s \in Range(Providers) :
             disk[n].lock[s]' = IF n = m /\ s = sync.source THEN entryWith(h) ELSE disk[n].lock[s]
    <3>. HIDE DEF entryWith, m, sync, hashes
    <3>. QED
      BY <1>5 DEF UpdateInv, DiskInv
  <2>2. DiskInv'
    BY <1>1, <2>1 DEF UpdateInv, DiskInv
  <2>3. Whole(entryWith(h), sync.source)
    <3>1. DOMAIN hashing = Platforms[sync.source]
      BY <1>1 DEF UpdateInv, StageInv
    <3>2. h = {zh(sync.source, sync.version, p) : p \in DOMAIN hashing \cap Summed[sync.source]}
                \cup {h1(sync.source, sync.version, p) : p \in h1Platforms(sync.source)}
      BY DEF collectAllHashes
    <3>. QED
      BY <3>1, <3>2 DEF Whole
  <2>4. WholeEntries'
    <3>. SUFFICES ASSUME NEW n \in Range(Modules), NEW s \in Range(Providers), disk[n].lock[s]' # before[n].lock[s]'
                  PROVE  Whole(disk[n].lock[s], s)'
      BY DEF WholeEntries, Whole
    <3>1. Whole(disk[n].lock[s]', s)
      <4>1. CASE n = m /\ s = sync.source
        BY <2>1, <2>3, <4>1
      <4>2. CASE ~(n = m /\ s = sync.source)
        <5>1. disk[n].lock[s]' = disk[n].lock[s]
          BY <2>1, <4>2
        <5>. QED
          BY <1>1, <5>1 DEF UpdateInv, LocksInv, WholeEntries, Whole
      <4>. QED
        BY <4>1, <4>2
    <3>. QED
      BY <1>1, <3>1, SameWhole
  <2>5. SyncOk(sync)
    <3>1. task \in Range(todo)
      BY <1>1 DEF UpdateInv, TodoInv, doing, task, Range
    <3>. QED
      BY <1>1, <3>1 DEF UpdateInv, TodoInv, doing
  <2>6. LockedWithinBump'
    <3>. SUFFICES ASSUME NEW n \in Range(Modules), NEW s \in Range(Providers), before[n].lock[s] # NoEntry
                  PROVE  withinBump(before[n].lock[s].version, disk[n].lock[s]'.version, cfg.bump)
      BY <1>1 DEF LockedWithinBump, lockOf
    <3>1. CASE n = m /\ s = sync.source
      BY <2>1, <2>5, <3>1 DEF SyncOk
    <3>2. CASE ~(n = m /\ s = sync.source)
      BY <2>1, <3>2 DEF UpdateInv, LocksInv, LockedWithinBump, lockOf
    <3>. QED
      BY <3>1, <3>2
  <2>. QED
    BY <1>2, <1>3, <2>2, <2>4, <2>6 DEF UpdateInv, LocksInv
<1>6. CASE UNCHANGED disk
  BY <1>1, <1>2, <1>3, <1>6, SameDisk, SameLocksUpdate
<1>7. CASE \E l \in {"ok", "broken"} : disk' = [disk EXCEPT ![m].locked = l]
  <2>1. SameLocks
    <3>. HIDE DEF m
    <3>. QED
      BY <1>7, FieldWritten DEF UpdateInv
  <2>. QED
    BY <1>1, <1>2, <1>3, <2>1, SameLocksUpdate
<1>. QED
  BY <1>4, <1>5, <1>6, <1>7

LEMMA UpdateStep == ASSUME UpdateInv, [Next]_vars PROVE UpdateInv'
<1>1. CASE UNCHANGED vars
  <2>1. UNCHANGED <<disk, cfg, worker, todo, hashing, phase, before>>
    BY <1>1 DEF vars
  <2>2. StageInv'
    BY <2>1 DEF UpdateInv, StageInv, doing, task
  <2>. QED
    BY <2>1, <2>2, SameTodo, SameWorkers, SameDisk, SameLocksUpdate DEF UpdateInv
<1>2. CASE Next
  BY <1>2, PlanKeeps, RecordingKeeps, EndPlanKeeps, StoppingKeeps, WriteKeeps, StartSyncKeeps, HashKeeps, EndSyncKeeps
     DEF Next
<1>. QED
  BY <1>1, <1>2

THEOREM UpdateInvHolds == Spec => []UpdateInv
<1>1. Init => UpdateInv
  BY InitUpdate
<1>2. UpdateInv /\ [Next]_vars => UpdateInv'
  BY UpdateStep
<1>. QED
  BY <1>1, <1>2, PTL DEF Spec

\* service_hashes.go:14-68, apply_lock_sync.go:31-58 and the writer of lock
\* files: with hashing cancelled, packages that fail and writes that fail, an
\* entry that is no longer what it was has the checksums of its version the registry
\* has and the hashes that are asked for, for any providers, platforms and number of failures.
THEOREM LockEntriesAreWhole == Spec => []WholeEntries
<1>1. UpdateInv => WholeEntries
  BY DEF UpdateInv, LocksInv
<1>. QED
  BY <1>1, UpdateInvHolds, PTL

\* compatibility.go and lock_sync.go: what the search selects, what a module
\* call needs and what is written cannot take a locked provider further than
\* the configured bump, whatever the registry lists.
THEOREM LocksStayWithinBump == Spec => []LockedWithinBump
<1>1. UpdateInv => LockedWithinBump
  BY DEF UpdateInv, LocksInv
<1>. QED
  BY <1>1, UpdateInvHolds, PTL
=============================================================================
