----------------------------- MODULE MCCommands -----------------------------
(***************************************************************************)
(* The start of every command, and one command that changes the            *)
(* repository, side by side, each on an instance of its own:               *)
(*   "startup"  InitWizard with the plugins of terraci that differ in how  *)
(*              they are switched on, and configurations with one thing    *)
(*              wrong each;                                                *)
(*   "update"   DependencyUpdate with one module whose constraints, lock   *)
(*              file and calls vary, and a second that needs one provider  *)
(*              or cannot be read.                                         *)
(* While one half is checked the other stays in an initial state.          *)
(***************************************************************************)
EXTENDS InitWizard, DependencyUpdate

CONSTANTS
  Parts,   \* the halves that are checked
  a, b     \* the modules of an update

VARIABLE part

-----------------------------------------------------------------------------
(* Startup: plugins, files and commands *)

factory(name, mode, caps) ==
  [name |-> name, mode |-> mode, valid |-> TRUE, caps |-> {"config", "preflight"} \cup caps]
mcFactories ==
  <<factory("cost", "explicit", {"contributes", "init"}),
    factory("github", "configured", {"ci", "init"}),
    factory("gitlab", "configured", {"ci", "init"}),
    factory("policy", "explicit", {"contributes", "init"}),
    factory("summary", "default", {"contributes", "init"}),
    factory("tfupdate", "explicit", {"contributes", "gate", "init"})>>
mcConfigNames == <<".terraci.yaml", "terraci.yml">>

config(pattern, extensions) == yaml([binary |-> "terraform", pattern |-> pattern, extensions |-> extensions])
off == [NoDocument EXCEPT !.on = FALSE]
invalid == [NoDocument EXCEPT !.valid = FALSE]
undecodable == [NoDocument EXCEPT !.decodes = FALSE]
mcContents ==
  {config("bad", [x \in {} |-> off]),
   config("ok", ("gitlab" :> [NoDocument EXCEPT !.image = "own"]) @@ ("github" :> NoDocument) @@ ("summary" :> undecodable)),
   config("ok", ("gitlab" :> [NoDocument EXCEPT !.image = "own"]) @@ ("github" :> NoDocument) @@ ("policy" :> invalid)),
   config("ok", ("policy" :> [invalid EXCEPT !.on = FALSE]) @@ ("unknown" :> undecodable) @@
                ("tfupdate" :> [NoDocument EXCEPT !.pipeline = TRUE, !.bump = "major"]))}

mcEnvironments == {[provider |-> "", detected |-> {"gitlab"}, terminal |-> TRUE],
                   [provider |-> "github", detected |-> {}, terminal |-> FALSE]}
mcAsked == {"provider", "gitlab.image", "summary.enabled", "policy.enabled", "tfupdate.enabled", "tfupdate.bump", "tfupdate.pipeline"}

request(command) == [command |-> command, config |-> "", skipConfig |-> FALSE, skipPreflight |-> FALSE,
                     force |-> FALSE, flags |-> {}]
flags(provider, binary, pattern) == {[provider |-> provider, binary |-> binary, pattern |-> pattern]}
mcInits ==
  {[request("init") EXCEPT !.force = f] : f \in BOOLEAN}
    \cup {[request("init") EXCEPT !.force = TRUE, !.flags = fl] : fl \in {flags("github", "tofu", ""), flags("", "", "bad")}}
mcRequests ==
  {request(c) : c \in {"generate", "policy", "tfupdate"}} \cup mcInits
  \cup {[request("version") EXCEPT !.skipConfig = TRUE],
        [request("validate") EXCEPT !.skipPreflight = TRUE, !.config = "terraci.yml"]}

-----------------------------------------------------------------------------
(* Update: modules, registry and disks *)

mcModules == <<a, b>>
mcProviders == <<"aws", "null">>
mcProviderVersions ==
  ("aws" :> {V(5, 0, 0), V(5, 1, 0), V(5, 1, 2), V(5, 2, 0), V(6, 0, 0), <<6, 1, 0, 0>>})
    @@ ("null" :> {V(3, 0, 0), V(3, 1, 0)})
mcModuleVersions ==
  ("vpc" :> {V(1, 0, 0), V(1, 1, 0), V(1, 2, 0), <<2, 0, 0, 0>>}) @@ ("rds" :> {V(1, 0, 0), V(1, 1, 0)})

gte(v) == <<Term(">=", v, 2)>>
pessimistic(v, parts) == <<Term("~>", v, parts)>>
need(s, v) == [source |-> s, constraint |-> gte(v)]
within(s, v) == [source |-> s, constraint |-> pessimistic(v, 3)]
mcModuleDeps ==
  (<<"vpc", V(1, 0, 0)>> :> {need("aws", V(5, 0, 0))})
    @@ (<<"vpc", V(1, 1, 0)>> :> {need("aws", V(5, 1, 0)), need("null", V(3, 0, 0))})
    @@ (<<"vpc", V(1, 2, 0)>> :> {need("aws", V(6, 0, 0))})
    @@ (<<"vpc", <<2, 0, 0, 0>>>> :> {})
    @@ (<<"rds", V(1, 0, 0)>> :> {within("aws", V(5, 1, 0))})
    @@ (<<"rds", V(1, 1, 0)>> :> {within("aws", V(5, 0, 0))})
mcPlatforms == ("aws" :> {"linux", "darwin"}) @@ ("null" :> {"linux"})
mcSummed == ("aws" :> {"linux", "darwin"}) @@ ("null" :> {})

entry(v) == [version |-> v, constraint |-> <<>>, hashes |-> {}]
net(constraint) == [name |-> "net", source |-> "vpc", constraint |-> constraint]
db == [name |-> "db", source |-> "rds", constraint |-> pessimistic(V(1, 0, 0), 2)]
require(constraint) == [source |-> "aws", constraint |-> constraint]
onDisk(tf, calls, required, aws, null) ==
  [tf |-> tf, calls |-> calls, required |-> required, locked |-> "ok", lock |-> ("aws" :> aws) @@ ("null" :> null)]

awsConstraints ==
  {pessimistic(V(5, 0, 0), 2), pessimistic(V(5, 1, 0), 3), <<Term(">=", V(5, 0, 0), 2), Term("<", V(5, 2, 0), 2)>>,
   gte(V(5, 0, 0)), <<Term("=", V(5, 0, 0), 3)>>}
mcDisks ==
  {(a :> onDisk("ok", calls, <<require(c)>>, l[1], l[2])) @@ (b :> other) :
     calls \in {<<>>, <<net(pessimistic(V(1, 0, 0), 2))>>, <<net(<<Term("=", V(1, 1, 0), 3)>>)>>,
                <<net(pessimistic(V(1, 0, 0), 2)), db>>},
     c \in awsConstraints,
     l \in {<<NoEntry, NoEntry>>, <<entry(V(5, 1, 0)), entry(V(3, 0, 0))>>},
     other \in {onDisk("ok", <<>>, <<require(pessimistic(V(5, 0, 0), 2))>>, NoEntry, NoEntry),
                onDisk("unreadable", <<>>, <<>>, NoEntry, NoEntry)}}

settings(target, bump, pin, ignore) ==
  [target |-> target, bump |-> bump, pin |-> pin, ignore |-> ignore, platforms |-> {"linux"}, write |-> TRUE]
mcConfigs ==
  {settings("all", "minor", FALSE, {}), settings("all", "major", TRUE, {"vpc"}),
   settings("modules", "major", TRUE, {}), settings("providers", "patch", FALSE, {}),
   [settings("all", "patch", FALSE, {}) EXCEPT !.write = FALSE]}

-----------------------------------------------------------------------------
CommandsInit ==
  \/ /\ part \in Parts \cap {"startup"}
     /\ disk = CHOOSE d \in Disks : TRUE
     /\ cfg = CHOOSE c \in Configs : TRUE
     /\ Init /\ AppInit
  \/ /\ part \in Parts \cap {"update"}
     /\ file = [n \in Range(ConfigNames) |-> NoFile]
     /\ env = CHOOSE e \in Environments : TRUE
     /\ AppInit /\ Init

CommandsNext ==
  \/ part = "startup" /\ AppNext /\ UNCHANGED <<part, vars>>
  \/ part = "update" /\ Next /\ UNCHANGED <<part, appVars>>

CommandsSpec == CommandsInit /\ [][CommandsNext]_<<part, vars, appVars>>
=============================================================================
