------------------------ MODULE DependencyExtraction ------------------------
(***************************************************************************)
(* Engine.ExtractAllDependencies: from the HCL files of the indexed        *)
(* modules to the edges of the dependency graph.  Two errgroups of bounded *)
(* size run one after the other.  The first parses every module and        *)
(* records its backend, the second resolves its remote states; both take   *)
(* the parsed module from a shared cache, and both publish under a mutex.  *)
(*                                                                         *)
(* files is what the repository says:                                      *)
(*   backend   per module, its backend block or NoBackend                  *)
(*   refs      per module, its terraform_remote_state blocks, in order     *)
(*   calls     per module, the local directories its module blocks name    *)
(*   broken    the modules whose directory cannot be loaded                *)
(*   flaky     whether loading another one may fail too                    *)
(* A block is [name, type, bucket, keyed, forEach, values]: its backend    *)
(* type and bucket ("" when absent or not evaluable), whether it has a key *)
(* or a prefix, and what that expression evaluates to, once or per element *)
(* of for_each.  A for_each that does not evaluate makes the whole block a *)
(* single value that does not.                                             *)
(***************************************************************************)
EXTENDS DependencyMatching, FiniteSets

CONSTANTS
  Order,        \* the modules in index order
  Repos,        \* the values of files considered
  Limit,        \* maxConcurrentExtractions
  Cancellable   \* whether the caller may cancel its context

NoBackend   == [type |-> "", bucket |-> "", key |-> <<>>]
NoPath      == <<>>
Unevaluable == <<"(unknown)">>
\* The source text of the expression, which ExtractTemplate falls back to.  It
\* names no module, whether ContainsDynamicPattern says so or not.
Dynamic     == <<"${each.value}">>

ASSUME ExtractionAssumption ==
  /\ Limit \in Nat \ {0}
  /\ Cancellable \in BOOLEAN
  /\ \A i, j \in DOMAIN Order : Order[i] = Order[j] => i = j
  /\ Order \in Seq(Modules) /\ ToSet(Order) = Modules
  /\ \A f \in Repos :
       /\ f.broken \subseteq Modules
       /\ f.flaky \in BOOLEAN
       /\ \A m \in Modules : \A r \in DOMAIN f.refs[m] : \A p \in ToSet(f.refs[m][r].values) :
            p \in Seq(STRING) /\ p # <<>>

VARIABLES
  files,
  ctxDone,    \* the context is cancelled
  pass,       \* "index", "extract", "done"
  next,       \* the position in Order of the next module to start
  worker,     \* per module, the goroutine of this pass: "none", "started",
              \* "parsed", "failed"
  cache,      \* the modules in parsedModuleCache.items
  items,      \* backendModuleIndex.items
  results,    \* dependencyCollectionBuilder: per module, what it depends on
  errors      \* and what went wrong

vars == <<files, ctxDone, pass, next, worker, cache, items, results, errors>>

NoFunction == [x \in {} |-> NoTarget]

Init ==
  /\ files \in Repos
  /\ ctxDone = FALSE
  /\ pass = "index"
  /\ next = 1
  /\ worker = [m \in Modules |-> "none"]
  /\ cache = {}
  /\ items = NoFunction
  /\ results = NoFunction
  /\ errors = {}

-----------------------------------------------------------------------------
(* One remote state block.                                                  *)

\* Parser.ResolveWorkspacePath: an element of for_each whose path does not
\* evaluate is left out; a single path that does not is taken as it is
\* written.
ResolveWorkspacePath(ref) ==
  IF ref.forEach THEN ToSet(ref.values) \ {Unevaluable}
  ELSE {IF v = Unevaluable THEN Dynamic ELSE v : v \in ToSet(ref.values)}

\* remoteStateTargetResolver.Resolve, with the backend index idx.
Resolve(idx, m, ref, path) ==
  LET target == MatchPathToModule(path, m)
  IN  IF target # NoTarget THEN target ELSE MatchByBackend(idx, ref.type, ref.bucket, path)

keyedRefs(f, m) == {r \in DOMAIN f.refs[m] : f.refs[m][r].keyed}

\* The paths of m's blocks, each with the block it is from.
pathsOf(f, m) ==
  UNION {{<<r, p>> : p \in ResolveWorkspacePath(f.refs[m][r])} : r \in keyedRefs(f, m)}

\* dependencySession.Run over parsed files: collectDependsOnIDs keeps one of
\* each target, and every path without one becomes an error.
targetOf(f, idx, m, x) ==
  IF x[2] = Dynamic THEN NoTarget ELSE Resolve(idx, m, f.refs[m][x[1]], x[2])

SessionResult(f, idx, m) ==
  [dependsOn |-> {targetOf(f, idx, m, x) : x \in pathsOf(f, m)} \ {NoTarget},
   libraries |-> f.calls[m]]

SessionErrors(f, idx, m) ==
  {<<m, r, NoPath>> : r \in DOMAIN f.refs[m] \ keyedRefs(f, m)}
    \cup {<<m, x[1], x[2]>> : x \in {x \in pathsOf(f, m) : targetOf(f, idx, m, x) = NoTarget}}

ParseError(m) == <<m, 0, NoPath>>

-----------------------------------------------------------------------------
(* The two passes.                                                          *)

running == {m \in Modules : worker[m] # "none"}

\* group.Go: blocks while Limit goroutines are running.
Start ==
  /\ pass # "done"
  /\ next <= Len(Order)
  /\ Cardinality(running) < Limit
  /\ worker' = [worker EXCEPT ![Order[next]] = "started"]
  /\ next' = next + 1
  /\ UNCHANGED <<files, ctxDone, pass, cache, items, results, errors>>

\* parsedModuleCache.Get.  Only a success is remembered.
Get(m) ==
  /\ worker[m] = "started"
  /\ \/ /\ m \in cache
        /\ worker' = [worker EXCEPT ![m] = "parsed"]
        /\ UNCHANGED cache
     \/ /\ m \notin cache
        /\ ~ctxDone
        /\ m \notin files.broken
        /\ worker' = [worker EXCEPT ![m] = "parsed"]
        /\ cache' = cache \cup {m}
     \/ /\ m \notin cache
        /\ ctxDone \/ m \in files.broken \/ files.flaky
        /\ worker' = [worker EXCEPT ![m] = "failed"]
        /\ UNCHANGED cache
  /\ UNCHANGED <<files, ctxDone, pass, next, items, results, errors>>

\* The rest of a goroutine of backendModuleIndex.Build.
IndexBackend(m) ==
  LET key == BackendIndexKey(files.backend[m], m)
  IN  /\ pass = "index"
      /\ worker[m] \in {"parsed", "failed"}
      /\ worker' = [worker EXCEPT ![m] = "none"]
      /\ items' = IF worker[m] = "failed" \/ key = NoIndexKey THEN items
                  ELSE [k \in DOMAIN items \cup {key} |-> IF k = key THEN m ELSE items[k]]
      /\ UNCHANGED <<files, ctxDone, pass, next, cache, results, errors>>

\* Mutant: a module that failed to parse leaves no error.
CollectQuietly(m) ==
  /\ pass = "extract"
  /\ worker[m] \in {"parsed", "failed"}
  /\ worker' = [worker EXCEPT ![m] = "none"]
  /\ IF worker[m] = "failed" THEN UNCHANGED <<results, errors>>
     ELSE /\ results' = [n \in DOMAIN results \cup {m} |->
                           IF n = m THEN SessionResult(files, items, m) ELSE results[n]]
          /\ errors' = errors \cup SessionErrors(files, items, m)
  /\ UNCHANGED <<files, ctxDone, pass, next, cache, items>>

\* Mutant: the errors of a session are not appended.
CollectResultOnly(m) ==
  /\ pass = "extract"
  /\ worker[m] \in {"parsed", "failed"}
  /\ worker' = [worker EXCEPT ![m] = "none"]
  /\ IF worker[m] = "failed" THEN errors' = errors \cup {ParseError(m)} /\ UNCHANGED results
     ELSE /\ results' = [n \in DOMAIN results \cup {m} |->
                           IF n = m THEN SessionResult(files, items, m) ELSE results[n]]
          /\ UNCHANGED errors
  /\ UNCHANGED <<files, ctxDone, pass, next, cache, items>>

\* The rest of a goroutine of resultCollector.run: the session, and
\* dependencyCollectionBuilder.Add.
Collect(m) ==
  /\ pass = "extract"
  /\ worker[m] \in {"parsed", "failed"}
  /\ worker' = [worker EXCEPT ![m] = "none"]
  /\ \/ /\ worker[m] = "failed"
        /\ errors' = errors \cup {ParseError(m)}
        /\ UNCHANGED results
     \/ /\ worker[m] = "parsed"
        /\ results' = [n \in DOMAIN results \cup {m} |->
                         IF n = m THEN SessionResult(files, items, m) ELSE results[n]]
        /\ errors' = errors \cup SessionErrors(files, items, m)
  /\ UNCHANGED <<files, ctxDone, pass, next, cache, items>>

\* Mutant: the second pass does not wait for the first.
EndPassAtOnce ==
  /\ pass # "done"
  /\ next > Len(Order)
  /\ pass = "extract" => running = {}
  /\ \/ pass = "index" /\ pass' = "extract" /\ next' = 1
     \/ pass = "extract" /\ pass' = "done" /\ UNCHANGED next
  /\ UNCHANGED <<files, ctxDone, worker, cache, items, results, errors>>

\* group.Wait returns.
EndPass ==
  /\ pass # "done"
  /\ next > Len(Order)
  /\ running = {}
  /\ \/ pass = "index" /\ pass' = "extract" /\ next' = 1
     \/ pass = "extract" /\ pass' = "done" /\ UNCHANGED next
  /\ UNCHANGED <<files, ctxDone, worker, cache, items, results, errors>>

Cancel ==
  /\ Cancellable
  /\ ~ctxDone
  /\ pass # "done"
  /\ ctxDone' = TRUE
  /\ UNCHANGED <<files, pass, next, worker, cache, items, results, errors>>

Step == Start \/ EndPass \/ \E m \in Modules : Get(m) \/ IndexBackend(m) \/ Collect(m)

Next == Step \/ Cancel

\* The goroutines are computations; nothing they do waits for the world.
Spec == Init /\ [][Next]_vars /\ WF_vars(Step)
-----------------------------------------------------------------------------
(* What the files say, without reference to the order of anything.          *)

\* Where t keeps its state, within the bucket of its backend block.
stateOf(t) ==
  IF files.backend[t].key = <<>> THEN t ELSE NormalizeStatePath(files.backend[t].key)

\* The modules whose backend block says that they keep their state there.
Owners(type, bucket, state) ==
  {t \in Modules \ files.broken :
     /\ files.backend[t].bucket # ""
     /\ files.backend[t].type = type /\ files.backend[t].bucket = bucket
     /\ stateOf(t) = state}

EndsWith(path, end) == \E k \in 1..Len(path) + 1 : end = SubSeq(path, k, Len(path))

\* t may be meant by path p of block ref in m: p is t's path, perhaps with more
\* in front, or the end of it seen from the same context, or t owns the state.
MayMean(m, ref, p, t) ==
  LET path == NormalizeStatePath(p)
  IN  \/ EndsWith(path, t)
      \/ EndsWith(t, path) /\ ContextPrefix(t) = ContextPrefix(m)
      \/ t \in Owners(ref.type, ref.bucket, path)

KeysAreDistinct ==
  \A t \in Modules \ files.broken :
    LET b == files.backend[t]
    IN  b.bucket # "" => Owners(b.type, b.bucket, stateOf(t)) = {t}

\* The backend index of every module that can be loaded.
FullIndex ==
  LET keyOf(t) == BackendIndexKey(files.backend[t], t)
      owners   == {t \in Modules \ files.broken : keyOf(t) # NoIndexKey}
  IN  [k \in {keyOf(t) : t \in owners} |-> CHOOSE t \in owners : keyOf(t) = k]

Complete == results = [m \in Modules \ files.broken |-> SessionResult(files, FullIndex, m)]

(* Properties *)

\* No goroutine outlives its pass, the index holds modules under their own keys
\* (backend_index.go:38-44), and results are of parsed modules.
TypeOK ==
  /\ files \in Repos
  /\ pass \in {"index", "extract", "done"}
  /\ next \in 1..Len(Order) + 1
  /\ worker \in [Modules -> {"none", "started", "parsed", "failed"}]
  /\ cache \subseteq Modules \ files.broken
  /\ \A k \in DOMAIN items : items[k] \in Modules
  /\ DOMAIN results \subseteq cache
  /\ Cardinality(running) <= Limit

\* An edge is there because the files of its source name its target: by path, or
\* by a backend key that is really the target's, whatever the order in which
\* the index was filled (session.go:160-186, backend_index.go:34-45).
EdgesAreJustified ==
  \A m \in DOMAIN results : \A t \in results[m].dependsOn :
    \E r \in DOMAIN files.refs[m] : \E p \in ToSet(files.refs[m][r].values) :
      MayMean(m, files.refs[m][r], p, t)

\* Every remote state that has a path ends up as an edge or as an error, and a
\* module without a result has an error, also when loading fails in one pass and
\* not in the other, and when the caller cancels (results.go:101-113).
NothingSilentlyDropped ==
  pass = "done" =>
    \A m \in Modules :
      \/ ParseError(m) \in errors
      \/ /\ m \in DOMAIN results
         /\ \A r \in DOMAIN files.refs[m] :
              LET ref == files.refs[m][r]
              IN  IF ~ref.keyed THEN <<m, r, NoPath>> \in errors
                  ELSE \A p \in ToSet(ref.values) :
                         \/ p = Unevaluable /\ (ref.forEach \/ <<m, r, Dynamic>> \in errors)
                         \/ <<m, r, p>> \in errors
                         \/ \E t \in results[m].dependsOn : MayMean(m, ref, p, t)

\* An extraction without warnings has found every edge, as long as no two modules
\* share a backend key: a failed or cancelled first pass cannot silently take
\* edges away (backend_index.go:35-37).
CleanMeansComplete == pass = "done" /\ errors = {} /\ KeysAreDistinct => Complete

\* When nothing fails the result is a function of the files: not of the order in
\* which goroutines start and finish (engine.go:46-65).
SameOnEveryRun ==
  pass = "done" /\ ~files.flaky /\ ~ctxDone /\ KeysAreDistinct =>
    /\ Complete
    /\ errors = {ParseError(m) : m \in files.broken}
                 \cup UNION {SessionErrors(files, FullIndex, m) : m \in Modules \ files.broken}

=============================================================================
