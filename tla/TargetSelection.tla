--------------------------- MODULE TargetSelection ---------------------------
(***************************************************************************)
(* workflow.PlanProject: from the directories of a repository and a git    *)
(* diff to the modules a pipeline is made for.                             *)
(*                                                                         *)
(* A directory is the sequence of its path elements.  A repository is      *)
(*   dirs         the directories below the root, in the order of the walk *)
(*   withoutTF    those of them that have no .tf files                     *)
(*   paths        library_modules.paths as configured; <<>> is the root    *)
(*   excluded     the directories the configured filters reject            *)
(*   remote       per directory, the directories its remote states name    *)
(*   calls        per directory, the local directories its module blocks   *)
(*                name, libraries calling libraries included               *)
(*   git          the checkout of GitHistory; its files are [dir, tf]: the *)
(*                directory and whether the file is terraform related      *)
(*   changedOnly, baseRef, modulePath   the request; NoRef and <<>> when   *)
(*                they are not given                                       *)
(* The ID of a module is its place in dirs, which is lexical order.        *)
(***************************************************************************)
EXTENDS DependencyGraph, GitHistory

CONSTANTS
  Repos,         \* the repositories with their requests
  SegmentCount   \* how many path elements the structure pattern has

ASSUME SelectionAssumption ==
  SegmentCount \in Nat /\ \A r \in Repos : DOMAIN r.dirs \subseteq IDs

VARIABLES
  repo,
  progress,  \* "scan", "extract", "detect", "resolve", "done", "failed"
  all,       \* result.All
  filtered,  \* result.Filtered
  G,         \* result.Graph
  changes,   \* ChangeDetectionResult: [modules, files, libraryPaths]
  targets

selectionVars == <<repo, progress, all, filtered, G, changes, targets>>

dirOf(m) == repo.dirs[m]

\* pathpkg.Dir, applied any number of times.
ancestors(dir) == {SubSeq(dir, 1, k) : k \in 0..Len(dir)}

\* Names that begin with a dot, and what an absolute path begins with
HiddenNames == {".terraform"}
slash == "/"

\* The walk of Scan meets every directory below the root once, its parents
\* with it; paths relative to the root name neither it nor what is outside.
\* Configured paths and changed files are paths like those.
ASSUME WalkAssumption ==
  \A r \in Repos :
    /\ r.dirs \in Seq(Seq(STRING) \ {<<>>})
    /\ \A m \in DOMAIN r.dirs :
         /\ r.dirs[m][1] \notin {slash, ".."}
         /\ \A k \in 1..Len(r.dirs[m]) : \E n \in DOMAIN r.dirs : r.dirs[n] = SubSeq(r.dirs[m], 1, k)
         /\ \A n \in DOMAIN r.dirs : r.dirs[m] = r.dirs[n] => m = n
    /\ r.paths \subseteq Seq(STRING)
    /\ \A c \in DOMAIN r.git.trees : \A f \in DOMAIN r.git.trees[c] : f.dir \in Seq(STRING) /\ f.tf \in BOOLEAN
    /\ openRepo(r.git) # {} => r.git.head \in DOMAIN r.git.trees

\* cleanLibraryPaths: no absolute path, none that leaves the repository, and
\* not the repository itself
cleanLibraryPaths(paths) == {p \in paths : p # <<>> /\ p[1] \notin {slash, ".."}}

\* moduleCollector.matchesLibraryPath
isLibrary(m) == \E root \in cleanLibraryPaths(repo.paths) : IsPrefix(root, dirOf(m))

\* The walk does not enter hidden directories.
shouldSkipDir(dir) == \E k \in DOMAIN dir : dir[k] \in HiddenNames
isTerraformDir(dir) == dir \notin repo.withoutTF

\* moduleCollector.visit: a library is registered at any depth.
visitDir(m) ==
  /\ ~shouldSkipDir(dirOf(m))
  /\ isTerraformDir(dirOf(m))
  /\ isLibrary(m) \/ Len(dirOf(m)) >= SegmentCount

\* mergedFilterOptions(...).Compile() followed by Matches
matches(m) == dirOf(m) \notin repo.excluded

SelectionInit ==
  /\ repo \in Repos
  /\ progress = "scan"
  /\ all = {}
  /\ filtered = {}
  /\ G = NewDependencyGraph
  /\ changes = [modules |-> {}, files |-> {}, libraryPaths |-> {}]
  /\ targets = {}

\* Scanner.Scan, splitLibraries and filter.Apply.
Scan ==
  /\ progress = "scan"
  /\ all' = {m \in DOMAIN repo.dirs : visitDir(m)}
  /\ filtered' = {m \in all' : ~isLibrary(m) /\ matches(m)}
  /\ progress' = IF all' = {} THEN "failed" ELSE "extract"
  /\ UNCHANGED <<repo, G, changes, targets>>

\* The dependencies of one module: a remote state is matched against the
\* filtered modules only; every local module call counts as library usage.
ExtractDependencies(m) ==
  LET known(dir) == \E n \in filtered : dirOf(n) = dir
  IN  [dependsOn |-> [i \in DOMAIN SelectSeq(repo.remote[dirOf(m)], known) |->
                        CHOOSE n \in filtered :
                          dirOf(n) = SelectSeq(repo.remote[dirOf(m)], known)[i]],
       libraries |-> repo.calls[dirOf(m)]]

\* ExtractAllDependencies and BuildFromDependencies over the filtered modules;
\* resolveTargets without a diff.
Extract ==
  /\ progress = "extract"
  /\ LET modules == SetToSortSeq(filtered, <)
     IN  G' = BuildFromDependencies(modules, [m \in filtered |-> ExtractDependencies(m)], modules)
  /\ IF repo.changedOnly THEN progress' = "detect" /\ UNCHANGED targets
     ELSE /\ targets' = {m \in filtered : repo.modulePath \in {<<>>, dirOf(m)}}
          /\ progress' = IF targets' = {} THEN "failed" ELSE "done"
  /\ UNCHANGED <<repo, all, filtered, changes>>

\* findOwningModule: the innermost module the directory lies in; 0 for none.
findOwningModule(dir) ==
  LET owners == {m \in all : dirOf(m) \in ancestors(dir)}
  IN  IF owners = {} THEN 0
      ELSE CHOOSE m \in owners : \A n \in owners : Len(dirOf(n)) <= Len(dirOf(m))

\* Mutant: only the module whose own directory has the file.
changedModuleExactly(files) ==
  {m \in all : \E file \in files : file.tf /\ dirOf(m) = file.dir}

filesToModules(files) ==
  {findOwningModule(file.dir) : file \in {f \in files : f.tf}} \ {0}

\* changedLibraryPath: the root, or the directory right below it.
changedLibraryPath(root, dir) == SubSeq(dir, 1, Len(root) + IF dir = root THEN 0 ELSE 1)

filesToLibraryPaths(files) ==
  {changedLibraryPath(p[1], p[2].dir) :
     p \in {q \in repo.paths \X files : q[2].tf /\ q[1] # <<>> /\ IsPrefix(q[1], q[2].dir)}}

\* A base that is not there, or a shallow clone, is an error.
DetectChanges ==
  /\ progress = "detect"
  /\ LET diffs == GetChangedFiles(repo.git, ResolveBaseRef(repo.git, repo.baseRef))
     IN  \/ diffs = {} /\ progress' = "failed" /\ UNCHANGED changes
         \/ \E files \in diffs :
              /\ changes' = [modules |-> filesToModules(files), files |-> files,
                             libraryPaths |-> filesToLibraryPaths(files)]
              /\ progress' = "resolve"
  /\ UNCHANGED <<repo, all, filtered, G, targets>>

\* The IDs resolveTargets collects before it looks at the filters.
affectedIDs ==
  LET withLibraries ==
        IF changes.libraryPaths = {} THEN {}
        ELSE GetAffectedModulesWithLibraries(G, changes.modules, changes.libraryPaths)
  IN  IF withLibraries = {} THEN GetAffectedModules(G, changes.modules) ELSE withLibraries

\* Mutant: the second pass takes whatever the filters let through.
ResolveLibrariesToo ==
  /\ progress = "resolve"
  /\ LET idSet    == affectedIDs \cup changes.modules
         selected == {m \in filtered : m \in idSet}
         others   == {m \in (all \ filtered) \ selected : m \in idSet /\ matches(m)}
     IN  targets' = {m \in selected \cup others : repo.modulePath \in {<<>>, dirOf(m)}}
  /\ progress' = "done"
  /\ UNCHANGED <<repo, all, filtered, G, changes>>

\* resolveAffectedModules: filtered modules first, then any other executable
\* module that was selected and passes the filters.
ResolveTargets ==
  /\ progress = "resolve"
  /\ LET idSet    == affectedIDs \cup changes.modules
         selected == {m \in filtered : m \in idSet}
         others   == {m \in (all \ filtered) \ selected : m \in idSet /\ ~isLibrary(m) /\ matches(m)}
     IN  targets' = {m \in selected \cup others : repo.modulePath \in {<<>>, dirOf(m)}}
  /\ progress' = "done"
  /\ UNCHANGED <<repo, all, filtered, G, changes>>

SelectionNext == Scan \/ Extract \/ DetectChanges \/ ResolveTargets

SelectionSpec == SelectionInit /\ [][SelectionNext]_selectionVars

-----------------------------------------------------------------------------
(* Reference definitions, from the repository alone.                        *)

HasModule  == {m \in DOMAIN repo.dirs : ToSet(dirOf(m)) \cap HiddenNames = {} /\ dirOf(m) \notin repo.withoutTF}
Roots      == {p \in repo.paths : \E m \in DOMAIN repo.dirs : p = dirOf(m)}
Libraries  == {m \in HasModule : \E root \in Roots : IsPrefix(root, dirOf(m))}
Executable == {m \in HasModule \ Libraries : Len(dirOf(m)) >= SegmentCount}
Runnable   == {m \in Executable : matches(m)}

ReadsState == {p \in Runnable \X Runnable : dirOf(p[2]) \in ToSet(repo.remote[dirOf(p[1])])}

\* <<m, n>>: m depends on n, directly or not.
DependsOn ==
  LET through(x, R) == R \cup {p \in Runnable \X Runnable : <<p[1], x>> \in R /\ <<x, p[2]>> \in R}
  IN  FoldSet(through, ReadsState, Runnable)

\* The file is in the module's directory or below it, in no other module.
contains(m, file) ==
  /\ IsPrefix(dirOf(m), file.dir)
  /\ \A n \in Executable \cup Libraries : IsPrefix(dirOf(n), file.dir) => Len(dirOf(n)) <= Len(dirOf(m))

\* "git diff --name-only main...HEAD" (docs/guide/git-integration.md:26): what
\* differs from where HEAD and the base have parted, or from the base when they
\* have nothing in common.  After criss-cross merges they have parted at
\* several commits, and any of them may be meant.
partings ==
  LET base   == CHOOSE c \in resolveRef(repo.git, ResolveBaseRef(repo.git, repo.baseRef)) : TRUE
      common == MergeBase(repo.git, base, repo.git.head)
  IN  IF common = {} THEN {base} ELSE common
differsFrom(c) == diffCommits(repo.git, c, repo.git.head)
surelyChanged   == {f \in UNION {differsFrom(c) : c \in partings} : \A c \in partings : f \in differsFrom(c)}
possiblyChanged == UNION {differsFrom(c) : c \in partings}

editedBy(files) == {m \in Runnable : \E file \in files : file.tf /\ contains(m, file)}

\* The module calls a directory below a library root in which, or below
\* which, a file has changed.
callsChanged(calls) ==
  \E file \in surelyChanged, call \in calls, root \in Roots :
    file.tf /\ IsStrictPrefix(root, call) /\ IsPrefix(call, file.dir)

\* What the module calls, and what the libraries it calls call in their turn.
usedBy(m) ==
  LET libraries == {dirOf(n) : n \in Libraries}
      through(dir, C) == IF dir \in C THEN C \cup ToSet(repo.calls[dir]) ELSE C
      more(i, C) == FoldSet(through, C, libraries)
  IN  FoldSet(more, ToSet(repo.calls[dirOf(m)]), Libraries)

Whole == progress = "done" /\ repo.changedOnly /\ repo.modulePath = <<>>

(* Properties *)

\* Whatever a filter excludes and whatever lies under a library root is never
\* run, on no way of selecting targets (targets.go:99-157, module_workflow.go:
\* 95-101): not as a dependent, a dependency, an edited module or by name.
OnlyRunnableSelected == progress = "done" => targets \subseteq Runnable

\* An edited module and every module that depends on it are selected
\* (detector.go:54-103, affected.go:10-22, targets.go:26-97).
EditedAndDependentsSelected ==
  Whole => \A m \in editedBy(surelyChanged) :
             m \in targets /\ \A n \in Runnable : <<n, m>> \in DependsOn => n \in targets

\* Every module with a module block for an edited library is selected, together
\* with what it depends on, whether the library sits right below the root or
\* deeper (detector.go:119-160, affected.go:25-65).  Only the module's own
\* blocks count here: module_workflow.go:119 has the filtered modules parsed
\* and no library, so the graph knows nothing of what libraries call, which
\* LibraryUsersSelected is about.
LibraryCallersSelected ==
  Whole => \A m \in Runnable : callsChanged(ToSet(repo.calls[dirOf(m)])) =>
             m \in targets /\ \A n \in Runnable : <<m, n>> \in DependsOn => n \in targets

\* "If kafka_acl library module uses kafka module internally, and you modify
\* kafka, all modules using kafka_acl will also be detected as affected"
\* (docs/config/filters.md:343).
LibraryUsersSelected ==
  Whole => \A m \in Runnable : callsChanged(usedBy(m)) => m \in targets

\* Changes are those of git diff base...HEAD: what has happened on the base
\* since HEAD has left it is none of them (docs/guide/git-integration.md:26,
\* client.go:157 "getMergeBase finds the common ancestor of two refs").
ChangedSinceParting ==
  progress \in {"resolve", "done"} /\ repo.changedOnly =>
    surelyChanged \subseteq changes.files /\ changes.files \subseteq possiblyChanged

\* Everything that is edited, depends on what is edited or itself calls an
\* edited library is selected.
AffectedSelected == EditedAndDependentsSelected /\ LibraryCallersSelected

\* Nothing is selected without a reason: every target is edited, needs or is
\* needed by an edited module, or is, or is needed by, a module that uses
\* something in the library an edited file belongs to, be it through another
\* library.
SelectedForAReason ==
  Whole =>
    LET R == DependsOn
        edited == editedBy(possiblyChanged)
        near(call) == \E root \in Roots, file \in possiblyChanged :
                        /\ file.tf /\ IsPrefix(root, file.dir)
                        /\ IsPrefix(SubSeq(file.dir, 1, Min({Len(file.dir), Len(root) + 1})), call)
        callers == {m \in Runnable : \E call \in usedBy(m) : near(call)}
    IN  \A m \in targets :
          \/ m \in edited \cup callers
          \/ \E n \in edited : <<m, n>> \in R \/ <<n, m>> \in R
          \/ \E n \in callers : <<n, m>> \in R

\* No module is selected that must not run, and none that the change does not
\* concern.
NothingElseSelected == OnlyRunnableSelected /\ SelectedForAReason
=============================================================================
