---------------------------- MODULE GenerateProofs ----------------------------
(***************************************************************************)
(* What generate and run guarantee, for every repository, project,         *)
(* configuration, history, set of plugins and number of pipelines. Of the  *)
(* selected targets: only modules that pass the filters, and each owner of *)
(* a changed file. Of the IR: a plan waits for what its module depends on, *)
(* and a plugin's job gets what it asks for. Of the runs of the generated  *)
(* pipeline: no job before the jobs it depends on, no job without its      *)
(* inputs, no two jobs of a module at once, none of a module while one it  *)
(* depends on is being applied.  Of local rounds: what is applied was      *)
(* planned in the round, and no report of the round is stale at its end.   *)
(***************************************************************************)
EXTENDS LocalRun, TargetSelection, SequenceLemmas

-----------------------------------------------------------------------------
(* Directories *)

\* What the walk of Scan gives, for one repository
LEMMA WalkFacts ==
  ASSUME NEW r \in Repos
  PROVE  /\ r.dirs \in Seq(Seq(STRING) \ {<<>>})
         /\ \A m \in DOMAIN r.dirs :
              /\ r.dirs[m] \in Seq(STRING) /\ r.dirs[m] # <<>>
              /\ r.dirs[m][1] \notin {slash, ".."}
              /\ \A k \in 1..Len(r.dirs[m]) : \E n \in DOMAIN r.dirs : r.dirs[n] = SubSeq(r.dirs[m], 1, k)
              /\ \A n \in DOMAIN r.dirs : r.dirs[m] = r.dirs[n] => m = n
              /\ m # 0
         /\ r.paths \subseteq Seq(STRING)
<1>1. /\ r.dirs \in Seq(Seq(STRING) \ {<<>>})
      /\ \A m \in DOMAIN r.dirs :
           /\ r.dirs[m][1] \notin {slash, ".."}
           /\ \A k \in 1..Len(r.dirs[m]) : \E n \in DOMAIN r.dirs : r.dirs[n] = SubSeq(r.dirs[m], 1, k)
           /\ \A n \in DOMAIN r.dirs : r.dirs[m] = r.dirs[n] => m = n
      /\ r.paths \subseteq Seq(STRING)
  BY WalkAssumption
<1>2. \A m \in DOMAIN r.dirs : r.dirs[m] \in Seq(STRING) /\ r.dirs[m] # <<>> /\ m # 0
  BY <1>1
<1>. QED
  BY <1>1, <1>2

\* A prefix of a directory that is not empty is the path of a directory.
LEMMA PrefixIsDirectory ==
  ASSUME NEW r \in Repos, NEW m \in DOMAIN r.dirs,
         NEW p \in Seq(STRING), p # <<>>, IsPrefix(p, r.dirs[m])
  PROVE  \E n \in DOMAIN r.dirs : p = r.dirs[n]
<1>1. r.dirs[m] \in Seq(STRING) /\ Len(r.dirs[m]) \in Nat
  BY WalkFacts
<1>2. Len(p) \in 1..Len(r.dirs[m])
  BY <1>1 DEF IsPrefix
<1>3. p = SubSeq(r.dirs[m], 1, Len(p))
  BY SubSeqFull DEF IsPrefix
<1>4. \A k \in 1..Len(r.dirs[m]) : \E n \in DOMAIN r.dirs : r.dirs[n] = SubSeq(r.dirs[m], 1, k)
  BY WalkFacts
<1>5. PICK n \in DOMAIN r.dirs : r.dirs[n] = SubSeq(r.dirs[m], 1, Len(p))
  BY <1>2, <1>4
<1>. QED
  BY <1>3, <1>5

\* The ancestors of a path are its prefixes.
LEMMA AncestorsArePrefixes ==
  ASSUME NEW d \in Seq(STRING), NEW p \in Seq(STRING)
  PROVE  p \in ancestors(d) <=> IsPrefix(p, d)
<1>1. Len(d) \in Nat /\ Len(p) \in Nat
  OBVIOUS
<1>2. ASSUME NEW k \in 0..Len(d), p = SubSeq(d, 1, k) PROVE IsPrefix(p, d)
  <2>1. Len(p) = k
    BY <1>2
  <2>. QED
    BY <1>1, <1>2, <2>1, SubSeqFull DEF IsPrefix
<1>3. IsPrefix(p, d) => Len(p) \in 0..Len(d) /\ p = SubSeq(d, 1, Len(p))
  BY <1>1, SubSeqFull DEF IsPrefix
<1>. QED
  BY <1>2, <1>3 DEF ancestors

\* A library is what lies at or below a configured root that is there: roots
\* the code cleans away are no directories of the repository.
LEMMA LibraryRoots ==
  ASSUME repo \in Repos, NEW m \in DOMAIN repo.dirs
  PROVE  isLibrary(m) <=> \E root \in Roots : IsPrefix(root, dirOf(m))
<1>1. ASSUME NEW root \in cleanLibraryPaths(repo.paths), IsPrefix(root, dirOf(m))
      PROVE  root \in Roots
  <2>1. root \in repo.paths /\ root # <<>> /\ root \in Seq(STRING)
    BY WalkFacts DEF cleanLibraryPaths
  <2>2. \E n \in DOMAIN repo.dirs : root = repo.dirs[n]
    BY <1>1, <2>1, PrefixIsDirectory DEF dirOf
  <2>. QED
    BY <2>1, <2>2 DEF Roots, dirOf
<1>2. ASSUME NEW root \in Roots
      PROVE  root \in cleanLibraryPaths(repo.paths)
  <2>1. PICK n \in DOMAIN repo.dirs : root = repo.dirs[n] /\ root \in repo.paths
    BY DEF Roots, dirOf
  <2>2. root # <<>> /\ root[1] \notin {slash, ".."}
    BY <2>1, WalkFacts
  <2>. QED
    BY <2>1, <2>2 DEF cleanLibraryPaths
<1>. QED
  BY <1>1, <1>2 DEF isLibrary

\* What Scan visits, told by the reference definitions
LEMMA VisitedModules ==
  ASSUME repo \in Repos, NEW m \in DOMAIN repo.dirs
  PROVE  /\ visitDir(m) => m \in Executable \cup Libraries
         /\ m \in Executable => visitDir(m) /\ ~isLibrary(m)
         /\ visitDir(m) /\ ~isLibrary(m) => m \in Executable
<1>1. m \in HasModule <=> ~shouldSkipDir(dirOf(m)) /\ isTerraformDir(dirOf(m))
  BY DEF HasModule, shouldSkipDir, isTerraformDir, ToSet
<1>2. m \in Libraries <=> m \in HasModule /\ isLibrary(m)
  BY LibraryRoots DEF Libraries
<1>. QED
  BY <1>1, <1>2 DEF visitDir, Executable

-----------------------------------------------------------------------------
(* The owner of a file *)

\* findOwningModule finds the module a file is in, by the reference definition.
LEMMA OwnerIsContainer ==
  ASSUME repo \in Repos, all = {n \in DOMAIN repo.dirs : visitDir(n)},
         NEW m \in Runnable, NEW file, file.dir \in Seq(STRING), contains(m, file)
  PROVE  findOwningModule(file.dir) = m
<1>. DEFINE owners == {n \in all : dirOf(n) \in ancestors(file.dir)}
<1>1. m \in DOMAIN repo.dirs /\ m \in Executable
  BY DEF Runnable, Executable, HasModule
<1>2. \A n \in DOMAIN repo.dirs : dirOf(n) \in Seq(STRING)
  BY WalkFacts DEF dirOf
<1>3. m \in owners
  <2>1. m \in all
    BY <1>1, VisitedModules
  <2>. QED
    BY <1>1, <1>2, <2>1, AncestorsArePrefixes DEF contains
<1>4. ASSUME NEW n \in owners
      PROVE  Len(dirOf(n)) <= Len(dirOf(m)) /\ n \in DOMAIN repo.dirs /\ IsPrefix(dirOf(n), file.dir)
  <2>1. n \in DOMAIN repo.dirs /\ n \in Executable \cup Libraries
    BY VisitedModules
  <2>2. IsPrefix(dirOf(n), file.dir)
    BY <1>2, <2>1, AncestorsArePrefixes
  <2>. QED
    BY <2>1, <2>2 DEF contains
<1>. DEFINE c == CHOOSE x \in owners : \A n \in owners : Len(dirOf(n)) <= Len(dirOf(x))
<1>5. c \in owners /\ \A n \in owners : Len(dirOf(n)) <= Len(dirOf(c))
  BY <1>3, <1>4
<1>6. Len(dirOf(c)) = Len(dirOf(m)) /\ c \in DOMAIN repo.dirs
  <2>1. Len(dirOf(c)) <= Len(dirOf(m)) /\ Len(dirOf(m)) <= Len(dirOf(c)) /\ c \in DOMAIN repo.dirs
    BY <1>3, <1>4, <1>5
  <2>2. Len(dirOf(c)) \in Nat /\ Len(dirOf(m)) \in Nat
    BY <1>1, <1>2, <2>1
  <2>. QED
    BY <2>1, <2>2
<1>7. dirOf(c) = dirOf(m)
  <2>1. IsPrefix(dirOf(c), file.dir) /\ IsPrefix(dirOf(m), file.dir)
    BY <1>3, <1>4, <1>5
  <2>2. /\ SubSeq(dirOf(c), 1, Len(dirOf(c))) = SubSeq(file.dir, 1, Len(dirOf(c)))
        /\ SubSeq(dirOf(m), 1, Len(dirOf(m))) = SubSeq(file.dir, 1, Len(dirOf(m)))
    BY <2>1 DEF IsPrefix
  <2>3. /\ SubSeq(dirOf(c), 1, Len(dirOf(c))) = dirOf(c)
        /\ SubSeq(dirOf(m), 1, Len(dirOf(m))) = dirOf(m)
    BY <1>1, <1>2, <1>6, SubSeqFull
  <2>. QED
    BY <1>6, <2>2, <2>3
<1>8. c = m
  BY <1>1, <1>6, <1>7, WalkFacts DEF dirOf
<1>. QED
  BY <1>3, <1>8 DEF findOwningModule

-----------------------------------------------------------------------------
(* What is known at every stage *)

Stages == {"scan", "extract", "detect", "resolve", "done", "failed"}

SelectionInv ==
  /\ repo \in Repos /\ progress \in Stages
  /\ progress # "scan" =>
       /\ all = {m \in DOMAIN repo.dirs : visitDir(m)}
       /\ filtered = Runnable
  /\ progress \in {"detect", "resolve"} => repo.changedOnly
  /\ progress = "resolve" \/ (progress = "done" /\ repo.changedOnly) =>
       /\ changes.modules = filesToModules(changes.files)
       /\ \A f \in changes.files : f.dir \in Seq(STRING) /\ f.tf \in BOOLEAN
  /\ progress = "done" =>
       /\ targets \subseteq {m \in Runnable : repo.modulePath \in {<<>>, dirOf(m)}}
       /\ \A m \in Runnable :
            /\ repo.modulePath \in {<<>>, dirOf(m)}
            /\ ~repo.changedOnly \/ m \in changes.modules
            => m \in targets

LEMMA InvInit == ASSUME SelectionInit PROVE SelectionInv
BY DEF SelectionInit, SelectionInv, Stages

LEMMA ScanKeepsInv == ASSUME SelectionInv, Scan PROVE SelectionInv'
<1>. USE DEF SelectionInv, Stages
<1>1. /\ repo \in Repos /\ repo' = repo /\ progress = "scan" /\ progress' \in {"extract", "failed"}
      /\ all' = {m \in DOMAIN repo.dirs : visitDir(m)}
      /\ filtered' = {m \in all' : ~isLibrary(m) /\ matches(m)}
  BY DEF Scan
<1>2. filtered' = Runnable
  <2>1. ASSUME NEW m PROVE m \in filtered' <=> m \in Runnable
    <3>1. m \in Runnable => m \in DOMAIN repo.dirs /\ m \in Executable /\ matches(m)
      BY DEF Runnable, Executable, HasModule
    <3>2. m \in filtered' <=> m \in DOMAIN repo.dirs /\ visitDir(m) /\ ~isLibrary(m) /\ matches(m)
      BY <1>1
    <3>3. m \in DOMAIN repo.dirs => (visitDir(m) /\ ~isLibrary(m) <=> m \in Executable)
      BY <1>1, VisitedModules
    <3>. QED
      BY <3>1, <3>2, <3>3 DEF Runnable
  <2>. QED
    BY <1>1, <2>1 DEF Runnable
<1>3. Runnable' = Runnable /\ \A m : visitDir(m)' = visitDir(m)
  BY <1>1 DEF Runnable, Executable, HasModule, Libraries, Roots, dirOf, matches, visitDir,
              isLibrary, shouldSkipDir, isTerraformDir, cleanLibraryPaths
<1>. QED
  BY <1>1, <1>2, <1>3

\* The definitions that read nothing but the repository
LEMMA SameRepository ==
  ASSUME repo' = repo
  PROVE  Runnable' = Runnable /\ \A m : visitDir(m)' = visitDir(m) /\ dirOf(m)' = dirOf(m)
BY DEF Runnable, Executable, HasModule, Libraries, Roots, dirOf, matches, visitDir,
       isLibrary, shouldSkipDir, isTerraformDir, cleanLibraryPaths

\* And those that read the modules found as well
LEMMA SameOwners ==
  ASSUME repo' = repo, all' = all
  PROVE  \A files : filesToModules(files)' = filesToModules(files)
<1>1. \A dir : findOwningModule(dir)' = findOwningModule(dir)
  BY DEF findOwningModule, dirOf
<1>. QED
  BY <1>1 DEF filesToModules

LEMMA ExtractKeepsInv == ASSUME SelectionInv, Extract PROVE SelectionInv'
<1>1. /\ repo' = repo /\ all' = all /\ filtered' = filtered /\ changes' = changes
      /\ progress = "extract" /\ repo \in Repos /\ filtered = Runnable
  BY DEF Extract, SelectionInv
<1>2. \/ repo.changedOnly /\ progress' = "detect"
      \/ /\ ~repo.changedOnly /\ progress' \in {"done", "failed"}
         /\ targets' = {m \in filtered : repo.modulePath \in {<<>>, dirOf(m)}}
  BY DEF Extract
<1>. QED
  BY <1>1, <1>2, SameRepository DEF SelectionInv, Stages

\* The files of a diff are files of the commit that is checked out.
LEMMA DiffedFiles ==
  ASSUME NEW r \in Repos, NEW base, NEW files \in GetChangedFiles(r.git, base), NEW f \in files
  PROVE  f.dir \in Seq(STRING) /\ f.tf \in BOOLEAN
<1>1. openRepo(r.git) # {} /\ \E b : files = diffCommits(r.git, b, r.git.head)
  BY DEF GetChangedFiles
<1>2. r.git.head \in DOMAIN r.git.trees /\ f \in DOMAIN r.git.trees[r.git.head]
  BY <1>1, WalkAssumption DEF diffCommits
<1>. QED
  BY <1>2, WalkAssumption

LEMMA DetectKeepsInv == ASSUME SelectionInv, DetectChanges PROVE SelectionInv'
<1>1. /\ repo' = repo /\ all' = all /\ filtered' = filtered /\ targets' = targets
      /\ progress = "detect" /\ repo \in Repos /\ filtered = Runnable /\ repo.changedOnly
      /\ progress' \in {"failed", "resolve"}
  BY DEF DetectChanges, SelectionInv
<1>2. ASSUME progress' = "resolve"
      PROVE  /\ changes'.modules = filesToModules(changes'.files)
             /\ \A f \in changes'.files : f.dir \in Seq(STRING) /\ f.tf \in BOOLEAN
  <2>1. PICK files \in GetChangedFiles(repo.git, ResolveBaseRef(repo.git, repo.baseRef)) :
          changes' = [modules |-> filesToModules(files), files |-> files,
                      libraryPaths |-> filesToLibraryPaths(files)]
    BY <1>2 DEF DetectChanges
  <2>2. changes'.modules = filesToModules(files) /\ changes'.files = files
    BY <2>1
  <2>3. \A f \in files : f.dir \in Seq(STRING) /\ f.tf \in BOOLEAN
    BY <1>1, DiffedFiles
  <2>. QED
    BY <2>2, <2>3
<1>3. \A files : filesToModules(files)' = filesToModules(files)
  BY <1>1, SameOwners
<1>. QED
  BY <1>1, <1>2, <1>3, SameRepository DEF SelectionInv, Stages

LEMMA ResolveKeepsInv == ASSUME SelectionInv, ResolveTargets PROVE SelectionInv'
<1>1. /\ repo' = repo /\ all' = all /\ filtered' = filtered /\ changes' = changes
      /\ progress = "resolve" /\ progress' = "done" /\ repo \in Repos
      /\ all = {m \in DOMAIN repo.dirs : visitDir(m)} /\ filtered = Runnable /\ repo.changedOnly
  BY DEF ResolveTargets, SelectionInv
<1>. DEFINE idSet    == affectedIDs \cup changes.modules
            selected == {m \in filtered : m \in idSet}
            others   == {m \in (all \ filtered) \ selected : m \in idSet /\ ~isLibrary(m) /\ matches(m)}
<1>2. targets' = {m \in selected \cup others : repo.modulePath \in {<<>>, dirOf(m)}}
  BY DEF ResolveTargets
<1>3. others \subseteq Runnable
  <2>1. \A m \in others : m \in DOMAIN repo.dirs /\ visitDir(m) /\ ~isLibrary(m) /\ matches(m)
    BY <1>1
  <2>. QED
    BY <1>1, <2>1, VisitedModules DEF Runnable
<1>4. targets' \subseteq {m \in Runnable : repo.modulePath \in {<<>>, dirOf(m)}}
  BY <1>1, <1>2, <1>3
<1>5. \A m \in Runnable : repo.modulePath \in {<<>>, dirOf(m)} /\ m \in changes.modules => m \in targets'
  BY <1>1, <1>2
<1>6. filesToModules(changes.files)' = filesToModules(changes.files)
  BY <1>1, SameOwners
<1>7. (progress = "resolve") =>
        /\ changes.modules = filesToModules(changes.files)
        /\ \A f \in changes.files : f.dir \in Seq(STRING) /\ f.tf \in BOOLEAN
  BY DEF SelectionInv
<1>. HIDE DEF idSet, selected, others
<1>8. Runnable' = Runnable /\ (\A m : visitDir(m)' = visitDir(m) /\ dirOf(m)' = dirOf(m))
  BY <1>1, SameRepository
<1>9. /\ (repo \in Repos)' /\ (progress \in Stages)' /\ (filtered = Runnable)'
      /\ (all = {m \in DOMAIN repo.dirs : visitDir(m)})'
      /\ progress' \notin {"detect", "resolve"}
  BY <1>1, <1>8 DEF Stages
<1>10. /\ (changes.modules = filesToModules(changes.files))'
       /\ (\A f \in changes.files : f.dir \in Seq(STRING) /\ f.tf \in BOOLEAN)'
  BY <1>1, <1>6, <1>7
<1>11. /\ (targets \subseteq {m \in Runnable : repo.modulePath \in {<<>>, dirOf(m)}})'
       /\ (\A m \in Runnable :
             /\ repo.modulePath \in {<<>>, dirOf(m)}
             /\ ~repo.changedOnly \/ m \in changes.modules
             => m \in targets)'
  BY <1>1, <1>4, <1>5, <1>8
<1>. QED
  BY <1>9, <1>10, <1>11 DEF SelectionInv

LEMMA StutterKeepsSelection == ASSUME SelectionInv, UNCHANGED selectionVars PROVE SelectionInv'
<1>1. filesToModules(changes.files)' = filesToModules(changes.files)
  BY SameOwners DEF selectionVars
<1>. QED
  BY <1>1, SameRepository DEF SelectionInv, Stages, selectionVars

\* The inductive invariant: after the walk `all` is the directories it visits as
\* modules, `filtered` those no filter rejects, in every step after; the diff's
\* modules are the owners of its files; and the targets are runnable.
THEOREM SelectionInvHolds == SelectionSpec => []SelectionInv
<1>1. SelectionInv /\ [SelectionNext]_selectionVars => SelectionInv'
  BY ScanKeepsInv, ExtractKeepsInv, DetectKeepsInv, ResolveKeepsInv, StutterKeepsSelection DEF SelectionNext
<1>. QED
  BY InvInit, <1>1, PTL DEF SelectionSpec

-----------------------------------------------------------------------------
(* Theorems *)

\* What a filter excludes and what lies under a library root is never run, on
\* no way of selecting targets (targets.go:99-157, module_workflow.go:95-101).
THEOREM OnlyRunnable == SelectionSpec => []OnlyRunnableSelected
<1>1. SelectionInv => OnlyRunnableSelected
  BY DEF SelectionInv, OnlyRunnableSelected
<1>. QED
  BY SelectionInvHolds, <1>1, PTL

\* Without a diff, the targets are the runnable modules the request names, all
\* of them (targets.go:26-60): neither the walk, the split into libraries nor
\* a filter loses one.
NothingLost ==
  progress = "done" /\ ~repo.changedOnly =>
    targets = {m \in Runnable : repo.modulePath \in {<<>>, dirOf(m)}}

THEOREM Everything == SelectionSpec => []NothingLost
<1>1. SelectionInv => NothingLost
  BY DEF SelectionInv, NothingLost
<1>. QED
  BY SelectionInvHolds, <1>1, PTL

\* With a diff, the module each changed Terraform file is in is a target, for
\* any nesting of modules in one another (detector.go:54-103): the search for
\* the innermost owner finds the module that holds the file.
OwnersSelected == Whole => editedBy(changes.files) \subseteq targets

THEOREM Owners == SelectionSpec => []OwnersSelected
<1>1. SelectionInv => OwnersSelected
  <2>1. SUFFICES ASSUME SelectionInv, Whole,
                        NEW m \in Runnable, NEW file \in changes.files, file.tf, contains(m, file)
                 PROVE  m \in targets
    BY DEF OwnersSelected, editedBy
  <2>2. /\ repo \in Repos /\ all = {n \in DOMAIN repo.dirs : visitDir(n)}
        /\ changes.modules = filesToModules(changes.files) /\ file.dir \in Seq(STRING)
        /\ repo.modulePath = <<>>
        /\ m \in changes.modules => m \in targets
    BY <2>1 DEF SelectionInv, Whole
  <2>3. findOwningModule(file.dir) = m
    BY <2>1, <2>2, OwnerIsContainer
  <2>4. m # 0
    BY <2>2, WalkFacts DEF Runnable, Executable, HasModule
  <2>. QED
    BY <2>1, <2>2, <2>3, <2>4 DEF filesToModules
<1>. QED
  BY SelectionInvHolds, <1>1, PTL

-----------------------------------------------------------------------------
(* Jobs by name, and what Validate says of them *)

LEMMA JobByName ==
  ASSUME NEW jobs, NEW n \in JobNames(jobs)
  PROVE  FindJob(jobs, n) \in ToSet(jobs) /\ FindJob(jobs, n).name = n
BY DEF JobNames, FindJob, ToSet

\* Validate ties the inputs of a job to the outputs of jobs it waits for.
LEMMA ValidEdges ==
  ASSUME NEW jobs, Validate(jobs), NEW n \in JobNames(jobs)
  PROVE  /\ ToSet(FindJob(jobs, n).deps) \subseteq JobNames(jobs)
         /\ \A input \in ToSet(FindJob(jobs, n).inputs) : Configured(input.artifact) =>
              /\ input.producer \in JobNames(jobs) /\ input.producer \in ToSet(FindJob(jobs, n).deps)
              /\ input.artifact = FindJob(jobs, input.producer).output
BY JobByName DEF Validate, validateJobEdges

-----------------------------------------------------------------------------
(* Sequences, and Kahn's algorithm *)

LEMMA LenOfSeq == ASSUME NEW s, s \in Seq(ToSet(s)) PROVE Len(s) \in Nat /\ DOMAIN s = 1..Len(s)
<1>. DEFINE T == ToSet(s)
<1>1. s \in Seq(T)
  OBVIOUS
<1>. HIDE DEF T
<1>. QED
  BY <1>1

\* What elementsAt picks
LEMMA Picked ==
  ASSUME NEW T, NEW s \in Seq(T), NEW P
  PROVE  /\ elementsAt(s, P) \in Seq(T)
         /\ ToSet(elementsAt(s, P)) = {s[k] : k \in P \cap DOMAIN s}
<1>. DEFINE one(k) == IF k \in P THEN <<s[k]>> ELSE <<>>
            parts == [k \in DOMAIN s |-> one(k)]
<1>1. Len(s) \in Nat /\ DOMAIN s = 1..Len(s) /\ \A k \in DOMAIN s : s[k] \in T
  OBVIOUS
<1>2. \A k \in DOMAIN s : one(k) \in Seq(T) /\ Range(one(k)) = IF k \in P THEN {s[k]} ELSE {}
  BY <1>1 DEF Range
<1>3. parts \in [1..Len(s) -> Seq(T)]
  <2>. HIDE DEF one
  <2>. QED
    BY <1>1, <1>2
<1>4. parts \in Seq(Seq(T)) /\ DOMAIN parts = DOMAIN s
  <2>1. parts \in Seq(Seq(T))
    <3>. HIDE DEF parts
    <3>. QED
      BY <1>1, <1>3, IsSequence
  <2>. QED
    BY <2>1
<1>5. FlattenSeq(parts) \in Seq(T) /\ Range(FlattenSeq(parts)) = UNION {Range(parts[i]) : i \in DOMAIN parts}
  <2>. HIDE DEF parts
  <2>. QED
    BY <1>4, FlattenRange
<1>6. UNION {Range(parts[i]) : i \in DOMAIN parts} = {s[k] : k \in P \cap DOMAIN s}
  <2>1. \A k \in DOMAIN s : Range(parts[k]) = IF k \in P THEN {s[k]} ELSE {}
    BY <1>2
  <2>. HIDE DEF parts
  <2>. QED
    BY <1>4, <2>1
<1>7. elementsAt(s, P) = FlattenSeq(parts)
  BY DEF elementsAt
<1>. HIDE DEF parts
<1>8. ToSet(elementsAt(s, P)) = Range(FlattenSeq(parts))
  BY <1>7 DEF ToSet, Range
<1>. QED
  BY <1>5, <1>6, <1>7, <1>8

\* Of different elements it picks each once.
LEMMA PickedOnce ==
  ASSUME NEW T, NEW s \in Seq(T), NEW P, \A k, l \in P \cap DOMAIN s : s[k] = s[l] => k = l
  PROVE  IsInjective(elementsAt(s, P))
<1>. DEFINE one(k) == IF k \in P THEN <<s[k]>> ELSE <<>>
            parts == [k \in DOMAIN s |-> one(k)]
<1>1. Len(s) \in Nat /\ DOMAIN s = 1..Len(s) /\ \A k \in DOMAIN s : s[k] \in T
  OBVIOUS
<1>2. \A k \in DOMAIN s : /\ one(k) \in Seq(T) /\ IsInjective(one(k))
                         /\ Range(one(k)) = IF k \in P THEN {s[k]} ELSE {}
  BY <1>1 DEF Range, IsInjective
<1>3. parts \in [1..Len(s) -> Seq(T)]
  <2>. HIDE DEF one
  <2>. QED
    BY <1>1, <1>2
<1>4. parts \in Seq(Seq(T)) /\ DOMAIN parts = DOMAIN s
  <2>1. parts \in Seq(Seq(T))
    <3>. HIDE DEF parts
    <3>. QED
      BY <1>1, <1>3, IsSequence
  <2>. QED
    BY <2>1
<1>5. \A k \in DOMAIN parts : IsInjective(parts[k]) /\ Range(parts[k]) = IF k \in P THEN {s[k]} ELSE {}
  BY <1>2, <1>4
<1>6. elementsAt(s, P) = FlattenSeq(parts)
  BY DEF elementsAt
<1>. HIDE DEF parts
<1>7. \A k, l \in DOMAIN parts : Range(parts[k]) \cap Range(parts[l]) # {} => k = l
  BY <1>4, <1>5
<1>. QED
  BY <1>4, <1>5, <1>6, <1>7, FlattenInjective

-----------------------------------------------------------------------------
(* The turns of Kahn's algorithm *)

KahnStart(gr) ==
  LET degree == [i \in IDs |-> Len(gr.edges[i])]
  IN  [inDegree |-> degree, heap |-> {i \in gr.nodes : degree[i] = 0}, result |-> <<>>]

KahnPop(gr, st) ==
  LET node == Min(st.heap)
      users == ToSet(gr.reverseEdges[node])
      inDegree == [i \in IDs |-> IF i \in users THEN st.inDegree[i] - 1 ELSE st.inDegree[i]]
  IN  [inDegree |-> inDegree, heap |-> (st.heap \ {node}) \cup {i \in users : inDegree[i] = 0},
       result |-> Append(st.result, node)]

KahnTurn(gr, st) == IF st.heap = {} THEN st ELSE KahnPop(gr, st)

IsKahn(gr, turn, n) ==
  turn = [k \in 0..n |-> IF k = 0 THEN KahnStart(gr) ELSE KahnTurn(gr, turn[k - 1])]

LEMMA KahnTurns ==
  ASSUME NEW gr
  PROVE  \E turn : IsKahn(gr, turn, Cardinality(IDs)) /\ TopologicalSort(gr).order = turn[Cardinality(IDs)].result
<1>. DEFINE n == Cardinality(IDs)
            A == {k \in Nat : \E turn : IsKahn(gr, turn, k)}
<1>1. n \in Nat
  BY IDsAssumption, FS_CardinalityType
<1>2. 0 \in A
  <2>. DEFINE t == [k \in 0..0 |-> KahnStart(gr)]
  <2>1. t = [k \in 0..0 |-> IF k = 0 THEN KahnStart(gr) ELSE KahnTurn(gr, t[k - 1])]
    <3>1. \A k \in 0..0 : k = 0
      OBVIOUS
    <3>. QED
      BY <3>1
  <2>. HIDE DEF t
  <2>. QED
    BY <2>1 DEF IsKahn
<1>3. ASSUME NEW k \in Nat, k \in A PROVE k + 1 \in A
  <2>1. PICK g : IsKahn(gr, g, k)
    BY <1>3
  <2>. DEFINE t == [j \in 0..(k + 1) |-> IF j <= k THEN g[j] ELSE KahnTurn(gr, g[k])]
              turned(h, j) == IF j = 0 THEN KahnStart(gr) ELSE KahnTurn(gr, h[j - 1])
  <2>2. \A j \in 0..k : g[j] = turned(g, j)
    <3>1. g = [j \in 0..k |-> turned(g, j)]
      BY <2>1 DEF IsKahn
    <3>. HIDE DEF turned
    <3>. QED
      BY <3>1
  <2>3. \A j \in 0..k : t[j] = g[j]
    OBVIOUS
  <2>4. t[k + 1] = KahnTurn(gr, g[k])
    OBVIOUS
  <2>5. \A j \in 0..(k + 1) : t[j] = turned(t, j)
    <3>. HIDE DEF t
    <3>. SUFFICES ASSUME NEW j \in 0..(k + 1) PROVE t[j] = turned(t, j)
      OBVIOUS
    <3>1. CASE j = k + 1
      <4>1. j - 1 = k /\ k \in 0..k /\ j # 0
        BY <3>1
      <4>. QED
        BY <3>1, <2>3, <2>4, <4>1
    <3>2. CASE j \in 0..k
      <4>1. j = 0 \/ j - 1 \in 0..k
        BY <3>2
      <4>. QED
        BY <3>2, <2>2, <2>3, <4>1
    <3>. QED
      BY <3>1, <3>2
  <2>6. t = [j \in 0..(k + 1) |-> turned(t, j)]
    <3>. HIDE DEF turned
    <3>. QED
      BY <2>5
  <2>7. IsKahn(gr, t, k + 1)
    <3>. HIDE DEF t
    <3>. QED
      BY <2>6 DEF IsKahn
  <2>. HIDE DEF t
  <2>. QED
    BY <2>7
<1>4. \E turn : IsKahn(gr, turn, n)
  <2>1. n \in A
    <3>. HIDE DEF A, n
    <3>. QED
      BY <1>1, <1>2, <1>3, AllNumbers
  <2>. QED
    BY <2>1
<1>. DEFINE turn == CHOOSE h : h = [k \in 0..n |-> IF k = 0 THEN KahnStart(gr) ELSE KahnTurn(gr, h[k - 1])]
<1>5. IsKahn(gr, turn, n)
  <2>. HIDE DEF n
  <2>. QED
    BY <1>4, Zenon DEF IsKahn
<1>6. TopologicalSort(gr).order = turn[n].result
  BY DEF TopologicalSort, KahnStart, KahnPop, KahnTurn
<1>. HIDE DEF turn
<1>. QED
  BY <1>5, <1>6


LEMMA LeastElement ==
  ASSUME NEW T, T \subseteq Nat, T # {}
  PROVE  Min(T) \in T /\ \A y \in T : Min(T) <= y
<1>. DEFINE R == OpToRel(<, Nat)
<1>1. \A a, b \in Nat : <<a, b>> \in R <=> a < b
  BY DEF OpToRel
<1>2. PICK x \in T : \A y \in T : ~(<<y, x>> \in R)
  BY NatLessThanWellFounded, WFMin
<1>3. \A y \in T : x <= y
  <2>. SUFFICES ASSUME NEW y \in T PROVE x <= y
    OBVIOUS
  <2>1. x \in Nat /\ y \in Nat /\ ~(y < x)
    BY <1>1, <1>2
  <2>. QED
    BY <2>1
<1>. QED
  BY <1>3 DEF Min

\* A graph of modules, where the users of a module are modules that depend on it
GraphOk(gr) ==
  /\ gr.nodes \subseteq IDs
  /\ \A i \in IDs : gr.edges[i] \in Seq(IDs)
  /\ \A i \in gr.nodes : \A k \in ToSet(gr.reverseEdges[i]) : k \in gr.nodes /\ i \in ToSet(gr.edges[k])

\* At every turn: what is sorted or ready is a module, never both, and counts
\* no dependency as open.
KahnInv(gr, st) ==
  /\ st.heap \subseteq gr.nodes
  /\ \A i \in IDs : st.inDegree[i] \in Int
  /\ st.result \in Seq(ToSet(st.result)) /\ IsInjective(st.result)
  /\ ToSet(st.result) \subseteq gr.nodes /\ ToSet(st.result) \cap st.heap = {}
  /\ \A i \in st.heap \cup ToSet(st.result) : st.inDegree[i] <= 0

LEMMA KahnStarts ==
  ASSUME NEW gr, GraphOk(gr)
  PROVE  KahnInv(gr, KahnStart(gr))
<1>. DEFINE st == KahnStart(gr)
<1>1. /\ \A i \in IDs : st.inDegree[i] = Len(gr.edges[i])
      /\ st.heap = {i \in gr.nodes : [j \in IDs |-> Len(gr.edges[j])][i] = 0} /\ st.result = <<>>
  BY DEF KahnStart
<1>2. ToSet(<<>>) = {} /\ IsInjective(<<>>) /\ <<>> \in Seq({})
  BY DEF ToSet, IsInjective
<1>. HIDE DEF st
<1>3. ASSUME NEW i \in st.heap PROVE i \in gr.nodes /\ st.inDegree[i] = 0
  <2>1. i \in gr.nodes /\ i \in IDs /\ [j \in IDs |-> Len(gr.edges[j])][i] = 0
    BY <1>1 DEF GraphOk
  <2>. QED
    BY <1>1, <2>1
<1>4. \A i \in IDs : st.inDegree[i] \in Int
  BY <1>1 DEF GraphOk
<1>5. st.result \in Seq(ToSet(st.result)) /\ IsInjective(st.result) /\ ToSet(st.result) = {}
  BY <1>1, <1>2
<1>6. st.heap \subseteq gr.nodes /\ \A i \in st.heap : st.inDegree[i] <= 0
  BY <1>3
<1>. QED
  BY <1>4, <1>5, <1>6 DEF KahnInv, st

\* One more value at the end of a sequence that does not have it
LEMMA AppendNew ==
  ASSUME NEW s, s \in Seq(ToSet(s)), IsInjective(s), NEW x, x \notin ToSet(s)
  PROVE  /\ Append(s, x) \in Seq(ToSet(Append(s, x))) /\ IsInjective(Append(s, x))
         /\ ToSet(Append(s, x)) = ToSet(s) \cup {x}
<1>. DEFINE S == ToSet(s)
            T == S \cup {x}
            n == Len(s)
            t == Append(s, x)
<1>1. n \in Nat /\ DOMAIN s = 1..n
  BY LenOfSeq
<1>2. s \in Seq(T)
  <2>1. s \in Seq(S)
    OBVIOUS
  <2>. HIDE DEF S
  <2>. QED
    BY <2>1
<1>3. t \in Seq(T) /\ DOMAIN t = 1..(n + 1) /\ \A i \in 1..(n + 1) : t[i] = IF i = n + 1 THEN x ELSE s[i]
  <2>. HIDE DEF T
  <2>1. x \in T
    BY DEF T
  <2>. QED
    BY <1>1, <1>2, <2>1
<1>4. \A i \in 1..n : s[i] \in S
  BY <1>1 DEF ToSet
<1>5. \A i \in 1..(n + 1) : i = n + 1 \/ i \in 1..n
  BY <1>1
<1>6. (\A i \in 1..n : i \in 1..(n + 1) /\ i # n + 1) /\ n + 1 \in 1..(n + 1)
  BY <1>1
<1>7. \A y \in S : \E i \in 1..n : y = s[i]
  BY <1>1 DEF ToSet
<1>8. \A i, j \in 1..n : s[i] = s[j] => i = j
  BY <1>1 DEF IsInjective
<1>. HIDE DEF n, t, S
<1>9. ToSet(t) = T
  <2>1. \A i \in 1..(n + 1) : t[i] \in T
    BY <1>3, <1>4, <1>5
  <2>2. \A y \in T : \E i \in 1..(n + 1) : y = t[i]
    BY <1>3, <1>6, <1>7
  <2>. HIDE DEF T
  <2>. QED
    BY <1>3, <2>1, <2>2 DEF ToSet
<1>10. IsInjective(t)
  <2>1. \A i, j \in 1..(n + 1) : t[i] = t[j] => i = j
    BY <1>3, <1>4, <1>5, <1>8 DEF S
  <2>. QED
    BY <1>3, <2>1 DEF IsInjective
<1>. QED
  BY <1>3, <1>9, <1>10 DEF S, t

LEMMA KahnTakes ==
  ASSUME NEW gr, GraphOk(gr), NEW st, KahnInv(gr, st)
  PROVE  KahnInv(gr, KahnTurn(gr, st))
<1>1. CASE st.heap = {}
  BY <1>1 DEF KahnTurn
<1>2. CASE st.heap # {}
  <2>. DEFINE node == Min(st.heap)
              users == ToSet(gr.reverseEdges[node])
              deg == [i \in IDs |-> IF i \in users THEN st.inDegree[i] - 1 ELSE st.inDegree[i]]
              free == {i \in users : deg[i] = 0}
              new == KahnTurn(gr, st)
  <2>1. node \in st.heap
    <3>1. st.heap \subseteq Nat
      BY IDsAssumption DEF KahnInv, GraphOk
    <3>. QED
      BY <1>2, <3>1, LeastElement
  <2>2. /\ new.inDegree = deg /\ new.heap = (st.heap \ {node}) \cup free
        /\ new.result = Append(st.result, node)
    BY <1>2 DEF KahnTurn, KahnPop
  <2>. HIDE DEF node, new
  <2>3. node \in gr.nodes /\ users \subseteq gr.nodes /\ gr.nodes \subseteq IDs
    BY <2>1 DEF KahnInv, GraphOk
  <2>. HIDE DEF users
  <2>4. \A i \in IDs : deg[i] \in Int /\ deg[i] <= st.inDegree[i] /\ (i \in users => deg[i] = st.inDegree[i] - 1)
    BY DEF KahnInv
  <2>5. \A i \in free : i \in gr.nodes /\ i \notin st.heap /\ i \notin ToSet(st.result) /\ deg[i] = 0
    <3>. SUFFICES ASSUME NEW i \in free PROVE i \in gr.nodes /\ i \notin st.heap /\ i \notin ToSet(st.result) /\ deg[i] = 0
      OBVIOUS
    <3>1. i \in users /\ i \in IDs /\ deg[i] = 0
      BY <2>3
    <3>. HIDE DEF deg, free
    <3>2. st.inDegree[i] = 1
      BY <2>4, <3>1 DEF KahnInv
    <3>. QED
      BY <2>3, <3>1, <3>2 DEF KahnInv
  <2>. HIDE DEF deg, free
  <2>6. /\ Append(st.result, node) \in Seq(ToSet(Append(st.result, node))) /\ IsInjective(Append(st.result, node))
        /\ ToSet(Append(st.result, node)) = ToSet(st.result) \cup {node}
    <3>. DEFINE s == st.result
    <3>1. s \in Seq(ToSet(s)) /\ IsInjective(s) /\ node \notin ToSet(s)
      BY <2>1 DEF KahnInv
    <3>. HIDE DEF s
    <3>2. /\ Append(s, node) \in Seq(ToSet(Append(s, node))) /\ IsInjective(Append(s, node))
          /\ ToSet(Append(s, node)) = ToSet(s) \cup {node}
      BY <3>1, AppendNew
    <3>. QED
      BY <3>2 DEF s
  <2>7. ASSUME NEW i \in st.heap \cup ToSet(st.result) \cup free PROVE deg[i] <= 0
    <3>1. i \in IDs
      BY <2>3, <2>5 DEF KahnInv
    <3>2. i \notin free => st.inDegree[i] <= 0 /\ st.inDegree[i] \in Int
      BY <3>1 DEF KahnInv
    <3>. QED
      BY <2>4, <2>5, <3>1, <3>2
  <2>8. /\ ToSet(new.result) = ToSet(st.result) \cup {node}
        /\ new.result \in Seq(ToSet(new.result)) /\ IsInjective(new.result)
    BY <2>2, <2>6
  <2>9. /\ new.heap \subseteq gr.nodes
        /\ \A i \in IDs : new.inDegree[i] \in Int
        /\ ToSet(new.result) \subseteq gr.nodes /\ ToSet(new.result) \cap new.heap = {}
    BY <2>1, <2>2, <2>3, <2>4, <2>5, <2>8 DEF KahnInv
  <2>10. \A i \in new.heap \cup ToSet(new.result) : new.inDegree[i] <= 0
    BY <2>1, <2>2, <2>7, <2>8
  <2>. QED
    BY <2>8, <2>9, <2>10 DEF KahnInv, new
<1>. QED
  BY <1>1, <1>2

\* TopologicalSort lists modules of the graph, none twice; when it succeeds, all.
LEMMA SortedModules ==
  ASSUME NEW gr, GraphOk(gr), NEW order, order = TopologicalSort(gr).order
  PROVE  /\ order \in Seq(ToSet(order)) /\ IsInjective(order) /\ ToSet(order) \subseteq gr.nodes
         /\ TopologicalSort(gr).ok => ToSet(order) = gr.nodes
<1>. DEFINE n == Cardinality(IDs)
<1>1. n \in Nat
  BY IDsAssumption, FS_CardinalityType
<1>2. PICK turn : IsKahn(gr, turn, n) /\ order = turn[n].result
  BY KahnTurns
<1>. HIDE DEF n
<1>. DEFINE A == {k \in Nat : k <= n => KahnInv(gr, turn[k])}
            turned(j) == IF j = 0 THEN KahnStart(gr) ELSE KahnTurn(gr, turn[j - 1])
<1>3. \A k \in 0..n : turn[k] = turned(k)
  <2>1. turn = [k \in 0..n |-> turned(k)]
    BY <1>2 DEF IsKahn
  <2>. HIDE DEF turned
  <2>. QED
    BY <2>1
<1>4. KahnInv(gr, turn[0])
  BY <1>1, <1>3, KahnStarts
<1>5. ASSUME NEW k \in Nat, k + 1 <= n, KahnInv(gr, turn[k]) PROVE KahnInv(gr, turn[k + 1])
  <2>1. turn[k + 1] = KahnTurn(gr, turn[k])
    <3>1. k + 1 \in 0..n /\ (k + 1) - 1 = k /\ k + 1 # 0
      BY <1>1, <1>5
    <3>. QED
      BY <1>3, <3>1
  <2>. QED
    BY <1>5, <2>1, KahnTakes
<1>6. KahnInv(gr, turn[n])
  <2>1. 0 \in A /\ \A k \in Nat : k \in A => k + 1 \in A
    BY <1>1, <1>4, <1>5
  <2>2. n \in A
    <3>. HIDE DEF A
    <3>. QED
      BY <1>1, <2>1, AllNumbers
  <2>. QED
    BY <2>2, <1>1
<1>7. order \in Seq(ToSet(order)) /\ IsInjective(order) /\ ToSet(order) \subseteq gr.nodes
  BY <1>2, <1>6 DEF KahnInv
<1>8. ASSUME TopologicalSort(gr).ok PROVE ToSet(order) = gr.nodes
  <2>1. Len(order) = Cardinality(gr.nodes)
    BY <1>8 DEF TopologicalSort
  <2>. DEFINE T == ToSet(order)
  <2>2. order \in Seq(T) /\ IsInjective(order)
    BY <1>7
  <2>. HIDE DEF T
  <2>3. Len(order) = Cardinality(Range(order)) /\ IsFiniteSet(Range(order))
    BY <2>2, LenOfInjective
  <2>4. Range(order) = ToSet(order)
    BY DEF Range, ToSet
  <2>5. IsFiniteSet(gr.nodes)
    BY IDsAssumption, FS_Subset DEF GraphOk
  <2>. QED
    BY <1>7, <2>1, <2>3, <2>4, <2>5, FS_Subset
<1>. QED
  BY <1>7, <1>8

\* What the builder makes of the graph: the targets with the edges between them
Scoped(gr) ==
  /\ gr.nodes = build.targets
  /\ \A m \in build.targets : /\ ToSet(gr.edges[m]) = {d \in build.targets : Contains(build.G.edges[m], d)}
                              /\ IsInjective(gr.edges[m])

LEMMA SetToSeqRange == ASSUME NEW S, IsFiniteSet(S) PROVE ToSet(SetToSeq(S)) \subseteq S
<1>. DEFINE n == Cardinality(S)
<1>1. \E f \in [1..n -> S] : IsInjective(f)
  <2>1. ExistsBijection(1..n, S)
    BY FS_NatBijection, FS_CountingElements, FS_CardinalityType
  <2>2. PICK f : f \in Bijection(1..n, S)
    BY <2>1 DEF ExistsBijection
  <2>. QED
    BY <2>2 DEF Bijection, Injection, IsInjective
<1>2. SetToSeq(S) \in [1..n -> S]
  BY <1>1 DEF SetToSeq
<1>. QED
  BY <1>2 DEF ToSet

LEMMA SubgraphOf ==
  ASSUME build \in Builds, NEW gr, gr = Subgraph(build.G, build.targets)
  PROVE  GraphOk(gr) /\ Scoped(gr)
<1>. DEFINE kept == build.targets \cap build.G.nodes
            E == build.G.edges
            inside(i) == elementsAt(E[i], {k \in DOMAIN E[i] : E[i][k] \in kept})
            edges == [i \in IDs |-> IF i \in kept THEN inside(i) ELSE <<>>]
            users(i) == {from \in kept : Contains(edges[from], i)}
            reverse == [i \in IDs |-> SetToSeq(users(i))]
<1>1. /\ build.targets \subseteq build.G.nodes /\ build.G.nodes \subseteq IDs /\ E \in [IDs -> Seq(IDs)]
      /\ \A i \in IDs : IsInjective(E[i])
      /\ kept = build.targets
  BY BuildsAssumption
<1>2. gr.nodes = kept /\ gr.edges = edges /\ gr.reverseEdges = reverse
  BY DEF Subgraph, NewDependencyGraph
<1>3. ASSUME NEW i \in IDs
      PROVE  inside(i) \in Seq(IDs) /\ ToSet(inside(i)) = {d \in kept : Contains(E[i], d)} /\ IsInjective(inside(i))
  <2>. DEFINE s == E[i]
              P == {k \in DOMAIN s : s[k] \in kept}
  <2>1. s \in Seq(IDs) /\ IsInjective(s)
    BY <1>1
  <2>2. DOMAIN s = 1..Len(s)
    BY <2>1
  <2>3. {s[k] : k \in P \cap DOMAIN s} = {d \in kept : Contains(s, d)}
    BY <2>2 DEF Contains
  <2>. HIDE DEF s, P
  <2>4. elementsAt(s, P) \in Seq(IDs) /\ ToSet(elementsAt(s, P)) = {s[k] : k \in P \cap DOMAIN s}
    BY <2>1, Picked
  <2>5. IsInjective(elementsAt(s, P))
    BY <2>1, PickedOnce DEF IsInjective
  <2>. QED
    BY <2>3, <2>4, <2>5 DEF s, P
<1>. HIDE DEF inside
<1>4. \A i \in IDs : edges[i] \in Seq(IDs)
  BY <1>3
<1>5. \A m \in build.targets : ToSet(edges[m]) = {d \in build.targets : Contains(E[m], d)} /\ IsInjective(edges[m])
  BY <1>1, <1>3
<1>. HIDE DEF edges
<1>6. \A i \in IDs : \A k \in ToSet(reverse[i]) : k \in kept /\ i \in ToSet(edges[k])
  <2>1. IsFiniteSet(kept)
    BY <1>1, IDsAssumption, FS_Subset
  <2>. HIDE DEF kept
  <2>2. \A i \in IDs : IsFiniteSet(users(i)) /\ users(i) \subseteq kept
    BY <2>1, FS_Subset
  <2>3. \A i \in IDs : reverse[i] = SetToSeq(users(i))
    OBVIOUS
  <2>4. \A i \in IDs : \A k \in users(i) : k \in kept /\ i \in ToSet(edges[k])
    BY <1>1, <1>4 DEF Contains, ToSet, kept
  <2>. HIDE DEF users, reverse
  <2>. QED
    BY <2>2, <2>3, <2>4, SetToSeqRange
<1>. HIDE DEF reverse
<1>7. GraphOk(gr)
  <2>1. \A i \in IDs : gr.edges[i] \in Seq(IDs)
    BY <1>2, <1>4
  <2>. QED
    BY <1>1, <1>2, <1>6, <2>1 DEF GraphOk
<1>. QED
  BY <1>1, <1>2, <1>5, <1>7 DEF Scoped

-----------------------------------------------------------------------------
(* The inputs of the jobs that are built *)

JobFields == {"name", "kind", "module", "deps", "inputs", "output", "consumes", "produces", "allow"}

JobShape(j) == DOMAIN j = JobFields /\ j.produces \in Seq(ToSet(j.produces))

\* An artifact is an input of a job once.
OncePerName(inputs) == \A a, b \in ToSet(inputs) : a.artifact.name = b.artifact.name => a = b

\* What is known of the jobs at every stage: an input is what some job puts out.
InputsInv(jobs) ==
  /\ jobs \in Seq(ToSet(jobs))
  /\ \A j \in ToSet(jobs) : /\ JobShape(j) /\ OncePerName(j.inputs)
                            /\ \A i \in ToSet(j.inputs) : \E k \in ToSet(jobs) : i.artifact = k.output

\* The jobs of one module
jobsOfModule(m) ==
  (IF moduleNeedsPlanJob(m) THEN <<buildPlanJob(m)>> ELSE <<>>) \o (IF build.apply THEN <<buildApplyJob(m)>> ELSE <<>>)

LEMMA JobsOfModule ==
  ASSUME NEW m
  PROVE  /\ jobsOfModule(m) \in Seq(Range(jobsOfModule(m)))
         /\ Range(jobsOfModule(m)) = (IF moduleNeedsPlanJob(m) THEN {buildPlanJob(m)} ELSE {})
                                       \cup (IF build.apply THEN {buildApplyJob(m)} ELSE {})
<1>. DEFINE p == buildPlanJob(m)
            a == buildApplyJob(m)
            T == {p, a}
            s == IF moduleNeedsPlanJob(m) THEN <<p>> ELSE <<>>
            t == IF build.apply THEN <<a>> ELSE <<>>
<1>1. s \in Seq(T) /\ t \in Seq(T)
  <2>1. p \in T /\ a \in T
    OBVIOUS
  <2>. HIDE DEF p, a, T
  <2>2. <<p>> \in Seq(T) /\ <<a>> \in Seq(T) /\ <<>> \in Seq(T)
    BY <2>1
  <2>. QED
    BY <2>2
<1>2. /\ Range(s) = IF moduleNeedsPlanJob(m) THEN {p} ELSE {}
      /\ Range(t) = IF build.apply THEN {a} ELSE {}
  BY DEF Range
<1>3. jobsOfModule(m) = s \o t
  BY DEF jobsOfModule
<1>. HIDE DEF s, t, T
<1>4. s \o t \in Seq(T) /\ Range(s \o t) = Range(s) \cup Range(t)
  BY <1>1, RangeOfConcat
<1>5. s \o t \in Seq(Range(s \o t))
  BY <1>4, OfItsElements
<1>. QED
  BY <1>2, <1>3, <1>4, <1>5

\* The jobs of all targets, in the order of the sort
LEMMA ModuleJobs ==
  ASSUME GraphOk(subgraph), Scoped(subgraph), TopologicalSort(subgraph).ok
  PROVE  /\ buildModuleJobs \in Seq(Range(buildModuleJobs))
         /\ \A j \in Range(buildModuleJobs) : \E m \in build.targets : j \in Range(jobsOfModule(m))
         /\ \A m \in build.targets : Range(jobsOfModule(m)) \subseteq Range(buildModuleJobs)
<1>. DEFINE order == TopologicalSort(subgraph).order
            lists == [i \in DOMAIN order |-> jobsOfModule(order[i])]
<1>1. order \in Seq(ToSet(order)) /\ ToSet(order) = build.targets
  BY SortedModules DEF Scoped
<1>2. buildModuleJobs = FlattenSeq(lists)
  BY DEF buildModuleJobs, jobsOfModule
<1>. HIDE DEF order
<1>. DEFINE n == Len(order)
<1>3. n \in Nat /\ DOMAIN order = 1..n
  BY <1>1, LenOfSeq
<1>3a. /\ \A i \in 1..n : order[i] \in build.targets
       /\ \A m \in build.targets : \E i \in 1..n : m = order[i]
  BY <1>1, <1>3 DEF ToSet
<1>. HIDE DEF n
<1>4. lists = [i \in 1..n |-> lists[i]] /\ \A i \in 1..n : lists[i] = jobsOfModule(order[i])
  BY <1>3
<1>5. \A i \in 1..n : lists[i] \in Seq(Range(lists[i]))
  BY <1>4, JobsOfModule
<1>. HIDE DEF lists
<1>6. /\ FlattenSeq(lists) \in Seq(Range(FlattenSeq(lists)))
      /\ \A x \in Range(FlattenSeq(lists)) : \E i \in 1..n : x \in Range(lists[i])
      /\ \A i \in 1..n : Range(lists[i]) \subseteq Range(FlattenSeq(lists))
  BY <1>3, <1>4, <1>5, FlattenOf
<1>. QED
  BY <1>2, <1>3a, <1>4, <1>6

\* A plan job has no input, an apply job the output of the plan job.
LEMMA PlanShape ==
  ASSUME NEW m
  PROVE  /\ JobShape(buildPlanJob(m)) /\ buildPlanJob(m).inputs = <<>>
         /\ buildPlanJob(m).output = planArtifact(m)
         /\ JobShape(buildApplyJob(m)) /\ OncePerName(buildApplyJob(m).inputs)
         /\ \A i \in ToSet(buildApplyJob(m).inputs) : i.artifact = planArtifact(m)
<1>1. planResources(m) \in Seq(ToSet(planResources(m)))
  <2>. DEFINE T == {PlanResource(kind, m) : kind \in PlanKinds}
              optional(kind) == IF planOutputs(m, kind) THEN <<PlanResource(kind, m)>> ELSE <<>>
  <2>1. \A kind \in PlanKinds : PlanResource(kind, m) \in T
    OBVIOUS
  <2>2. "plan_binary" \in PlanKinds /\ "plan_text" \in PlanKinds /\ "plan_json" \in PlanKinds
    BY DEF PlanKinds
  <2>. HIDE DEF T
  <2>3. optional("plan_text") \in Seq(T) /\ optional("plan_json") \in Seq(T) /\ <<PlanResource("plan_binary", m)>> \in Seq(T)
    BY <2>1, <2>2
  <2>4. planResources(m) = <<PlanResource("plan_binary", m)>> \o optional("plan_text") \o optional("plan_json")
    BY DEF planResources
  <2>. HIDE DEF optional
  <2>5. planResources(m) \in Seq(T)
    BY <2>3, <2>4
  <2>. QED
    BY <2>5, OfItsElements DEF Range, ToSet
<1>2. JobShape(buildPlanJob(m)) /\ buildPlanJob(m).inputs = <<>> /\ buildPlanJob(m).output = planArtifact(m)
  BY <1>1 DEF JobShape, JobFields, buildPlanJob
<1>. DEFINE input == [artifact |-> planArtifact(m), producer |-> jobName("plan", m), optional |-> FALSE]
<1>3. DOMAIN buildApplyJob(m) = JobFields /\ buildApplyJob(m).inputs = <<input>> /\ buildApplyJob(m).produces = <<>>
  BY DEF JobFields, buildApplyJob
<1>4. input.artifact = planArtifact(m)
  OBVIOUS
<1>. HIDE DEF input
<1>5. ToSet(<<input>>) = {input}
  BY DEF ToSet
<1>. QED
  BY <1>2, <1>3, <1>4, <1>5 DEF JobShape, OncePerName

LEMMA CommandShape ==
  ASSUME build \in Builds, NEW c \in ToSet(build.jobs)
  PROVE  /\ JobShape(newCommandJob(c)) /\ newCommandJob(c).inputs = <<>> /\ newCommandJob(c).produces = c.produces
         /\ newCommandJob(c).kind = "command" /\ newCommandJob(c).module = NoModule /\ newCommandJob(c).name = c.name
BY BuildsAssumption DEF JobShape, JobFields, newCommandJob

-----------------------------------------------------------------------------
(* Resolving what the plugins' jobs ask for *)

Entry(j, ref) == [ref |-> ref, job |-> j.name, artifact |-> j.output]

\* The index has an entry for each resource a job produces, and no other.
Indexed(entries, jobs) ==
  /\ entries \in Seq(ToSet(entries))
  /\ \A x \in ToSet(entries) : \E j \in ToSet(jobs) : \E ref \in ToSet(j.produces) : x = Entry(j, ref)
  /\ \A j \in ToSet(jobs) : \A ref \in ToSet(j.produces) : Entry(j, ref) \in ToSet(entries)

LEMMA IndexOf ==
  ASSUME ir \in Seq(ToSet(ir)), \A j \in ToSet(ir) : JobShape(j)
  PROVE  Indexed(resourceIndex, ir)
<1>. DEFINE n == Len(ir)
            J == ToSet(ir)
            list(j) == [k \in DOMAIN j.produces |-> Entry(j, j.produces[k])]
            lists == [i \in 1..n |-> list(ir[i])]
<1>1. n \in Nat /\ DOMAIN ir = 1..n
  <2>1. ir \in Seq(J)
    OBVIOUS
  <2>. HIDE DEF J
  <2>. QED
    BY <2>1
<1>. HIDE DEF n
<1>2. \A i \in 1..n : ir[i] \in J
  BY <1>1 DEF ToSet
<1>2a. \A j \in J : \E i \in 1..n : j = ir[i]
  BY <1>1 DEF ToSet
<1>3. resourceIndex = FlattenSeq(lists)
  BY <1>1 DEF resourceIndex, Entry
<1>4. ASSUME NEW j \in J
      PROVE  /\ list(j) \in Seq(Range(list(j)))
             /\ Range(list(j)) = {Entry(j, ref) : ref \in ToSet(j.produces)}
  <2>. DEFINE P == ToSet(j.produces)
              l == Len(j.produces)
  <2>1. j.produces \in Seq(P)
    BY DEF JobShape
  <2>2. l \in Nat /\ DOMAIN j.produces = 1..l
    <3>. HIDE DEF P
    <3>. QED
      BY <2>1
  <2>. HIDE DEF l
  <2>3. list(j) \in [1..l -> Range(list(j))]
    BY <2>2 DEF Range
  <2>4. list(j) \in Seq(Range(list(j)))
    <3>. HIDE DEF list
    <3>. QED
      BY <2>2, <2>3, IsSequence
  <2>5. Range(list(j)) = {Entry(j, ref) : ref \in P}
    BY DEF Range, ToSet
  <2>. QED
    BY <2>4, <2>5
<1>. HIDE DEF list
<1>5. lists = [i \in 1..n |-> lists[i]] /\ \A i \in 1..n : lists[i] = list(ir[i]) /\ lists[i] \in Seq(Range(lists[i]))
  BY <1>2, <1>4
<1>. HIDE DEF lists
<1>6. /\ FlattenSeq(lists) \in Seq(Range(FlattenSeq(lists)))
      /\ \A x \in Range(FlattenSeq(lists)) : \E i \in 1..n : x \in Range(lists[i])
      /\ \A i \in 1..n : Range(lists[i]) \subseteq Range(FlattenSeq(lists))
  BY <1>1, <1>5, FlattenOf
<1>. DEFINE entries == FlattenSeq(lists)
<1>7. ASSUME NEW x \in Range(entries) PROVE \E j \in J : \E ref \in ToSet(j.produces) : x = Entry(j, ref)
  <2>1. PICK i \in 1..n : x \in Range(list(ir[i]))
    BY <1>5, <1>6
  <2>. QED
    BY <1>2, <1>4, <2>1
<1>8. ASSUME NEW j \in J, NEW ref \in ToSet(j.produces) PROVE Entry(j, ref) \in Range(entries)
  <2>1. PICK i \in 1..n : j = ir[i]
    BY <1>2a
  <2>2. Entry(j, ref) \in Range(lists[i])
    BY <1>4, <1>5, <2>1
  <2>. QED
    BY <1>6, <2>2
<1>9. entries \in Seq(Range(entries)) /\ Range(entries) = ToSet(entries)
  BY <1>6 DEF Range, ToSet
<1>. HIDE DEF entries, J
<1>10. Indexed(entries, ir)
  BY <1>7, <1>8, <1>9 DEF Indexed, J
<1>. QED
  BY <1>3, <1>10 DEF entries

\* What matches a request is what its rule admits of the index.
LEMMA MatchesOf ==
  ASSUME NEW jobs, Indexed(resourceIndex, jobs), NEW r, NEW consumer
  PROVE  /\ matchingResources(r, consumer) \in Seq(ToSet(resourceIndex))
         /\ ToSet(matchingResources(r, consumer)) =
              {x \in ToSet(resourceIndex) : x.job # consumer /\ resourceMatches(r, x.ref)}
<1>. DEFINE entries == resourceIndex
            T == ToSet(entries)
            P == {k \in DOMAIN entries : entries[k].job # consumer /\ resourceMatches(r, entries[k].ref)}
<1>1. entries \in Seq(T)
  BY DEF Indexed
<1>2. matchingResources(r, consumer) = elementsAt(entries, P)
  BY DEF matchingResources
<1>3. {entries[k] : k \in P} = {x \in T : x.job # consumer /\ resourceMatches(r, x.ref)}
  BY DEF ToSet
<1>4. P \cap DOMAIN entries = P
  OBVIOUS
<1>. HIDE DEF entries, P, T
<1>5. elementsAt(entries, P) \in Seq(T) /\ ToSet(elementsAt(entries, P)) = {entries[k] : k \in P}
  BY <1>1, <1>4, Picked
<1>. QED
  BY <1>2, <1>3, <1>5 DEF entries, T

\* A resolved resource x is one that a request asks for: y of the index.
Resolves(x, y, rs) ==
  /\ x.ref = y.ref /\ x.job = y.job /\ x.artifact = y.artifact
  /\ x.optional = \A r \in ToSet(rs) : resourceMatches(r, y.ref) => r.optional

Asked(y, rs, consumer) == y.job # consumer /\ \E r \in ToSet(rs) : resourceMatches(r, y.ref)

Resolution(resolved, rs, consumer) ==
  /\ resolved \in Seq(ToSet(resolved))
  /\ \A x \in ToSet(resolved) : \E y \in ToSet(resourceIndex) : Asked(y, rs, consumer) /\ Resolves(x, y, rs)
  /\ \A y \in ToSet(resourceIndex) : Asked(y, rs, consumer) => \E x \in ToSet(resolved) : x.ref = y.ref

\* The first place at which a sequence has a value
LEMMA FirstPlace ==
  ASSUME NEW n \in Nat, NEW f, NEW k \in 1..n
  PROVE  \E h \in 1..n : f[h] = f[k] /\ \A g \in 1..h - 1 : f[g] # f[h]
<1>. DEFINE S == {h \in 1..n : f[h] = f[k]}
<1>1. S \in SUBSET Nat /\ S # {}
  OBVIOUS
<1>2. \E h \in S : \A g \in S : h <= g
  <2>. DEFINE D == {n - h : h \in S}
  <2>1. D \subseteq 0..n /\ D # {}
    OBVIOUS
  <2>2. PICK d \in D : \A e \in D : d >= e
    <3>. HIDE DEF D
    <3>. QED
      BY <2>1, GreatestElement
  <2>3. PICK h \in S : d = n - h
    OBVIOUS
  <2>4. ASSUME NEW g \in S PROVE h <= g
    <3>1. n - g \in D /\ g \in 1..n /\ h \in 1..n
      OBVIOUS
    <3>2. d >= n - g
      BY <2>2, <3>1
    <3>. QED
      BY <2>3, <3>1, <3>2
  <2>. QED
    BY <2>4
<1>3. PICK h \in S : \A g \in S : h <= g
  BY <1>2
<1>4. ASSUME NEW g \in 1..h - 1 PROVE f[g] # f[h]
  <2>1. g \in 1..n /\ g < h /\ h \in 1..n /\ f[h] = f[k]
    BY <1>3
  <2>2. g \notin S
    BY <1>3, <2>1
  <2>. QED
    BY <2>1, <2>2
<1>. QED
  BY <1>3, <1>4

LEMMA ResolutionOf ==
  ASSUME NEW jobs, Indexed(resourceIndex, jobs), NEW rs, rs \in Seq(ToSet(rs)), NEW consumer
  PROVE  Resolution(resolveResourceRequests(rs, consumer), rs, consumer)
<1>. DEFINE n == Len(rs)
            T == ToSet(resourceIndex)
            lists == [i \in 1..n |-> matchingResources(rs[i], consumer)]
            met == FlattenSeq(lists)
            opt(ref) == \A r \in ToSet(rs) : resourceMatches(r, ref) => r.optional
            with(k) == [ref |-> met[k].ref, job |-> met[k].job, artifact |-> met[k].artifact,
                        optional |-> opt(met[k].ref)]
            entries == [k \in DOMAIN met |-> with(k)]
            P == {k \in DOMAIN met : \A h \in 1..k - 1 : met[h].ref # met[k].ref}
            resolved == elementsAt(entries, P)
<1>1. n \in Nat /\ DOMAIN rs = 1..n
  BY LenOfSeq
<1>2. resolveResourceRequests(rs, consumer) = resolved
  BY <1>1 DEF resolveResourceRequests
<1>. HIDE DEF n
<1>3. \A i \in 1..n : /\ lists[i] \in Seq(T)
                      /\ ToSet(lists[i]) = {x \in T : x.job # consumer /\ resourceMatches(rs[i], x.ref)}
  BY MatchesOf
<1>4. lists \in Seq(Seq(T)) /\ DOMAIN lists = 1..n
  <2>1. lists = [i \in 1..n |-> lists[i]]
    OBVIOUS
  <2>. HIDE DEF lists, T
  <2>2. lists \in [1..n -> Seq(T)]
    BY <1>3, <2>1
  <2>. QED
    BY <1>1, <2>2, IsSequence
<1>. HIDE DEF lists
<1>5. met \in Seq(T) /\ Range(met) = UNION {Range(lists[i]) : i \in 1..n}
  <2>. HIDE DEF T
  <2>. QED
    BY <1>4, FlattenRange
<1>6. \A y : y \in Range(met) <=> y \in T /\ Asked(y, rs, consumer)
  <2>1. \A y : y \in Range(met) <=> \E i \in 1..n : y \in ToSet(lists[i])
    <3>1. \A s : Range(s) = ToSet(s)
      BY DEF ToSet, Range
    <3>. HIDE DEF met
    <3>. QED
      BY <1>5, <3>1
  <2>2. \A y : y \in Range(met) <=> \E i \in 1..n : y \in T /\ y.job # consumer /\ resourceMatches(rs[i], y.ref)
    BY <1>3, <2>1
  <2>3. (\A r \in ToSet(rs) : \E i \in 1..n : r = rs[i]) /\ \A i \in 1..n : rs[i] \in ToSet(rs)
    BY <1>1 DEF ToSet
  <2>. HIDE DEF met, T
  <2>. QED
    BY <2>2, <2>3 DEF Asked
<1>. HIDE DEF met
<1>. DEFINE l == Len(met)
<1>7. l \in Nat /\ DOMAIN met = 1..l /\ \A k \in 1..l : met[k] \in T /\ met[k] \in Range(met)
  <2>. HIDE DEF T
  <2>. QED
    BY <1>5 DEF Range
<1>. HIDE DEF l
<1>8. ASSUME NEW k \in 1..l
      PROVE  /\ with(k).ref = met[k].ref /\ with(k).job = met[k].job /\ with(k).artifact = met[k].artifact
             /\ with(k).optional = opt(met[k].ref)
  OBVIOUS

<1>9. entries \in Seq(ToSet(entries)) /\ DOMAIN entries = 1..l /\ \A k \in 1..l : entries[k] = with(k)
  <2>. HIDE DEF with
  <2>1. DOMAIN entries = 1..l /\ \A k \in 1..l : entries[k] = with(k)
    BY <1>7
  <2>2. entries = [k \in 1..l |-> with(k)]
    BY <1>7
  <2>. HIDE DEF entries
  <2>3. entries \in [1..l -> ToSet(entries)]
    BY <2>1, <2>2 DEF ToSet
  <2>. QED
    BY <1>7, <2>1, <2>3, IsSequence
<1>. HIDE DEF with, entries, opt
<1>10. resolved \in Seq(ToSet(entries)) /\ ToSet(resolved) = {entries[k] : k \in P}
  <2>. DEFINE S == ToSet(entries)
  <2>1. entries \in Seq(S) /\ P \cap DOMAIN entries = P
    BY <1>7, <1>9
  <2>. HIDE DEF S, P
  <2>2. elementsAt(entries, P) \in Seq(S) /\ ToSet(elementsAt(entries, P)) = {entries[k] : k \in P \cap DOMAIN entries}
    BY <2>1, Picked
  <2>. QED
    BY <2>1, <2>2 DEF S
<1>. HIDE DEF resolved
<1>11. resolved \in Seq(ToSet(resolved))
  <2>. DEFINE S == ToSet(entries)
  <2>1. resolved \in Seq(S)
    BY <1>10
  <2>. HIDE DEF S
  <2>2. resolved \in Seq(Range(resolved))
    BY <2>1, OfItsElements
  <2>. QED
    BY <2>2 DEF Range, ToSet
<1>12. ASSUME NEW x \in ToSet(resolved)
       PROVE  \E y \in T : Asked(y, rs, consumer) /\ Resolves(x, y, rs)
  <2>1. PICK k \in 1..l : x = with(k)
    BY <1>7, <1>9, <1>10, <1>12
  <2>. DEFINE y == met[k]
  <2>2. y \in T /\ Asked(y, rs, consumer)
    BY <1>6, <1>7
  <2>3. Resolves(x, y, rs)
    BY <1>8, <2>1 DEF Resolves, opt
  <2>. HIDE DEF y, T
  <2>. QED
    BY <2>2, <2>3
<1>13. ASSUME NEW y \in T, Asked(y, rs, consumer)
       PROVE  \E x \in ToSet(resolved) : x.ref = y.ref
  <2>1. PICK k \in 1..l : y = met[k]
    BY <1>6, <1>7, <1>13 DEF Range
  <2>. DEFINE f == [h \in 1..l |-> met[h].ref]
  <2>2. PICK h \in 1..l : f[h] = f[k] /\ \A g \in 1..h - 1 : f[g] # f[h]
    <3>. HIDE DEF f
    <3>1. l \in Nat
      BY <1>7
    <3>. QED
      BY <3>1, FirstPlace
  <2>3. \A g \in 1..h - 1 : g \in 1..l
    BY <1>7
  <2>4. met[h].ref = met[k].ref /\ \A g \in 1..h - 1 : met[g].ref # met[h].ref
    BY <2>2, <2>3
  <2>5. h \in P
    BY <1>7, <2>4
  <2>6. entries[h] \in ToSet(resolved) /\ entries[h].ref = y.ref
    BY <1>8, <1>9, <1>10, <2>1, <2>4, <2>5
  <2>. QED
    BY <2>6
<1>. QED
  BY <1>2, <1>11, <1>12, <1>13 DEF Resolution, T

\* An input of a plugin's job is the artifact of a resolved resource, once.
InputsFrom(inputs, resolved) ==
  /\ OncePerName(inputs)
  /\ \A a \in ToSet(inputs) : \E x \in ToSet(resolved) :
       /\ a.artifact = x.artifact
       /\ a.optional = \A z \in ToSet(resolved) : z.artifact.name = x.artifact.name => z.optional

LEMMA InputsOf ==
  ASSUME NEW resolved, resolved \in Seq(ToSet(resolved))
  PROVE  InputsFrom(inputArtifacts(resolved), resolved)
<1>. DEFINE n == Len(resolved)
            opt(name) == \A x \in ToSet(resolved) : x.artifact.name = name => x.optional
            input(x) == [artifact |-> x.artifact, producer |-> x.job, optional |-> opt(x.artifact.name)]
            entries == [k \in DOMAIN resolved |-> input(resolved[k])]
            P == {k \in DOMAIN resolved : \A h \in 1..k - 1 : resolved[h].artifact.name # resolved[k].artifact.name}
            inputs == elementsAt(entries, P)
<1>1. n \in Nat /\ DOMAIN resolved = 1..n
  BY LenOfSeq
<1>2. inputArtifacts(resolved) = inputs
  BY DEF inputArtifacts
<1>. HIDE DEF n
<1>3. \A x : input(x).artifact = x.artifact /\ input(x).optional = opt(x.artifact.name)
  OBVIOUS
<1>. HIDE DEF input
<1>4. DOMAIN entries = 1..n /\ \A k \in 1..n : entries[k] = input(resolved[k])
  BY <1>1
<1>5. entries \in Seq(ToSet(entries))
  <2>1. entries = [k \in 1..n |-> entries[k]]
    BY <1>1
  <2>. HIDE DEF entries
  <2>2. entries \in [1..n -> ToSet(entries)]
    BY <1>4, <2>1 DEF ToSet
  <2>. QED
    BY <1>1, <2>2, IsSequence
<1>. HIDE DEF entries
<1>6. ToSet(inputs) = {entries[k] : k \in P}
  <2>. DEFINE S == ToSet(entries)
  <2>1. entries \in Seq(S) /\ P \cap DOMAIN entries = P
    BY <1>1, <1>4, <1>5
  <2>. HIDE DEF S, P
  <2>2. ToSet(elementsAt(entries, P)) = {entries[k] : k \in P \cap DOMAIN entries}
    BY <2>1, Picked
  <2>. QED
    BY <2>1, <2>2
<1>. HIDE DEF inputs
<1>7. ASSUME NEW a \in ToSet(inputs), NEW b \in ToSet(inputs), a.artifact.name = b.artifact.name PROVE a = b
  <2>1. PICK k \in P : a = entries[k]
    BY <1>6
  <2>2. PICK h \in P : b = entries[h]
    BY <1>6
  <2>3. resolved[k].artifact.name = resolved[h].artifact.name /\ k \in 1..n /\ h \in 1..n
    BY <1>1, <1>3, <1>4, <1>7, <2>1, <2>2
  <2>4. ~(k \in 1..h - 1) /\ ~(h \in 1..k - 1)
    BY <2>1, <2>2, <2>3
  <2>5. k = h
    BY <1>1, <2>3, <2>4
  <2>. QED
    BY <2>1, <2>2, <2>5
<1>8. ASSUME NEW a \in ToSet(inputs)
      PROVE  \E x \in ToSet(resolved) : a.artifact = x.artifact /\ a.optional = opt(x.artifact.name)
  <2>1. PICK k \in P : a = entries[k]
    BY <1>6
  <2>2. k \in 1..n /\ resolved[k] \in ToSet(resolved)
    BY <1>1 DEF ToSet
  <2>. HIDE DEF opt
  <2>. QED
    BY <1>3, <1>4, <2>1, <2>2
<1>. QED
  BY <1>2, <1>7, <1>8 DEF InputsFrom, OncePerName

-----------------------------------------------------------------------------
(* What is known of the IR *)

\* The terraform jobs: those the builder makes of the targets, and no other
TerraformJobs(jobs) ==
  /\ \A m \in wanted : buildPlanJob(m) \in ToSet(jobs)
  /\ build.apply => \A m \in build.targets : buildApplyJob(m) \in ToSet(jobs)
  /\ \A j \in ToSet(jobs) :
       \/ j.kind = "command" /\ j.module = NoModule /\ \E c \in ToSet(build.jobs) : j.name = c.name
       \/ \E m \in wanted : j = buildPlanJob(m)
       \/ build.apply /\ \E m \in build.targets : j = buildApplyJob(m)

\* The contributed jobs are the last ones, and not resolved yet.
CommandsLast(jobs) ==
  /\ Len(build.jobs) <= Len(jobs)
  /\ \A i \in DOMAIN build.jobs : jobs[Len(jobs) - Len(build.jobs) + i] = newCommandJob(build.jobs[i])

\* What a contributed job c asks of job k is what job j takes.
Serves(j, c, k, ref, r) ==
  /\ ref \in ToSet(j.consumes)
  /\ \A a \in ToSet(j.inputs) : a.artifact.name = k.output.name /\ a.optional => r.optional

Answered(jobs) ==
  \A c \in ToSet(build.jobs) : \E j \in ToSet(jobs) :
    /\ j.name = c.name /\ j.produces = c.produces /\ (c.consumes = <<>> => j.consumes = <<>>)
    /\ \A r \in ToSet(c.consumes) : \A k \in ToSet(jobs) : \A ref \in ToSet(k.produces) :
         k.name # c.name /\ resourceMatches(r, ref) => Serves(j, c, k, ref, r)

\* Unless a plugin names a job twice, or two modules have one name
DepsOnce(jobs) ==
  OneName /\ (\A c \in ToSet(build.jobs) : IsInjective(c.deps)) => \A j \in ToSet(jobs) : IsInjective(j.deps)

BuildInv ==
  /\ build \in Builds /\ stage \in {"prepare", "jobs", "resolve", "validate", "done", "failed"}
  /\ stage \notin {"prepare", "failed"} => Scoped(subgraph) /\ GraphOk(subgraph) /\ TopologicalSort(subgraph).ok
  /\ stage \in {"resolve", "validate", "done"} => InputsInv(ir) /\ TerraformJobs(ir) /\ DepsOnce(ir)
  /\ stage = "resolve" => CommandsLast(ir)
  /\ stage \in {"validate", "done"} => Answered(ir)

\* What reads the request and the graph only
LEMMA SameRequest ==
  ASSUME build' = build, subgraph' = subgraph
  PROVE  /\ wanted' = wanted /\ \A m : buildPlanJob(m)' = buildPlanJob(m) /\ buildApplyJob(m)' = buildApplyJob(m)
         /\ \A jobs : /\ TerraformJobs(jobs)' = TerraformJobs(jobs) /\ Answered(jobs)' = Answered(jobs)
                       /\ DepsOnce(jobs)' = DepsOnce(jobs)
         /\ Scoped(subgraph)' = Scoped(subgraph)
<1>1. /\ \A m : moduleNeedsPlanJob(m)' = moduleNeedsPlanJob(m)
      /\ \A m, kind : planOutputs(m, kind)' = planOutputs(m, kind)
      /\ \A m, kind : resolveDependencyNames(m, kind)' = resolveDependencyNames(m, kind)
  BY DEF moduleNeedsPlanJob, planOutputs, requests, resolveDependencyNames
<1>2. wanted' = wanted
  BY <1>1 DEF wanted
<1>3. \A m : planArtifact(m)' = planArtifact(m) /\ planResources(m)' = planResources(m)
  BY <1>1 DEF planArtifact, planResources
<1>4. \A m : buildPlanJob(m)' = buildPlanJob(m) /\ buildApplyJob(m)' = buildApplyJob(m)
  BY <1>1, <1>3 DEF buildPlanJob, buildApplyJob
<1>5. \A jobs : /\ TerraformJobs(jobs)' = TerraformJobs(jobs) /\ Answered(jobs)' = Answered(jobs)
                /\ DepsOnce(jobs)' = DepsOnce(jobs)
  BY <1>2, <1>4 DEF TerraformJobs, Answered, DepsOnce, OneName
<1>. QED
  BY <1>2, <1>4, <1>5 DEF Scoped

LEMMA PrepareKeepsBuild ==
  ASSUME BuildInv, PrepareModuleGraph
  PROVE  BuildInv'
<1>1. /\ build' = build /\ stage' \in {"jobs", "failed"} /\ subgraph' = Subgraph(build.G, build.targets)
      /\ stage' = "jobs" => TopologicalSort(subgraph').ok
  BY DEF PrepareModuleGraph
<1>2. GraphOk(subgraph') /\ Scoped(subgraph')
  BY <1>1, SubgraphOf DEF BuildInv
<1>3. Scoped(subgraph)' = Scoped(subgraph')
  BY <1>1 DEF Scoped
<1>. QED
  BY <1>1, <1>2, <1>3 DEF BuildInv

\* The names of the jobs of modules with different names are different.
LEMMA NamesApart ==
  ASSUME NEW m \in IDs, NEW d \in IDs, NEW x, NEW y, jobName(x, m) = jobName(y, d)
  PROVE  x = y /\ Words[m] = Words[d]
<1>. DEFINE T == ToSet(Words[m]) \cup ToSet(Words[d]) \cup {x, y}
<1>1. Words[m] \in Seq(T) /\ Words[d] \in Seq(T) /\ <<x>> \in Seq(T) /\ <<y>> \in Seq(T)
  <2>. DEFINE M == ToSet(Words[m])
              D == ToSet(Words[d])
  <2>1. Words[m] \in Seq(M) /\ Words[d] \in Seq(D) /\ M \subseteq T /\ D \subseteq T /\ x \in T /\ y \in T
    BY WordsAssumption
  <2>. HIDE DEF T, M, D
  <2>. QED
    BY <2>1
<1>. HIDE DEF T
<1>2. /\ <<x>> \o Words[m] \in Seq(T) /\ <<y>> \o Words[d] \in Seq(T) /\ <<x>> \o Words[m] = <<y>> \o Words[d]
  BY <1>1 DEF jobName
<1>3. (<<x>> \o Words[m])[1] = x /\ (<<y>> \o Words[d])[1] = y
  BY <1>1
<1>4. Tail(<<x>> \o Words[m]) = Words[m] /\ Tail(<<y>> \o Words[d]) = Words[d]
  BY <1>1
<1>. QED
  BY <1>2, <1>3, <1>4

\* A module names what it depends on once, and its plan is another job.
LEMMA TerraformDepsOnce ==
  ASSUME build \in Builds, GraphOk(subgraph), Scoped(subgraph), OneName, NEW m \in build.targets
  PROVE  IsInjective(buildPlanJob(m).deps) /\ IsInjective(buildApplyJob(m).deps)
<1>. DEFINE e == subgraph.edges[m]
            T == {jobName(kind, d) : kind \in {"plan", "apply"}, d \in IDs}
<1>1. /\ m \in IDs /\ build.targets \subseteq IDs /\ e \in Seq(IDs) /\ IsInjective(e)
      /\ ToSet(e) \subseteq build.targets
  BY BuildsAssumption DEF GraphOk, Scoped
<1>2. \A kind : resolveDependencyNames(m, kind) = [i \in DOMAIN e |-> jobName(kind, e[i])]
  BY DEF resolveDependencyNames
<1>. HIDE DEF e
<1>3. \A i \in DOMAIN e : e[i] \in build.targets
  BY <1>1 DEF ToSet
<1>4. ASSUME NEW kind PROVE IsInjective(resolveDependencyNames(m, kind))
  <2>1. SUFFICES ASSUME NEW i \in DOMAIN e, NEW k \in DOMAIN e, jobName(kind, e[i]) = jobName(kind, e[k])
                 PROVE  i = k
    BY <1>2 DEF IsInjective
  <2>2. e[i] = e[k]
    BY <1>1, <1>3, <2>1, NamesApart DEF OneName
  <2>. QED
    BY <1>1, <2>2 DEF IsInjective
<1>5. resolveDependencyNames(m, "apply") \in Seq(T) /\ <<jobName("plan", m)>> \in Seq(T)
  <2>1. DOMAIN e = 1..Len(e) /\ Len(e) \in Nat /\ \A i \in 1..Len(e) : jobName("apply", e[i]) \in T
    BY <1>1
  <2>2. jobName("plan", m) \in T
    BY <1>1
  <2>. HIDE DEF T
  <2>3. resolveDependencyNames(m, "apply") \in [1..Len(e) -> T]
    BY <1>2, <2>1
  <2>. QED
    BY <2>1, <2>2, <2>3, IsSequence
<1>6. IsInjective(<<jobName("plan", m)>>)
  BY DEF IsInjective
<1>7. \A x \in Range(<<jobName("plan", m)>>) : x \notin Range(resolveDependencyNames(m, "apply"))
  <2>1. \A i \in DOMAIN e : jobName("apply", e[i]) # jobName("plan", m)
    BY <1>1, <1>3, NamesApart
  <2>2. Range(<<jobName("plan", m)>>) = {jobName("plan", m)}
    BY DEF Range
  <2>. QED
    BY <1>2, <2>1, <2>2 DEF Range
<1>8. /\ buildPlanJob(m).deps = resolveDependencyNames(m, IF build.apply THEN "apply" ELSE "plan")
      /\ buildApplyJob(m).deps = <<jobName("plan", m)>> \o resolveDependencyNames(m, "apply")
  BY DEF buildPlanJob, buildApplyJob
<1>. HIDE DEF T
<1>. QED
  BY <1>4, <1>5, <1>6, <1>7, <1>8, InjectiveConcat

LEMMA BuildJobsKeepsBuild ==
  ASSUME BuildInv, BuildJobs
  PROVE  BuildInv'
<1>. DEFINE commands == [i \in DOMAIN build.jobs |-> newCommandJob(build.jobs[i])]
            mods == Range(buildModuleJobs)
            coms == Range(commands)
<1>1. /\ build' = build /\ subgraph' = subgraph /\ stage = "jobs" /\ stage' = "resolve" /\ build \in Builds
      /\ GraphOk(subgraph) /\ Scoped(subgraph) /\ TopologicalSort(subgraph).ok
      /\ ir' = buildModuleJobs \o commands
  BY DEF BuildJobs, BuildInv
<1>2. /\ buildModuleJobs \in Seq(mods)
      /\ \A j \in mods : \E m \in build.targets : j \in Range(jobsOfModule(m))
      /\ \A m \in build.targets : Range(jobsOfModule(m)) \subseteq mods
  BY <1>1, ModuleJobs
<1>3. /\ commands \in Seq(coms)
      /\ \A j \in coms : \E c \in ToSet(build.jobs) : j = newCommandJob(c)
      /\ Len(commands) = Len(build.jobs) /\ Len(build.jobs) \in Nat /\ DOMAIN build.jobs = 1..Len(build.jobs)
      /\ \A i \in DOMAIN build.jobs : commands[i] = newCommandJob(build.jobs[i])
  <2>. DEFINE n == Len(build.jobs)
  <2>1. build.jobs \in Seq(ToSet(build.jobs))
    BY <1>1, BuildsAssumption
  <2>2. n \in Nat /\ DOMAIN build.jobs = 1..n
    BY <2>1, LenOfSeq
  <2>. HIDE DEF n
  <2>3. commands \in [1..n -> coms] /\ DOMAIN commands = 1..n
    BY <2>2 DEF Range
  <2>4. \A j \in coms : \E i \in DOMAIN build.jobs : j = newCommandJob(build.jobs[i])
    BY DEF Range
  <2>5. \A i \in DOMAIN build.jobs : commands[i] = newCommandJob(build.jobs[i]) /\ build.jobs[i] \in ToSet(build.jobs)
    BY DEF ToSet
  <2>. HIDE DEF commands, coms
  <2>6. commands \in Seq(coms) /\ Len(commands) = n
    BY <2>2, <2>3, IsSequence
  <2>. QED
    BY <2>2, <2>4, <2>5, <2>6 DEF n
<1>. HIDE DEF commands
<1>4. ir' \in Seq(mods \cup coms) /\ ToSet(ir') = mods \cup coms
  <2>1. buildModuleJobs \in Seq(mods \cup coms) /\ commands \in Seq(mods \cup coms)
    <3>. HIDE DEF mods, coms
    <3>. QED
      BY <1>2, <1>3
  <2>. DEFINE entries == buildModuleJobs \o commands
  <2>2. entries \in Seq(mods \cup coms) /\ Range(entries) = mods \cup coms
    <3>. DEFINE T == mods \cup coms
    <3>1. buildModuleJobs \in Seq(T) /\ commands \in Seq(T)
      BY <2>1
    <3>. HIDE DEF T
    <3>2. Range(entries) = Range(buildModuleJobs) \cup Range(commands) /\ entries \in Seq(T)
      BY <3>1, RangeOfConcat
    <3>. QED
      BY <3>2 DEF T
  <2>3. Range(entries) = ToSet(entries)
    BY DEF Range, ToSet
  <2>. QED
    BY <1>1, <2>2, <2>3
<1>5. CommandsLast(ir')
  <2>1. Len(buildModuleJobs) \in Nat /\ Len(ir') = Len(buildModuleJobs) + Len(build.jobs)
    <3>. HIDE DEF mods, coms
    <3>. QED
      BY <1>1, <1>2, <1>3
  <2>2. \A i \in DOMAIN build.jobs : ir'[Len(buildModuleJobs) + i] = commands[i]
    <3>. HIDE DEF mods, coms
    <3>. QED
      BY <1>1, <1>2, <1>3
  <2>3. Len(ir') - Len(build.jobs) = Len(buildModuleJobs)
    BY <1>3, <2>1
  <2>. QED
    BY <1>3, <2>1, <2>2, <2>3 DEF CommandsLast
<1>. HIDE DEF mods, coms
<1>6. \A m \in build.targets : Range(jobsOfModule(m)) = (IF moduleNeedsPlanJob(m) THEN {buildPlanJob(m)} ELSE {})
                                                        \cup (IF build.apply THEN {buildApplyJob(m)} ELSE {})
  BY JobsOfModule
<1>7. build.apply => wanted = build.targets
  BY DEF wanted, moduleNeedsPlanJob
<1>8. TerraformJobs(ir')
  <2>1. \A m \in wanted : buildPlanJob(m) \in ToSet(ir')
    BY <1>2, <1>4, <1>6 DEF wanted
  <2>2. build.apply => \A m \in build.targets : buildApplyJob(m) \in ToSet(ir')
    BY <1>2, <1>4, <1>6
  <2>3. ASSUME NEW j \in ToSet(ir')
        PROVE  \/ j.kind = "command" /\ j.module = NoModule /\ \E c \in ToSet(build.jobs) : j.name = c.name
               \/ \E m \in wanted : j = buildPlanJob(m)
               \/ build.apply /\ \E m \in build.targets : j = buildApplyJob(m)
    <3>1. CASE j \in coms
      BY <1>1, <1>3, <3>1, CommandShape
    <3>2. CASE j \in mods
      <4>1. PICK m \in build.targets : j \in Range(jobsOfModule(m))
        BY <1>2, <3>2
      <4>2. \/ moduleNeedsPlanJob(m) /\ j = buildPlanJob(m)
            \/ build.apply /\ j = buildApplyJob(m)
        BY <1>6, <4>1
      <4>3. moduleNeedsPlanJob(m) => m \in wanted
        BY DEF wanted
      <4>. QED
        BY <4>2, <4>3
    <3>. QED
      BY <1>4, <3>1, <3>2
  <2>. QED
    BY <2>1, <2>2, <2>3 DEF TerraformJobs
<1>9. InputsInv(ir')
  <2>1. ir' \in Seq(ToSet(ir'))
    BY <1>4
  <2>2. ASSUME NEW j \in ToSet(ir')
        PROVE  /\ JobShape(j) /\ OncePerName(j.inputs)
               /\ \A i \in ToSet(j.inputs) : \E k \in ToSet(ir') : i.artifact = k.output
    <3>1. CASE j \in coms
      <4>1. JobShape(j) /\ j.inputs = <<>>
        BY <1>1, <1>3, <3>1, CommandShape
      <4>2. ToSet(j.inputs) = {}
        BY <4>1 DEF ToSet
      <4>. QED
        BY <4>1, <4>2 DEF OncePerName
    <3>2. CASE j \in mods
      <4>1. PICK m \in build.targets : j \in Range(jobsOfModule(m))
        BY <1>2, <3>2
      <4>2. \/ j = buildPlanJob(m)
            \/ j = buildApplyJob(m) /\ buildPlanJob(m) \in ToSet(ir')
        BY <1>2, <1>4, <1>6, <1>7, <4>1 DEF wanted
      <4>3. CASE j = buildPlanJob(m)
        <5>1. JobShape(j) /\ ToSet(j.inputs) = {}
          BY <4>3, PlanShape DEF ToSet
        <5>. QED
          BY <5>1 DEF OncePerName
      <4>4. CASE j = buildApplyJob(m) /\ buildPlanJob(m) \in ToSet(ir')
        BY <4>4, PlanShape
      <4>. QED
        BY <4>2, <4>3, <4>4
    <3>. QED
      BY <1>4, <3>1, <3>2
  <2>. QED
    BY <2>1, <2>2 DEF InputsInv
<1>9a. DepsOnce(ir')
  <2>1. SUFFICES ASSUME OneName, \A c \in ToSet(build.jobs) : IsInjective(c.deps), NEW j \in ToSet(ir')
                 PROVE  IsInjective(j.deps)
    BY DEF DepsOnce
  <2>2. CASE j \in coms
    BY <1>3, <2>1, <2>2 DEF newCommandJob
  <2>3. CASE j \in mods
    <3>1. PICK m \in build.targets : j \in Range(jobsOfModule(m))
      BY <1>2, <2>3
    <3>2. j = buildPlanJob(m) \/ j = buildApplyJob(m)
      BY <1>6, <3>1
    <3>. QED
      BY <1>1, <2>1, <3>2, TerraformDepsOnce
  <2>. QED
    BY <1>4, <2>2, <2>3
<1>10. /\ TerraformJobs(ir)' /\ CommandsLast(ir)' /\ InputsInv(ir)' /\ Scoped(subgraph)' /\ GraphOk(subgraph)'
       /\ DepsOnce(ir)'
  <2>1. TerraformJobs(ir)' <=> TerraformJobs(ir')
    <3>1. wanted' = wanted /\ \A m : buildPlanJob(m)' = buildPlanJob(m) /\ buildApplyJob(m)' = buildApplyJob(m)
      BY <1>1, SameRequest
    <3>. QED
      BY <1>1, <3>1 DEF TerraformJobs
  <2>2. CommandsLast(ir)' <=> CommandsLast(ir')
    BY <1>1 DEF CommandsLast
  <2>3. Scoped(subgraph)' = Scoped(subgraph)
    BY <1>1, SameRequest
  <2>4. DepsOnce(ir)' <=> DepsOnce(ir')
    BY <1>1 DEF DepsOnce, OneName
  <2>. QED
    BY <1>1, <1>5, <1>8, <1>9, <1>9a, <2>1, <2>2, <2>3, <2>4
<1>. QED
  BY <1>1, <1>10 DEF BuildInv

\* A resource has one producer: what the resource index of the code refuses.
LEMMA OneProducer ==
  ASSUME NEW jobs, jobs \in Seq(ToSet(jobs)), \A j \in ToSet(jobs) : JobShape(j), buildResourceIndex(jobs),
         NEW i \in DOMAIN jobs, NEW h \in DOMAIN jobs, NEW ref,
         ref \in ToSet(jobs[i].produces), ref \in ToSet(jobs[h].produces)
  PROVE  i = h
<1>. DEFINE places(g) == {k \in DOMAIN jobs[g].produces : jobs[g].produces[k] = ref}
            n == Len(jobs)
            entries == producersOf(jobs, ref)
<1>1. n \in Nat /\ DOMAIN jobs = 1..n
  BY LenOfSeq
<1>. HIDE DEF n
<1>2. \A g \in 1..n : IsFiniteSet({g} \X places(g))
  <2>. SUFFICES ASSUME NEW g \in 1..n PROVE IsFiniteSet({g} \X places(g))
    OBVIOUS
  <2>. DEFINE l == Len(jobs[g].produces)
  <2>1. JobShape(jobs[g])
    BY <1>1 DEF ToSet
  <2>2. l \in Nat /\ DOMAIN jobs[g].produces = 1..l
    BY <2>1, LenOfSeq DEF JobShape
  <2>. HIDE DEF l
  <2>3. IsFiniteSet(1..l) /\ places(g) \subseteq 1..l
    BY <2>2, FS_Interval
  <2>. HIDE DEF places
  <2>4. IsFiniteSet(places(g)) /\ IsFiniteSet({g})
    BY <2>3, FS_Subset, FS_Singleton
  <2>. QED
    BY <2>4, FS_Product
<1>3. entries = UNION {{g} \X places(g) : g \in 1..n}
  BY <1>1 DEF producersOf
<1>. HIDE DEF places
<1>4. IsFiniteSet(entries)
  <2>. DEFINE parts == {{g} \X places(g) : g \in 1..n}
  <2>1. IsFiniteSet(1..n)
    BY <1>1, FS_Interval
  <2>2. IsFiniteSet(parts)
    <3>. DEFINE f == [g \in 1..n |-> {g} \X places(g)]
    <3>1. f \in Surjection(1..n, parts)
      BY DEF Surjection
    <3>. HIDE DEF f, parts
    <3>. QED
      BY <2>1, <3>1, FS_Surjection
  <2>3. \A T \in parts : IsFiniteSet(T)
    BY <1>2
  <2>. HIDE DEF parts
  <2>4. IsFiniteSet(UNION parts)
    BY <2>2, <2>3, FS_UNION
  <2>. QED
    BY <1>3, <2>4 DEF parts
<1>5. Cardinality(entries) = 1
  <2>1. jobs[i] \in ToSet(jobs)
    BY DEF ToSet
  <2>. QED
    BY <2>1 DEF buildResourceIndex
<1>6. PICK one : entries = {one}
  BY <1>4, <1>5, FS_Singleton
<1>7. \A g \in 1..n : ref \in ToSet(jobs[g].produces) => \E k : <<g, k>> \in entries
  <2>. SUFFICES ASSUME NEW g \in 1..n, ref \in ToSet(jobs[g].produces) PROVE \E k : <<g, k>> \in entries
    OBVIOUS
  <2>1. PICK k \in DOMAIN jobs[g].produces : jobs[g].produces[k] = ref
    BY DEF ToSet
  <2>2. <<g, k>> \in {g} \X places(g)
    BY <2>1 DEF places
  <2>. QED
    BY <1>3, <2>2
<1>8. PICK k : <<i, k>> \in entries
  BY <1>1, <1>7
<1>9. PICK l : <<h, l>> \in entries
  BY <1>1, <1>7
<1>. HIDE DEF entries
<1>. QED
  BY <1>6, <1>8, <1>9

\* The producers that are added are not waited for yet.
LEMMA MergedOnce ==
  ASSUME NEW deps, deps \in Seq(ToSet(deps)), IsInjective(deps), NEW resolved, resolved \in Seq(ToSet(resolved))
  PROVE  IsInjective(mergeJobDependency(deps, resolved))
<1>. DEFINE names == [k \in DOMAIN resolved |-> resolved[k].job]
            N == {x.job : x \in ToSet(resolved)}
            T == ToSet(deps) \cup N
            P == {k \in DOMAIN names : ~Contains(deps, names[k]) /\ \A h \in 1..k - 1 : names[h] # names[k]}
            n == Len(resolved)
<1>1. n \in Nat /\ DOMAIN resolved = 1..n
  BY LenOfSeq
<1>. HIDE DEF n
<1>2. deps \in Seq(T)
  <2>. DEFINE S == ToSet(deps)
  <2>1. deps \in Seq(S) /\ S \subseteq T
    OBVIOUS
  <2>. HIDE DEF S, T
  <2>. QED
    BY <2>1
<1>3. names \in Seq(T) /\ DOMAIN names = 1..n
  <2>1. \A k \in 1..n : resolved[k].job \in T
    BY <1>1 DEF ToSet
  <2>. HIDE DEF T
  <2>2. names \in [1..n -> T]
    BY <1>1, <2>1
  <2>. HIDE DEF names
  <2>. QED
    BY <1>1, <2>2, IsSequence
<1>. HIDE DEF T, names
<1>4. \A k, l \in P \cap DOMAIN names : names[k] = names[l] => k = l
  <2>1. SUFFICES ASSUME NEW k \in P, NEW l \in P, names[k] = names[l], k # l PROVE FALSE
    OBVIOUS
  <2>2. k \in 1..n /\ l \in 1..n
    BY <1>3
  <2>3. k \in 1..l - 1 \/ l \in 1..k - 1
    BY <1>1, <2>1, <2>2
  <2>. QED
    BY <2>1, <2>3
<1>5. \A x \in Range(deps) : \E h \in DOMAIN deps : x = deps[h]
  BY DEF Range
<1>6. \A k \in P \cap DOMAIN names : names[k] \notin Range(deps)
  <2>1. DOMAIN deps = 1..Len(deps)
    BY <1>2
  <2>. QED
    BY <1>5, <2>1 DEF Contains
<1>. HIDE DEF P
<1>7. IsInjective(elementsAt(names, P))
  BY <1>3, <1>4, PickedOnce
<1>8. elementsAt(names, P) \in Seq(T) /\ ToSet(elementsAt(names, P)) = {names[k] : k \in P \cap DOMAIN names}
  BY <1>3, Picked
<1>9. \A x \in Range(deps) : x \notin Range(elementsAt(names, P))
  <2>1. Range(elementsAt(names, P)) = ToSet(elementsAt(names, P))
    BY DEF Range, ToSet
  <2>. QED
    BY <1>6, <1>8, <2>1
<1>10. mergeJobDependency(deps, resolved) = deps \o elementsAt(names, P)
  BY DEF mergeJobDependency, names, P
<1>. QED
  BY <1>2, <1>7, <1>8, <1>9, <1>10, InjectiveConcat

\* Resolution changes the consumes, the inputs and the dependencies of a job.
SameJob(new, old) ==
  /\ new.name = old.name /\ new.kind = old.kind /\ new.module = old.module
  /\ new.output = old.output /\ new.produces = old.produces

LEMMA ResolvedJob ==
  ASSUME NEW j, DOMAIN j = JobFields, NEW c, NEW resolved, resolved = resolveResourceRequests(c.consumes, j.name)
  PROVE  /\ DOMAIN resolveJob(j, c) = JobFields /\ SameJob(resolveJob(j, c), j)
         /\ resolveJob(j, c).consumes = [k \in DOMAIN resolved |-> resolved[k].ref]
         /\ resolveJob(j, c).inputs = inputArtifacts(resolved)
         /\ resolveJob(j, c).deps = mergeJobDependency(j.deps, resolved)
BY DEF resolveJob, JobFields, SameJob

LEMMA ResolveKeepsBuild ==
  ASSUME BuildInv, ResolveResources
  PROVE  BuildInv'
<1>. DEFINE start == Len(ir) - Len(build.jobs)
<1>1. /\ build' = build /\ subgraph' = subgraph /\ stage = "resolve" /\ stage' \in {"validate", "failed"}
      /\ InputsInv(ir) /\ TerraformJobs(ir) /\ CommandsLast(ir) /\ DepsOnce(ir) /\ build \in Builds
      /\ GraphOk(subgraph) /\ Scoped(subgraph) /\ TopologicalSort(subgraph).ok
      /\ stage' = "validate" => /\ buildResourceIndex(ir)
                                /\ ir' = [i \in DOMAIN ir |-> IF i <= start THEN ir[i]
                                                              ELSE resolveJob(ir[i], build.jobs[i - start])]
  BY DEF ResolveResources, BuildInv
<1>2. CASE stage' = "failed"
  BY <1>1, <1>2, SameRequest DEF BuildInv
<1>3. CASE stage' = "validate"
  <2>. DEFINE n == Len(ir)
  <2>1. n \in Nat /\ DOMAIN ir = 1..n /\ \A i \in 1..n : ir[i] \in ToSet(ir)
    <3>1. n \in Nat /\ DOMAIN ir = 1..n
      BY <1>1, LenOfSeq DEF InputsInv
    <3>. QED
      BY <3>1 DEF ToSet
  <2>2. /\ Len(build.jobs) \in Nat /\ DOMAIN build.jobs = 1..Len(build.jobs)
        /\ \A i \in DOMAIN build.jobs : build.jobs[i] \in ToSet(build.jobs)
    <3>1. build.jobs \in Seq(ToSet(build.jobs))
      BY <1>1, BuildsAssumption
    <3>2. Len(build.jobs) \in Nat /\ DOMAIN build.jobs = 1..Len(build.jobs)
      BY <3>1, LenOfSeq
    <3>. QED
      BY <3>2 DEF ToSet
  <2>3. start \in 0..n /\ Len(build.jobs) = n - start
    BY <1>1, <2>1, <2>2 DEF CommandsLast
  <2>4. \A i \in 1..n : i > start =>
          /\ i - start \in DOMAIN build.jobs
          /\ ir[i] = newCommandJob(build.jobs[i - start])
    <3>. SUFFICES ASSUME NEW i \in 1..n, i > start
                  PROVE  i - start \in DOMAIN build.jobs /\ ir[i] = newCommandJob(build.jobs[i - start])
      OBVIOUS
    <3>0. \A N \in Nat : \A st \in 0..N : \A l \in Int : \A h \in 1..N :
            (l = N - st /\ h > st) => h - st \in 1..l /\ st + (h - st) = h
      OBVIOUS
    <3>1. i - start \in 1..Len(build.jobs) /\ start + (i - start) = i
      <4>1. n \in Nat /\ start \in 0..n /\ Len(build.jobs) = n - start
        BY <2>1, <2>3
      <4>2. Len(build.jobs) \in Int
        BY <4>1
      <4>. HIDE DEF n, start
      <4>. QED
        BY <3>0, <4>1, <4>2
    <3>2. \A h \in DOMAIN build.jobs : ir[start + h] = newCommandJob(build.jobs[h])
      BY <1>1 DEF CommandsLast
    <3>. QED
      BY <2>2, <3>1, <3>2
  <2>5. \A h \in DOMAIN build.jobs : start + h \in 1..n /\ start + h > start /\ (start + h) - start = h
    BY <2>1, <2>2, <2>3
  <2>6. DOMAIN ir' = 1..n /\ \A i \in 1..n : ir'[i] = IF i <= start THEN ir[i] ELSE resolveJob(ir[i], build.jobs[i - start])
    BY <1>1, <1>3, <2>1
  <2>7. \A i \in 1..n : i <= start \/ i > start
    BY <2>1, <2>3
  <2>8. \A i \in 1..n : ~(i <= start /\ i > start)
    BY <2>1, <2>3
  <2>. HIDE DEF start, n
  <2>9. Indexed(resourceIndex, ir)
    BY <1>1, IndexOf DEF InputsInv
  <2>. DEFINE asked(i) == build.jobs[i - start]
              resolved(i) == resolveResourceRequests(asked(i).consumes, asked(i).name)
  <2>10. ASSUME NEW i \in 1..n, i > start
         PROVE  /\ asked(i) \in ToSet(build.jobs) /\ ir[i].name = asked(i).name /\ ir[i].produces = asked(i).produces
                /\ ir[i].kind = "command" /\ ir[i].module = NoModule
                /\ DOMAIN ir'[i] = JobFields /\ SameJob(ir'[i], ir[i])
                /\ ir'[i].consumes = [k \in DOMAIN resolved(i) |-> resolved(i)[k].ref]
                /\ ir'[i].inputs = inputArtifacts(resolved(i))
                /\ Resolution(resolved(i), asked(i).consumes, asked(i).name)
                /\ InputsFrom(ir'[i].inputs, resolved(i))
                /\ IsInjective(asked(i).deps) => IsInjective(ir'[i].deps)
    <3>1. asked(i) \in ToSet(build.jobs) /\ ir[i] = newCommandJob(asked(i)) /\ ir'[i] = resolveJob(ir[i], asked(i))
      BY <2>2, <2>4, <2>6, <2>7, <2>8, <2>10
    <3>. DEFINE c == asked(i)
                rs == resolved(i)
    <3>. HIDE DEF c, asked
    <3>2. JobShape(ir[i]) /\ ir[i].name = c.name /\ ir[i].produces = c.produces /\ ir[i].kind = "command" /\ ir[i].module = NoModule
      BY <1>1, <3>1, CommandShape DEF c
    <3>3. rs = resolveResourceRequests(c.consumes, ir[i].name)
      BY <3>2 DEF c
    <3>. HIDE DEF rs, resolved
    <3>4. /\ DOMAIN ir'[i] = JobFields /\ SameJob(ir'[i], ir[i])
          /\ ir'[i].consumes = [k \in DOMAIN rs |-> rs[k].ref] /\ ir'[i].inputs = inputArtifacts(rs)
          /\ ir'[i].deps = mergeJobDependency(ir[i].deps, rs)
      BY <3>1, <3>2, <3>3, ResolvedJob DEF JobShape, c
    <3>5. c.consumes \in Seq(ToSet(c.consumes))
      BY <1>1, <3>1, BuildsAssumption DEF c
    <3>6. Resolution(rs, c.consumes, c.name)
      BY <2>9, <3>2, <3>3, <3>5, ResolutionOf
    <3>7. InputsFrom(ir'[i].inputs, rs)
      BY <3>4, <3>6, InputsOf DEF Resolution
    <3>8. IsInjective(c.deps) => IsInjective(ir'[i].deps)
      <4>1. ir[i].deps = c.deps
        BY <3>1 DEF c, newCommandJob
      <4>1a. c \in ToSet(build.jobs)
        BY <3>1 DEF c
      <4>1b. c.deps \in Seq(ToSet(c.deps))
        BY <1>1, <4>1a, BuildsAssumption
      <4>2. rs \in Seq(ToSet(rs))
        BY <3>6 DEF Resolution
      <4>. QED
        BY <3>4, <4>1, <4>1b, <4>2, MergedOnce
    <3>. QED
      BY <3>1, <3>2, <3>4, <3>6, <3>7, <3>8 DEF c, rs
  <2>. HIDE DEF asked, resolved
  <2>11. ASSUME NEW i \in 1..n PROVE SameJob(ir'[i], ir[i]) /\ JobShape(ir'[i])
    <3>1. JobShape(ir[i])
      BY <1>1, <2>1 DEF InputsInv
    <3>2. CASE i <= start
      BY <2>6, <3>1, <3>2 DEF SameJob
    <3>3. CASE i > start
      BY <2>10, <3>1, <3>3 DEF SameJob, JobShape
    <3>. QED
      BY <2>7, <3>2, <3>3
  <2>12. (\A j \in ToSet(ir') : \E i \in 1..n : j = ir'[i]) /\ \A i \in 1..n : ir'[i] \in ToSet(ir')
    BY <2>6 DEF ToSet
  <2>13. InputsInv(ir')
    <3>1. ir' \in Seq(ToSet(ir'))
      <4>1. ir' = [i \in 1..n |-> ir'[i]]
        BY <1>1, <1>3, <2>1, <2>6
      <4>2. ir' \in [1..n -> ToSet(ir')]
        BY <2>12, <4>1
      <4>. QED
        BY <2>1, <4>2, IsSequence
    <3>2. ASSUME NEW i \in 1..n
          PROVE  /\ OncePerName(ir'[i].inputs)
                 /\ \A a \in ToSet(ir'[i].inputs) : \E k \in ToSet(ir') : a.artifact = k.output
      <4>0. \A k \in ToSet(ir) : \E h \in 1..n : k.output = ir'[h].output
        <5>1. \A k \in ToSet(ir) : \E h \in 1..n : k = ir[h]
          BY <2>1 DEF ToSet
        <5>. QED
          BY <2>11, <5>1 DEF SameJob
      <4>1. CASE i <= start
        <5>1. ir'[i] = ir[i] /\ ir[i] \in ToSet(ir)
          BY <2>1, <2>6, <4>1
        <5>2. OncePerName(ir[i].inputs) /\ \A a \in ToSet(ir[i].inputs) : \E k \in ToSet(ir) : a.artifact = k.output
          BY <1>1, <5>1 DEF InputsInv
        <5>. QED
          BY <2>12, <4>0, <5>1, <5>2
      <4>2. CASE i > start
        <5>0. InputsFrom(ir'[i].inputs, resolved(i))
          BY <2>10, <4>2
        <5>1. OncePerName(ir'[i].inputs) /\ \A a \in ToSet(ir'[i].inputs) : \E x \in ToSet(resolved(i)) : a.artifact = x.artifact
          BY <5>0 DEF InputsFrom
        <5>2. \A x \in ToSet(resolved(i)) : \E y \in ToSet(resourceIndex) : x.artifact = y.artifact
          BY <2>10, <4>2 DEF Resolution, Resolves
        <5>3. \A y \in ToSet(resourceIndex) : \E k \in ToSet(ir) : y.artifact = k.output
          BY <2>9 DEF Indexed, Entry
        <5>. QED
          BY <2>12, <4>0, <5>1, <5>2, <5>3
      <4>. QED
        BY <2>7, <4>1, <4>2
    <3>. QED
      BY <2>11, <2>12, <3>1, <3>2 DEF InputsInv
  <2>14. TerraformJobs(ir')
    <3>1. ASSUME NEW j \in ToSet(ir), j.kind # "command" PROVE j \in ToSet(ir')
      <4>1. PICK i \in 1..n : j = ir[i]
        BY <2>1 DEF ToSet
      <4>2. i <= start
        BY <2>7, <2>10, <3>1, <4>1
      <4>. QED
        BY <2>6, <2>12, <4>1, <4>2
    <3>2. \A m : buildPlanJob(m).kind = "plan" /\ buildApplyJob(m).kind = "apply"
      BY DEF buildPlanJob, buildApplyJob
    <3>3. /\ \A m \in wanted : buildPlanJob(m) \in ToSet(ir')
          /\ build.apply => \A m \in build.targets : buildApplyJob(m) \in ToSet(ir')
      BY <1>1, <3>1, <3>2 DEF TerraformJobs
    <3>4. ASSUME NEW i \in 1..n
          PROVE  \/ /\ ir'[i].kind = "command" /\ ir'[i].module = NoModule
                    /\ \E c \in ToSet(build.jobs) : ir'[i].name = c.name
                 \/ \E m \in wanted : ir'[i] = buildPlanJob(m)
                 \/ build.apply /\ \E m \in build.targets : ir'[i] = buildApplyJob(m)
      <4>1. CASE i <= start
        BY <1>1, <2>1, <2>6, <4>1 DEF TerraformJobs
      <4>2. CASE i > start
        BY <2>10, <4>2 DEF SameJob
      <4>. QED
        BY <2>7, <4>1, <4>2
    <3>. QED
      BY <2>12, <3>3, <3>4 DEF TerraformJobs
  <2>15. Answered(ir')
    <3>1. SUFFICES ASSUME NEW c \in ToSet(build.jobs)
                   PROVE  \E j \in ToSet(ir') :
                            /\ j.name = c.name /\ j.produces = c.produces /\ (c.consumes = <<>> => j.consumes = <<>>)
                            /\ \A r \in ToSet(c.consumes) : \A k \in ToSet(ir') : \A ref \in ToSet(k.produces) :
                                 k.name # c.name /\ resourceMatches(r, ref) => Serves(j, c, k, ref, r)
      BY DEF Answered
    <3>2. PICK h \in DOMAIN build.jobs : c = build.jobs[h]
      BY DEF ToSet
    <3>. DEFINE i == start + h
                j == ir'[i]
    <3>3. i \in 1..n /\ i > start /\ asked(i) = c
      BY <2>5, <3>2 DEF asked
    <3>. HIDE DEF i
    <3>4. /\ j.name = c.name /\ j.produces = c.produces
          /\ j.consumes = [k \in DOMAIN resolved(i) |-> resolved(i)[k].ref]
          /\ Resolution(resolved(i), c.consumes, c.name) /\ InputsFrom(j.inputs, resolved(i))
      BY <2>10, <3>3 DEF SameJob
    <3>5. ASSUME NEW r \in ToSet(c.consumes), NEW g \in 1..n, NEW ref \in ToSet(ir[g].produces),
                 ir[g].name # c.name, resourceMatches(r, ref)
          PROVE  Serves(j, c, ir[g], ref, r)
      <4>. DEFINE y == Entry(ir[g], ref)
      <4>1. y \in ToSet(resourceIndex)
        BY <2>1, <2>9 DEF Indexed
      <4>2. y.ref = ref /\ y.job = ir[g].name
        BY DEF Entry
      <4>3. Asked(y, c.consumes, c.name)
        BY <3>5, <4>2 DEF Asked
      <4>. HIDE DEF y
      <4>4. PICK x \in ToSet(resolved(i)) : x.ref = ref
        BY <3>4, <4>1, <4>2, <4>3 DEF Resolution
      <4>5. ref \in ToSet(j.consumes)
        BY <3>4, <4>4 DEF ToSet
      <4>6. PICK z \in ToSet(resourceIndex) : Resolves(x, z, c.consumes)
        BY <3>4 DEF Resolution
      <4>7. PICK k \in ToSet(ir) : \E q \in ToSet(k.produces) : z = Entry(k, q)
        BY <2>9 DEF Indexed
      <4>8. PICK l \in 1..n : k = ir[l]
        BY <2>1 DEF ToSet
      <4>9. ref \in ToSet(ir[l].produces) /\ z.artifact = ir[l].output /\ z.ref = ref
        BY <4>4, <4>6, <4>7, <4>8 DEF Entry, Resolves
      <4>10. l = g
        BY <1>1, <1>3, <2>1, <4>9, OneProducer DEF InputsInv
      <4>11. x.artifact = ir[g].output /\ x.optional = \A q \in ToSet(c.consumes) : resourceMatches(q, ref) => q.optional
        BY <4>6, <4>9, <4>10 DEF Resolves
      <4>12. ASSUME NEW a \in ToSet(j.inputs), a.artifact.name = ir[g].output.name, a.optional
             PROVE  r.optional
        <5>1. PICK w \in ToSet(resolved(i)) :
                /\ a.artifact = w.artifact
                /\ a.optional = \A q \in ToSet(resolved(i)) : q.artifact.name = w.artifact.name => q.optional
          BY <3>4 DEF InputsFrom
        <5>2. x.optional
          BY <4>11, <4>12, <5>1
        <5>. QED
          BY <3>5, <4>11, <5>2
      <4>. QED
        BY <4>5, <4>12 DEF Serves
    <3>6. ASSUME NEW r \in ToSet(c.consumes), NEW k \in ToSet(ir'), NEW ref \in ToSet(k.produces),
                 k.name # c.name, resourceMatches(r, ref)
          PROVE  Serves(j, c, k, ref, r)
      <4>1. PICK g \in 1..n : k = ir'[g]
        BY <2>12
      <4>2. k.name = ir[g].name /\ k.produces = ir[g].produces /\ k.output = ir[g].output
        BY <2>11, <4>1 DEF SameJob
      <4>3. Serves(j, c, ir[g], ref, r)
        BY <3>5, <3>6, <4>2
      <4>. HIDE DEF j
      <4>. QED
        BY <4>2, <4>3 DEF Serves
    <3>7. j \in ToSet(ir')
      BY <2>12, <3>3
    <3>8. ASSUME c.consumes = <<>> PROVE j.consumes = <<>>
      <4>. DEFINE rs == resolved(i)
      <4>1. ToSet(rs) = {}
        <5>1. ToSet(c.consumes) = {}
          BY <3>8 DEF ToSet
        <5>. QED
          BY <3>4, <5>1 DEF Resolution, Asked
      <4>2. rs \in Seq(ToSet(rs)) /\ j.consumes = [k \in DOMAIN rs |-> rs[k].ref]
        BY <3>4 DEF Resolution
      <4>. HIDE DEF rs, j
      <4>3. DOMAIN rs = {} /\ DOMAIN j.consumes = {}
        BY <4>1, <4>2 DEF ToSet
      <4>4. j.consumes = <<>>
        BY <4>2, <4>3
      <4>. QED
        BY <4>4
    <3>. HIDE DEF j
    <3>. QED
      BY <3>4, <3>6, <3>7, <3>8
  <2>15a. DepsOnce(ir')
    <3>1. SUFFICES ASSUME OneName, \A c \in ToSet(build.jobs) : IsInjective(c.deps), NEW i \in 1..n
                   PROVE  IsInjective(ir'[i].deps)
      BY <2>12 DEF DepsOnce
    <3>2. CASE i <= start
      BY <1>1, <2>1, <2>6, <3>1, <3>2 DEF DepsOnce
    <3>3. CASE i > start
      BY <2>10, <3>1, <3>3
    <3>. QED
      BY <2>7, <3>2, <3>3
  <2>16. /\ TerraformJobs(ir)' /\ InputsInv(ir)' /\ Answered(ir)' /\ Scoped(subgraph)' /\ GraphOk(subgraph)'
         /\ DepsOnce(ir)'
    <3>1. wanted' = wanted /\ \A m : buildPlanJob(m)' = buildPlanJob(m) /\ buildApplyJob(m)' = buildApplyJob(m)
      BY <1>1, SameRequest
    <3>2. TerraformJobs(ir)' <=> TerraformJobs(ir')
      BY <1>1, <3>1 DEF TerraformJobs
    <3>3. Answered(ir)' <=> Answered(ir')
      BY <1>1 DEF Answered
    <3>4. Scoped(subgraph)' = Scoped(subgraph)
      BY <1>1, SameRequest
    <3>5. DepsOnce(ir)' <=> DepsOnce(ir')
      BY <1>1 DEF DepsOnce, OneName
    <3>. QED
      BY <1>1, <2>13, <2>14, <2>15, <2>15a, <3>2, <3>3, <3>4, <3>5
  <2>. QED
    BY <1>1, <1>3, <2>16 DEF BuildInv
<1>. QED
  BY <1>1, <1>2, <1>3

LEMMA SameBuild ==
  ASSUME BuildInv, UNCHANGED <<build, subgraph, ir>>, stage' \in {"prepare", "jobs", "resolve", "validate", "done", "failed"},
         stage' = stage \/ (stage = "validate" /\ stage' \in {"done", "failed"})
  PROVE  BuildInv'
<1>1. build' = build /\ subgraph' = subgraph /\ ir' = ir
  OBVIOUS
<1>2. TerraformJobs(ir)' = TerraformJobs(ir) /\ Answered(ir)' = Answered(ir) /\ Scoped(subgraph)' = Scoped(subgraph)
  <2>1. wanted' = wanted /\ \A m : buildPlanJob(m)' = buildPlanJob(m) /\ buildApplyJob(m)' = buildApplyJob(m)
    BY <1>1, SameRequest
  <2>2. TerraformJobs(ir)' = TerraformJobs(ir)
    BY <1>1, <2>1 DEF TerraformJobs
  <2>3. Answered(ir)' = Answered(ir)
    BY <1>1 DEF Answered
  <2>. QED
    BY <1>1, <2>2, <2>3 DEF Scoped
<1>3. CommandsLast(ir)' = CommandsLast(ir) /\ DepsOnce(ir)' = DepsOnce(ir)
  BY <1>1 DEF CommandsLast, DepsOnce, OneName
<1>. QED
  BY <1>1, <1>2, <1>3 DEF BuildInv

LEMMA StepKeepsBuild == ASSUME BuildInv, LocalNext PROVE BuildInv'
<1>1. CASE Next
  <2>1. CASE ValidateIR
    BY <2>1, SameBuild DEF ValidateIR
  <2>. QED
    BY <1>1, <2>1, PrepareKeepsBuild, BuildJobsKeepsBuild, ResolveKeepsBuild DEF Next
<1>2. CASE UNCHANGED vars
  BY <1>2, SameBuild DEF vars, BuildInv
<1>3. CASE NextRound
  BY <1>3, LocalBuildsAssumption DEF NextRound, BuildInv
<1>4. CINext => Next \/ UNCHANGED vars
  <2>1. Generate => UNCHANGED vars
    BY DEF Generate
  <2>2. \A p \in Pipelines : Push(p) => UNCHANGED vars
    BY DEF Push
  <2>3. \A p \in Pipelines : \A n \in DOMAIN status[p] :
          Queue(p, n) \/ Start(p, n) \/ Finish(p, n) \/ Skip(p, n) => UNCHANGED vars
    BY DEF Queue, Start, Finish, Skip
  <2>. QED
    BY <2>1, <2>2, <2>3 DEF CINext
<1>5. Begin \/ (\E n \in DOMAIN job : StartJob(n) \/ EndJob(n)) \/ EndRound => UNCHANGED vars
  <2>1. Begin => UNCHANGED vars
    BY DEF Begin
  <2>2. \A n \in DOMAIN job : StartJob(n) \/ EndJob(n) => UNCHANGED vars
    BY DEF StartJob, jobStarted, EndJob
  <2>3. EndRound => UNCHANGED vars
    BY DEF EndRound
  <2>. QED
    BY <2>1, <2>2, <2>3
<1>. QED
  BY <1>1, <1>2, <1>3, <1>4, <1>5 DEF LocalNext

THEOREM BuildInvHolds == LocalSpec => []BuildInv
<1>1. LocalInit => BuildInv
  BY DEF LocalInit, CIInit, Init, BuildInv
<1>2. BuildInv /\ [LocalNext]_<<vars, ciVars, localVars>> => BuildInv'
  <2>1. ASSUME BuildInv, UNCHANGED <<vars, ciVars, localVars>> PROVE BuildInv'
    BY <2>1, SameBuild DEF vars, BuildInv
  <2>. QED
    BY <2>1, StepKeepsBuild
<1>. QED
  BY <1>1, <1>2, PTL DEF LocalSpec

-----------------------------------------------------------------------------
(* What the plugins' jobs get *)

\* Every resource a request may be answered with has a job that produces it.
LEMMA OfferedIsProduced ==
  ASSUME TerraformJobs(ir), Answered(ir), NEW r, NEW own, NEW ref \in answers(r, own)
  PROVE  \E k \in ToSet(ir) : ref \in ToSet(k.produces)
<1>1. /\ ref.kind = r.kind
      /\ r.kind \in {"plan_text", "plan_json"} => planOutputs(ref.module, r.kind)
      /\ ref \in offered
  BY DEF answers
<1>2. ASSUME NEW m \in wanted, NEW kind \in PlanKinds, ref = PlanResource(kind, m)
      PROVE  \E k \in ToSet(ir) : ref \in ToSet(k.produces)
  <2>. DEFINE first == <<PlanResource("plan_binary", m)>>
              text == IF planOutputs(m, "plan_text") THEN <<PlanResource("plan_text", m)>> ELSE <<>>
              json == IF planOutputs(m, "plan_json") THEN <<PlanResource("plan_json", m)>> ELSE <<>>
  <2>1. planResources(m) = first \o text \o json
    BY DEF planResources
  <2>2. ref.kind = kind /\ ref.module = m
    BY <1>2 DEF PlanResource
  <2>3. Range(first \o text \o json) = (Range(first) \cup Range(text)) \cup Range(json)
    <3>. DEFINE S == {PlanResource(k, m) : k \in PlanKinds}
    <3>1. \A kind1 \in PlanKinds : PlanResource(kind1, m) \in S
      OBVIOUS
    <3>2. PlanResource("plan_binary", m) \in S /\ PlanResource("plan_text", m) \in S /\ PlanResource("plan_json", m) \in S
      BY <3>1 DEF PlanKinds
    <3>. HIDE DEF S
    <3>3. first \in Seq(S) /\ text \in Seq(S) /\ json \in Seq(S)
      BY <3>2
    <3>. HIDE DEF first, text, json
    <3>4. first \o text \in Seq(S)
      BY <3>3
    <3>5. Range(first \o text) = Range(first) \cup Range(text)
      BY <3>3, RangeOfConcat
    <3>6. Range((first \o text) \o json) = Range(first \o text) \cup Range(json)
      BY <3>3, <3>4, RangeOfConcat
    <3>. QED
      BY <3>5, <3>6
  <2>4. ref \in Range(first) \cup Range(text) \cup Range(json)
    <3>1. kind = "plan_binary" => ref \in Range(first)
      BY <1>2 DEF Range
    <3>2. kind = "plan_text" => ref \in Range(text)
      BY <1>1, <1>2, <2>2 DEF Range
    <3>3. kind = "plan_json" => ref \in Range(json)
      BY <1>1, <1>2, <2>2 DEF Range
    <3>. QED
      BY <3>1, <3>2, <3>3 DEF PlanKinds
  <2>5. ref \in ToSet(planResources(m))
    BY <2>1, <2>3, <2>4 DEF Range, ToSet
  <2>6. buildPlanJob(m) \in ToSet(ir) /\ buildPlanJob(m).produces = planResources(m)
    BY DEF TerraformJobs, buildPlanJob
  <2>. QED
    BY <2>5, <2>6
<1>3. CASE \E m \in wanted : \E kind \in PlanKinds : ref = PlanResource(kind, m)
  BY <1>2, <1>3
<1>4. CASE \E c \in ToSet(build.jobs) : ref \in ToSet(c.produces)
  BY <1>4 DEF Answered
<1>5. \/ ref \in [kind : {"plan_binary"}, module : wanted, producer : {NoProducer}]
      \/ \E q \in requests : \E m \in wanted : q.kind \in PlanKinds /\ ref = PlanResource(q.kind, m)
      \/ \E c \in ToSet(build.jobs) : ref \in ToSet(c.produces)
  BY <1>1 DEF offered
<1>6. ASSUME ref \in [kind : {"plan_binary"}, module : wanted, producer : {NoProducer}]
      PROVE  \E m \in wanted : \E kind \in PlanKinds : ref = PlanResource(kind, m)
  <2>1. ref = PlanResource("plan_binary", ref.module) /\ ref.module \in wanted
    BY <1>6 DEF PlanResource
  <2>. QED
    BY <2>1 DEF PlanKinds
<1>. QED
  BY <1>3, <1>4, <1>5, <1>6

\* A job has the output of k, with resource ref in it, as an input.
TakesFrom(j, k, ref) ==
  /\ k.name \in ToSet(j.deps) /\ ref \in ToSet(k.output.paths)
  /\ \E input \in ToSet(j.inputs) : input.producer = k.name /\ input.artifact = k.output

\* Validate lets a job consume what a job it has an input from produces.
LEMMA ConsumedIsInput ==
  ASSUME NEW jobs, jobs \in Seq(ToSet(jobs)), \A j \in ToSet(jobs) : JobShape(j), Validate(jobs),
         NEW j \in ToSet(jobs), NEW k \in ToSet(jobs), NEW ref, ref \in ToSet(j.consumes), ref \in ToSet(k.produces),
         k.name # j.name
  PROVE  TakesFrom(j, k, ref)
<1>1. buildResourceIndex(jobs) /\ validateConsumedResources(jobs, j) /\ ToSet(k.produces) \subseteq ToSet(k.output.paths)
  BY DEF Validate, validateResourceClosure
<1>2. PICK h \in DOMAIN jobs : k = jobs[h]
  BY DEF ToSet
<1>. DEFINE entries == producersOf(jobs, ref)
            one == CHOOSE p \in entries : TRUE
<1>3. entries # {}
  BY <1>1 DEF validateConsumedResources
<1>4. one \in entries
  BY <1>3
<1>5. \A p \in entries : p[1] \in DOMAIN jobs /\ ref \in ToSet(jobs[p[1]].produces)
  BY DEF producersOf, ToSet
<1>6. producerOf(jobs, ref) = jobs[one[1]]
  BY DEF producerOf
<1>. HIDE DEF one, entries
<1>7. one[1] = h
  BY <1>1, <1>2, <1>4, <1>5, OneProducer
<1>8. producerOf(jobs, ref) = k
  BY <1>2, <1>6, <1>7
<1>. QED
  BY <1>1, <1>8 DEF validateConsumedResources, TakesFrom

\* What answers a request matches it.
LEMMA AnswerMatches ==
  ASSUME NEW r, validateResourceRequest(r), NEW own, NEW ref \in answers(r, own), validateResourceRef(ref)
  PROVE  resourceMatches(r, ref)
BY DEF answers, validateResourceRequest, validateResourceRef, resourceMatches, PlanKinds, PluginKinds

\* What a resource request of a plugin's job comes to
LEMMA AskedIsGiven ==
  ASSUME BuildInv, stage = "done", Validate(ir) PROVE PluginsGetWhatTheyAskFor
<1>1. InputsInv(ir) /\ TerraformJobs(ir) /\ Answered(ir) /\ build \in Builds
  BY DEF BuildInv
<1>2. SUFFICES ASSUME NEW c \in ToSet(build.jobs), NEW r \in ToSet(c.consumes),
                      NEW ref \in answers(r, ToSet(c.produces))
               PROVE  \E input \in ToSet(FindJob(ir, c.name).inputs) :
                        /\ ref \in ToSet(input.artifact.paths)
                        /\ input.producer \in ToSet(FindJob(ir, c.name).deps)
                        /\ r.optional \/ ~input.optional
  BY DEF PluginsGetWhatTheyAskFor
<1>3. \A i, h \in ToSet(ir) : i.name = h.name => i = h
  BY DEF Validate, UniqueNames, ToSet
<1>4. PICK j \in ToSet(ir) :
        /\ j.name = c.name /\ j.produces = c.produces
        /\ \A q \in ToSet(c.consumes) : \A k \in ToSet(ir) : \A x \in ToSet(k.produces) :
             k.name # c.name /\ resourceMatches(q, x) => Serves(j, c, k, x, q)
  BY <1>1 DEF Answered
<1>5. FindJob(ir, c.name) = j
  <2>1. c.name \in JobNames(ir)
    BY <1>4 DEF JobNames, ToSet
  <2>. QED
    BY <1>3, <1>4, <2>1, JobByName
<1>6. PICK k \in ToSet(ir) : ref \in ToSet(k.produces)
  BY <1>1, OfferedIsProduced
<1>7. k.name # c.name
  <2>1. ref \notin ToSet(c.produces)
    BY DEF answers
  <2>. QED
    BY <1>3, <1>4, <1>6, <2>1
<1>8. resourceMatches(r, ref)
  <2>1. validateResourceRef(ref)
    BY <1>6 DEF Validate, validateJob
  <2>2. validateResourceRequest(r)
    <3>1. NewContribution(<<c>>)
      BY <1>1, BuildsAssumption
    <3>2. c \in ToSet(<<c>>)
      BY DEF ToSet
    <3>. QED
      BY <3>1, <3>2 DEF NewContribution, validateContributedJob
  <2>. QED
    BY <2>1, <2>2, AnswerMatches
<1>9. Serves(j, c, k, ref, r)
  BY <1>4, <1>6, <1>7, <1>8
<1>10. TakesFrom(j, k, ref)
  <2>1. ref \in ToSet(j.consumes)
    BY <1>9 DEF Serves
  <2>2. ir \in Seq(ToSet(ir)) /\ \A i \in ToSet(ir) : JobShape(i)
    BY <1>1 DEF InputsInv
  <2>3. k.name # j.name
    BY <1>4, <1>7
  <2>. QED
    BY <1>6, <2>1, <2>2, <2>3, ConsumedIsInput
<1>11. PICK input \in ToSet(j.inputs) : input.producer = k.name /\ input.artifact = k.output
  BY <1>10 DEF TakesFrom
<1>12. input.optional => r.optional
  BY <1>9, <1>11 DEF Serves
<1>. QED
  BY <1>5, <1>10, <1>11, <1>12 DEF TakesFrom

-----------------------------------------------------------------------------
(* The stages of GitLab *)

\* The depth of a job over the depths of the round before
deepened(jobs, acc) ==
  [n \in JobNames(jobs) |-> LET d == ToSet(FindJob(jobs, n).deps)
                            IN  IF d = {} THEN 0 ELSE 1 + Max({acc[x] : x \in d})]

EdgesInside(jobs) == \A n \in JobNames(jobs) : ToSet(FindJob(jobs, n).deps) \subseteq JobNames(jobs)

\* Of some depths of some jobs one is the greatest.
LEMMA GreatestDepth ==
  ASSUME NEW jobs, NEW n \in Nat, DOMAIN jobs = 1..n, NEW acc \in [JobNames(jobs) -> Nat],
         NEW d \in SUBSET JobNames(jobs), d # {}
  PROVE  /\ Max({acc[x] : x \in d}) \in Nat
         /\ \A x \in d : acc[x] <= Max({acc[y] : y \in d})
         /\ \E x \in d : Max({acc[y] : y \in d}) = acc[x]
<1>. DEFINE bounded(k) == \E b \in Nat : \A i \in 1..k : acc[jobs[i].name] <= b
            A == {k \in Nat : k <= n => bounded(k)}
<1>1. \A i \in 1..n : jobs[i].name \in JobNames(jobs)
  BY DEF JobNames
<1>2. bounded(0)
  OBVIOUS
<1>3. ASSUME NEW k \in Nat, k + 1 <= n, bounded(k) PROVE bounded(k + 1)
  <2>1. PICK b \in Nat : \A i \in 1..k : acc[jobs[i].name] <= b
    BY <1>3
  <2>2. k + 1 \in 1..n /\ acc[jobs[k + 1].name] \in Nat
    BY <1>1, <1>3
  <2>. DEFINE c == b + acc[jobs[k + 1].name]
  <2>3. ASSUME NEW i \in 1..(k + 1) PROVE acc[jobs[i].name] <= c
    <3>1. acc[jobs[i].name] \in Nat /\ (i \in 1..k \/ i = k + 1)
      BY <1>1, <1>3
    <3>. QED
      BY <2>1, <2>2, <3>1
  <2>4. c \in Nat
    BY <2>2
  <2>. HIDE DEF c
  <2>. QED
    BY <2>3, <2>4
<1>4. bounded(n)
  <2>. HIDE DEF bounded
  <2>1. 0 \in A /\ \A k \in Nat : k \in A => k + 1 \in A
    BY <1>2, <1>3
  <2>2. n \in A
    <3>. HIDE DEF A
    <3>. QED
      BY <2>1, AllNumbers
  <2>. QED
    BY <2>2
<1>5. PICK b \in Nat : \A i \in 1..n : acc[jobs[i].name] <= b
  BY <1>4
<1>. DEFINE S == {acc[x] : x \in d}
<1>6. S \subseteq 0..b /\ S # {}
  <2>1. \A x \in d : acc[x] \in Nat /\ acc[x] <= b
    BY <1>5 DEF JobNames
  <2>. QED
    BY <2>1
<1>7. Max(S) \in S /\ \A y \in S : Max(S) >= y
  <2>. HIDE DEF S
  <2>1. \E x \in S : \A y \in S : x >= y
    BY <1>6, GreatestElement
  <2>. QED
    BY <2>1 DEF Max
<1>. DEFINE m == Max(S)
<1>8. m \in S /\ \A y \in S : m >= y
  BY <1>7
<1>. HIDE DEF m
<1>9. m \in Nat /\ (\E x \in d : m = acc[x]) /\ \A x \in d : acc[x] \in Nat /\ m >= acc[x]
  BY <1>6, <1>8
<1>. QED
  BY <1>9 DEF m

LEMMA DeepenedTypes ==
  ASSUME NEW jobs, NEW n \in Nat, DOMAIN jobs = 1..n, EdgesInside(jobs), NEW acc \in [JobNames(jobs) -> Nat]
  PROVE  deepened(jobs, acc) \in [JobNames(jobs) -> Nat]
<1>1. ASSUME NEW k \in JobNames(jobs)
      PROVE  (LET d == ToSet(FindJob(jobs, k).deps) IN IF d = {} THEN 0 ELSE 1 + Max({acc[x] : x \in d})) \in Nat
  <2>. DEFINE d == ToSet(FindJob(jobs, k).deps)
  <2>1. d \in SUBSET JobNames(jobs)
    BY DEF EdgesInside
  <2>. HIDE DEF d
  <2>2. d # {} => Max({acc[x] : x \in d}) \in Nat
    BY <2>1, GreatestDepth
  <2>3. (IF d = {} THEN 0 ELSE 1 + Max({acc[x] : x \in d})) \in Nat
    BY <2>2
  <2>. QED
    BY <2>3 DEF d
<1>. QED
  BY <1>1 DEF deepened

\* Stages are as many rounds of it as there are jobs.
LEMMA StagesByRounds ==
  ASSUME NEW jobs, NEW n \in Nat, DOMAIN jobs = 1..n, EdgesInside(jobs)
  PROVE  \E g \in [0..n -> [JobNames(jobs) -> Nat]] :
           /\ g[0] = [k \in JobNames(jobs) |-> 0]
           /\ \A r \in 1..n : g[r] = deepened(jobs, g[r - 1])
           /\ stages(jobs) = g[n]
<1>. DEFINE T == [JobNames(jobs) -> Nat]
            base == [k \in JobNames(jobs) |-> 0]
            f == [p \in T \X (1..n) |-> deepened(jobs, p[1])]
            turn(iter, s) == IF s = {} THEN base ELSE deepened(jobs, iter[s \ {Max(s)}])
            fold == CHOOSE h : h = [s \in SUBSET (1..n) |-> turn(h, s)]
<1>1. base \in T /\ f \in [T \X (1..n) -> T]
  <2>1. \A p \in T \X (1..n) : deepened(jobs, p[1]) \in T
    BY DeepenedTypes
  <2>. QED
    BY <2>1
<1>2. PICK iter \in [SUBSET (1..n) -> T] : FoldsBy(iter, n, base, f)
  <2>. HIDE DEF T, base, f
  <2>. QED
    BY <1>1, FoldExists
<1>3. \A s \in SUBSET (1..n) : s # {} => Max(s) \in s
  BY GreatestOf
<1>4. fold = [s \in SUBSET (1..n) |-> turn(fold, s)]
  <2>1. ASSUME NEW s \in SUBSET (1..n), s # {} PROVE f[iter[s \ {Max(s)}], Max(s)] = deepened(jobs, iter[s \ {Max(s)}])
    <3>1. Max(s) \in 1..n /\ s \ {Max(s)} \in SUBSET (1..n)
      BY <1>3, <2>1
    <3>2. iter[s \ {Max(s)}] \in T
      BY <3>1
    <3>. HIDE DEF T
    <3>. QED
      BY <3>1, <3>2
  <2>2. iter = [s \in SUBSET (1..n) |-> turn(iter, s)]
    <3>. HIDE DEF f, base, T
    <3>1. \A s \in SUBSET (1..n) : iter[s] = turn(iter, s)
      BY <1>2, <2>1 DEF FoldsBy
    <3>. HIDE DEF turn
    <3>. QED
      BY <3>1
  <2>. HIDE DEF turn
  <2>. QED
    BY <2>2
<1>5. stages(jobs) = fold[1..n]
  BY DEF stages, FoldLeft, MapThenFoldSet, deepened
<1>. HIDE DEF fold
<1>. DEFINE g == [r \in 0..n |-> fold[1..r]]
<1>6. g[0] = base /\ \A r \in 1..n : g[r] = deepened(jobs, g[r - 1])
  <2>1. \A r \in 0..n : fold[1..r] = turn(fold, 1..r)
    <3>. HIDE DEF turn
    <3>1. \A r \in 0..n : 1..r \in SUBSET (1..n)
      OBVIOUS
    <3>. QED
      BY <1>4, <3>1
  <2>. HIDE DEF base
  <2>2. 1..0 = {} /\ 0 \in 0..n
    OBVIOUS
  <2>3. fold[1..0] = base
    BY <2>1, <2>2
  <2>4. ASSUME NEW r \in 1..n PROVE fold[1..r] = deepened(jobs, fold[1..(r - 1)])
    <3>1. r \in Nat \ {0} /\ r \in 0..n
      OBVIOUS
    <3>2. Max(1..r) = r /\ 1..r # {} /\ (1..r) \ {Max(1..r)} = 1..(r - 1)
      BY <3>1, GreatestOfFirst
    <3>. QED
      BY <2>1, <3>1, <3>2
  <2>. HIDE DEF base, turn
  <2>. QED
    BY <2>3, <2>4
<1>. HIDE DEF base
<1>7. \A r \in 0..n : g[r] \in T
  <2>. DEFINE A == {r \in Nat : r <= n => g[r] \in T}
  <2>. HIDE DEF g
  <2>1. 0 \in A
    BY <1>1, <1>6
  <2>2. ASSUME NEW r \in Nat, r \in A PROVE r + 1 \in A
    <3>1. r + 1 <= n => g[r + 1] = deepened(jobs, g[r]) /\ g[r] \in T
      BY <1>6, <2>2
    <3>2. g[r] \in T => deepened(jobs, g[r]) \in T
      BY DeepenedTypes
    <3>. QED
      BY <3>1, <3>2
  <2>3. \A r \in Nat : r \in A
    <3>. HIDE DEF A
    <3>. QED
      BY <2>1, <2>2, AllNumbers
  <2>. QED
    BY <2>3
<1>8. g \in [0..n -> T] /\ g[n] = fold[1..n]
  <2>. HIDE DEF T
  <2>. QED
    BY <1>7
<1>. HIDE DEF g, T
<1>9. \E g1 \in [0..n -> T] :
        /\ g1[0] = base
        /\ \A r \in 1..n : g1[r] = deepened(jobs, g1[r - 1])
        /\ stages(jobs) = g1[n]
  BY <1>5, <1>6, <1>8
<1>. QED
  BY <1>9 DEF T, base

\* What the depth of a job is, by those of the jobs d it depends on
Deeper(new, acc, d) ==
  /\ d = {} => new = 0
  /\ \A x \in d : 1 + acc[x] <= new
  /\ d # {} => \E x \in d : new = 1 + acc[x]

LEMMA Deepened ==
  ASSUME NEW jobs, NEW n \in Nat, DOMAIN jobs = 1..n, EdgesInside(jobs), NEW acc \in [JobNames(jobs) -> Nat],
         NEW k \in JobNames(jobs), NEW d, d = ToSet(FindJob(jobs, k).deps)
  PROVE  d \subseteq JobNames(jobs) /\ Deeper(deepened(jobs, acc)[k], acc, d)
<1>. DEFINE m == Max({acc[x] : x \in d})
<1>1. deepened(jobs, acc)[k] = IF d = {} THEN 0 ELSE 1 + m
  BY DEF deepened
<1>2. d \in SUBSET JobNames(jobs)
  BY DEF EdgesInside
<1>3. d # {} => /\ m \in Nat
                /\ \A x \in d : acc[x] <= m
                /\ \E x \in d : m = acc[x]
  BY <1>2, GreatestDepth
<1>4. \A x \in d : acc[x] \in Nat
  BY <1>2
<1>. HIDE DEF m
<1>. QED
  BY <1>1, <1>2, <1>3, <1>4 DEF Deeper

\* A job that depends on another stands in a later stage, or in the same one
\* when they wait for each other.
LEMMA StagesFollowEdges ==
  ASSUME NEW jobs, NEW n \in Nat, DOMAIN jobs = 1..n, EdgesInside(jobs),
         NEW k \in JobNames(jobs), NEW x \in ToSet(FindJob(jobs, k).deps)
  PROVE  stages(jobs)[x] <= stages(jobs)[k]
<1>. DEFINE names == JobNames(jobs)
<1>1. PICK g \in [0..n -> [names -> Nat]] :
        /\ g[0] = [y \in names |-> 0]
        /\ \A r \in 1..n : g[r] = deepened(jobs, g[r - 1])
        /\ stages(jobs) = g[n]
  BY StagesByRounds
<1>2. n # 0
  BY DEF JobNames
<1>. DEFINE slow(r) == \A y \in names : g[r + 1][y] <= g[r][y] + 1
            A == {r \in Nat : r < n => slow(r)}
<1>. HIDE DEF names
<1>g. \A r \in 0..n : g[r] \in [JobNames(jobs) -> Nat]
  BY DEF names
<1>3. slow(0)
  <2>. SUFFICES ASSUME NEW y \in names PROVE g[1][y] <= g[0][y] + 1
    OBVIOUS
  <2>0. 1 \in 1..n /\ 1 \in 0..n /\ 0 \in 0..n /\ 1 - 1 = 0
    BY <1>2
  <2>1. g[0][y] = 0 /\ g[1] = deepened(jobs, g[0]) /\ g[0] \in [JobNames(jobs) -> Nat] /\ g[1][y] \in Nat
    <3>1. g[1] \in [JobNames(jobs) -> Nat] /\ g[0] \in [JobNames(jobs) -> Nat]
      BY <1>g, <2>0
    <3>. QED
      BY <1>1, <2>0, <3>1 DEF names
  <2>2. \A z \in names : g[0][z] = 0
    BY <1>1
  <2>. DEFINE d == ToSet(FindJob(jobs, y).deps)
  <2>d. d = ToSet(FindJob(jobs, y).deps) /\ y \in JobNames(jobs)
    BY DEF names
  <2>. HIDE DEF d
  <2>3. /\ d = {} => g[1][y] = 0
        /\ \A z \in d : z \in names
        /\ d # {} => \E z \in d : g[1][y] = 1 + g[0][z]
    <3>1. d \subseteq JobNames(jobs) /\ Deeper(deepened(jobs, g[0])[y], g[0], d)
      BY <2>1, <2>d, Deepened
    <3>. QED
      BY <2>1, <3>1 DEF names, Deeper
  <2>. QED
    BY <2>1, <2>2, <2>3
<1>4. ASSUME NEW r \in Nat, r + 1 < n, slow(r) PROVE slow(r + 1)
  <2>. SUFFICES ASSUME NEW y \in names PROVE g[r + 2][y] <= g[r + 1][y] + 1
    BY <1>4
  <2>1. /\ r \in 0..n /\ r + 1 \in 1..n /\ r + 2 \in 1..n /\ r + 1 \in 0..n /\ r + 2 \in 0..n
        /\ (r + 1) - 1 = r /\ (r + 2) - 1 = r + 1
    BY <1>4
  <2>2. /\ g[r + 1] = deepened(jobs, g[r]) /\ g[r + 2] = deepened(jobs, g[r + 1])
        /\ g[r] \in [JobNames(jobs) -> Nat] /\ g[r + 1] \in [JobNames(jobs) -> Nat]
        /\ g[r + 2] \in [JobNames(jobs) -> Nat]
    BY <1>1, <1>g, <2>1
  <2>. DEFINE d == ToSet(FindJob(jobs, y).deps)
  <2>d. d = ToSet(FindJob(jobs, y).deps) /\ y \in JobNames(jobs)
    BY DEF names
  <2>. HIDE DEF d
  <2>3. /\ d = {} => g[r + 2][y] = 0
        /\ d # {} => \E z \in d : g[r + 2][y] = 1 + g[r + 1][z]
    <3>1. Deeper(deepened(jobs, g[r + 1])[y], g[r + 1], d)
      BY <2>2, <2>d, Deepened
    <3>. QED
      BY <2>2, <3>1 DEF Deeper
  <2>4. \A z \in d : z \in names /\ 1 + g[r][z] <= g[r + 1][y]
    BY <2>2, <2>d, Deepened DEF names, Deeper
  <2>5. CASE d = {}
    BY <2>2, <2>3, <2>5 DEF names
  <2>6. CASE d # {}
    <3>1. PICK z \in d : g[r + 2][y] = 1 + g[r + 1][z]
      BY <2>3, <2>6
    <3>2. g[r + 1][z] <= g[r][z] + 1 /\ 1 + g[r][z] <= g[r + 1][y]
      BY <1>4, <2>4
    <3>3. g[r + 1][z] \in Nat /\ g[r][z] \in Nat /\ g[r + 1][y] \in Nat
      BY <2>2, <2>4 DEF names
    <3>4. \A b, c, e \in Nat : b <= c + 1 /\ 1 + c <= e => 1 + b <= e + 1
      OBVIOUS
    <3>. QED
      BY <3>1, <3>2, <3>3, <3>4
  <2>. QED
    BY <2>5, <2>6
<1>5. slow(n - 1)
  <2>. HIDE DEF slow
  <2>1. 0 \in A /\ \A r \in Nat : r \in A => r + 1 \in A
    BY <1>3, <1>4
  <2>2. n - 1 \in A
    <3>1. n - 1 \in Nat
      BY <1>2
    <3>. HIDE DEF A
    <3>. QED
      BY <2>1, <3>1, AllNumbers
  <2>. QED
    BY <2>2
<1>6. /\ n \in 1..n /\ n - 1 \in 0..n /\ n \in 0..n /\ (n - 1) + 1 = n
  BY <1>2
<1>7. /\ g[n] = deepened(jobs, g[n - 1]) /\ g[n - 1] \in [JobNames(jobs) -> Nat] /\ g[n] \in [JobNames(jobs) -> Nat]
  BY <1>1, <1>6, <1>g
<1>8. x \in names /\ 1 + g[n - 1][x] <= g[n][k]
  BY <1>7, Deepened DEF names, Deeper
<1>9. g[n][x] <= g[n - 1][x] + 1
  BY <1>5, <1>6, <1>8
<1>10. g[n][x] \in Nat /\ g[n - 1][x] \in Nat /\ g[n][k] \in Nat
  BY <1>7, <1>8 DEF names
<1>. QED
  BY <1>1, <1>8, <1>9, <1>10

-----------------------------------------------------------------------------
(* The latest of the settings *)

\* What a field is set to is what it was or what one of the settings gives.
LEMMA AppliedSetting ==
  ASSUME NEW n \in Nat, NEW r, NEW settings, DOMAIN settings \subseteq 0..n, NEW field, NEW unset
  PROVE  \/ applyJobConfig(r, settings, field, unset) = r[field]
         \/ \E i \in DOMAIN settings :
              /\ settings[i][field] # unset
              /\ applyJobConfig(r, settings, field, unset) = settings[i][field]
<1>. DEFINE given == {i \in DOMAIN settings : settings[i][field] # unset}
<1>1. CASE given = {}
  BY <1>1 DEF applyJobConfig
<1>2. CASE given # {}
  <2>1. Max(given) \in given
    <3>1. \E x \in given : \A y \in given : x >= y
      <4>1. given \subseteq 0..n
        OBVIOUS
      <4>. HIDE DEF given
      <4>. QED
        BY <1>2, <4>1, GreatestElement
    <3>. QED
      BY <3>1 DEF Max
  <2>2. applyJobConfig(r, settings, field, unset) = settings[Max(given)][field]
    BY <1>2 DEF applyJobConfig
  <2>. QED
    BY <2>1, <2>2
<1>. QED
  BY <1>1, <1>2

-----------------------------------------------------------------------------
(* The generated jobs *)

saysAnyway(n) == sets(n, anyway)
ownsArtifacts(n) == sets(n, ownArtifacts)

\* What a generated job keeps of the job of the IR
Rendered(n) ==
  /\ \A k \in ToSet(FindJob(ir, n).deps) : \E need \in doc[n].needs : need.job = k
  /\ \A input \in ToSet(FindJob(ir, n).inputs) : Configured(input.artifact) =>
       \E need \in doc[n].needs :
         /\ need.job = input.producer /\ need.artifacts
         /\ need.optional => \E x \in ToSet(FindJob(ir, n).inputs) : x.producer = input.producer /\ x.optional /\ Configured(x.artifact)
  /\ doc[n].group = FindJob(ir, n).module
  /\ doc[n].allow = FindJob(ir, n).allow
  /\ doc[n].artifacts = ToSet(FindJob(ir, n).output.paths) \/ ownsArtifacts(n)
  /\ doc[n].ifExpr = "always()" \/ doc[n].when \in RunsAnyway \/ doc[n].rules \in RunsAnyway => saysAnyway(n)
  /\ ~gitlab => doc[n].rules \notin LeaveOut
  /\ gitlab => doc[n].stage = stages(ir)[n] /\ doc[n].needs = jobNeeds(FindJob(ir, n))

\* A rendered job before it is configured
Plain(r, j) ==
  /\ \A k \in ToSet(j.deps) : \E need \in r.needs : need.job = k
  /\ \A input \in ToSet(j.inputs) : Configured(input.artifact) =>
       \E need \in r.needs :
         /\ need.job = input.producer /\ need.artifacts
         /\ need.optional => \E x \in ToSet(j.inputs) : x.producer = input.producer /\ x.optional /\ Configured(x.artifact)
  /\ r.group = j.module /\ r.allow = j.allow /\ r.artifacts = ToSet(j.output.paths)
  /\ r.ifExpr = "" /\ r.rules = "" /\ r.when = ""

Fields == {"stage", "needs", "artifacts", "group", "allow", "rules", "when", "ifExpr"}

LEMMA GitLabRendersNeeds ==
  ASSUME NEW j, NEW by, \A input \in ToSet(j.inputs) : Configured(input.artifact) => input.producer \in ToSet(j.deps)
  PROVE  Plain(renderGitLabJob(j, by), j) /\ DOMAIN renderGitLabJob(j, by) = Fields
<1>. DEFINE r == renderGitLabJob(j, by)
            inputs == {i \in ToSet(j.inputs) : Configured(i.artifact)}
            from(d) == {i \in inputs : i.producer = d}
            need(d, k) == [job |-> d, entry |-> k, artifacts |-> from(d) # {}, optional |-> \E i \in from(d) : i.optional]
<1>1. /\ r.needs = jobNeeds(j) /\ r.group = j.module /\ r.allow = j.allow
      /\ r.artifacts = ToSet(j.output.paths) /\ r.ifExpr = "" /\ r.rules = "" /\ r.when = "" /\ DOMAIN r = Fields
  BY DEF renderGitLabJob, Fields
<1>2. \A d \in ToSet(j.deps) : \E k : need(d, k) \in jobNeeds(j)
  <2>1. ASSUME NEW k \in DOMAIN j.deps PROVE need(j.deps[k], k) \in jobNeeds(j)
    BY DEF jobNeeds
  <2>. HIDE DEF need
  <2>. QED
    BY <2>1 DEF ToSet
<1>3. \A d, k : /\ need(d, k).job = d
                /\ need(d, k).artifacts <=> from(d) # {}
                /\ need(d, k).optional <=> \E i \in from(d) : i.optional
  OBVIOUS
<1>4. ASSUME NEW input \in ToSet(j.inputs), Configured(input.artifact)
      PROVE  \E x \in jobNeeds(j) :
               /\ x.job = input.producer /\ x.artifacts
               /\ x.optional => \E i \in ToSet(j.inputs) : i.producer = input.producer /\ i.optional /\ Configured(i.artifact)
  <2>1. input.producer \in ToSet(j.deps) /\ input \in from(input.producer)
    BY <1>4
  <2>2. PICK k : need(input.producer, k) \in jobNeeds(j)
    BY <1>2, <2>1
  <2>3. need(input.producer, k).optional => \E i \in ToSet(j.inputs) : i.producer = input.producer /\ i.optional /\ Configured(i.artifact)
    BY <1>3
  <2>4. need(input.producer, k).job = input.producer /\ need(input.producer, k).artifacts
    BY <1>3, <2>1
  <2>. HIDE DEF need
  <2>. QED
    BY <2>2, <2>3, <2>4
<1>5. ASSUME NEW d \in ToSet(j.deps) PROVE \E x \in jobNeeds(j) : x.job = d
  <2>1. PICK k : need(d, k) \in jobNeeds(j) /\ need(d, k).job = d
    BY <1>2, <1>3
  <2>. HIDE DEF need
  <2>. QED
    BY <2>1
<1>. QED
  BY <1>1, <1>4, <1>5 DEF Plain

LEMMA GitHubRendersNeeds ==
  ASSUME NEW j
  PROVE  Plain(renderGitHubJob(j), j) /\ DOMAIN renderGitHubJob(j) = Fields
<1>. DEFINE r == renderGitHubJob(j)
<1>1. /\ r.group = j.module /\ r.allow = j.allow
      /\ r.artifacts = ToSet(j.output.paths) /\ r.ifExpr = "" /\ r.rules = "" /\ r.when = "" /\ DOMAIN r = Fields
  BY DEF renderGitHubJob, Fields
<1>2. r.needs = {[job |-> d, artifacts |-> FALSE, optional |-> FALSE] : d \in ToSet(j.deps)}
                  \cup {[job |-> i.producer, artifacts |-> TRUE, optional |-> i.optional] :
                          i \in {x \in ToSet(j.inputs) : Configured(x.artifact)}}
  BY DEF renderGitHubJob
<1>3. ASSUME NEW k \in ToSet(j.deps) PROVE \E x \in r.needs : x.job = k
  <2>. DEFINE x == [job |-> k, artifacts |-> FALSE, optional |-> FALSE]
  <2>1. x \in r.needs /\ x.job = k
    BY <1>2
  <2>. QED
    BY <2>1
<1>4. ASSUME NEW input \in ToSet(j.inputs), Configured(input.artifact)
      PROVE  \E x \in r.needs :
               /\ x.job = input.producer /\ x.artifacts
               /\ x.optional => \E i \in ToSet(j.inputs) : i.producer = input.producer /\ i.optional /\ Configured(i.artifact)
  <2>. DEFINE x == [job |-> input.producer, artifacts |-> TRUE, optional |-> input.optional]
  <2>1. x \in r.needs /\ x.job = input.producer /\ x.artifacts /\ x.optional = input.optional
    BY <1>2, <1>4
  <2>. HIDE DEF x, r
  <2>. QED
    BY <1>4, <2>1
<1>. HIDE DEF r
<1>. QED
  BY <1>1, <1>3, <1>4 DEF Plain, r

\* x is a setting for the jobs of a type; r has become d by such settings.
SetFor(x, type, c) == x = c.defaults \/ (x \in ToSet(c.overwrites) /\ x.type = type)

Configures(d, r, type, c) ==
  /\ d.stage = r.stage /\ d.needs = r.needs /\ d.group = r.group /\ d.allow = r.allow
  /\ d.artifacts = r.artifacts \/ (\E x : SetFor(x, type, c) /\ x.artifacts # Unset)
  /\ d.ifExpr = r.ifExpr \/ (\E x : SetFor(x, type, c) /\ x.ifExpr = d.ifExpr)
  /\ d.rules = r.rules \/ (\E x : SetFor(x, type, c) /\ x.rules = d.rules)
  /\ d.when = r.when \/ (\E x : SetFor(x, type, c) /\ x.when = d.when)

\* What applyResolvedJobConfig does to a job: the settings of the user win.
LEMMA ConfiguredJob ==
  ASSUME NEW c \in Configs, NEW r, DOMAIN r = Fields, NEW type
  PROVE  Configures(applyResolvedJobConfig(r, type, c), r, type, c)
<1>. DEFINE setting(i) == IF i = 0 THEN c.defaults ELSE c.overwrites[i]
            settings == [i \in {k \in 0..Len(c.overwrites) : k = 0 \/ setting(k).type = type} |-> setting(i)]
            d == applyResolvedJobConfig(r, type, c)
            blank == ""
<1>1. Len(c.overwrites) \in Nat /\ DOMAIN c.overwrites = 1..Len(c.overwrites)
  <2>. DEFINE S == ToSet(c.overwrites)
  <2>1. c.overwrites \in Seq(S)
    BY ConfigsAssumption
  <2>. HIDE DEF S
  <2>. QED
    BY <2>1
<1>2. DOMAIN settings \subseteq 0..Len(c.overwrites)
  OBVIOUS
<1>3. ASSUME NEW i \in DOMAIN settings
      PROVE  SetFor(settings[i], type, c)
  <2>1. i \in 0..Len(c.overwrites) /\ (i = 0 \/ setting(i).type = type) /\ settings[i] = setting(i)
    OBVIOUS
  <2>2. CASE i = 0
    BY <2>1, <2>2 DEF SetFor
  <2>3. CASE i # 0
    <3>1. i \in DOMAIN c.overwrites /\ setting(i) = c.overwrites[i]
      BY <1>1, <2>1, <2>3
    <3>2. c.overwrites[i] \in ToSet(c.overwrites)
      BY <3>1 DEF ToSet
    <3>. QED
      BY <2>1, <2>3, <3>1, <3>2 DEF SetFor
  <2>. QED
    BY <2>2, <2>3
<1>4. /\ d.stage = r.stage /\ d.needs = r.needs /\ d.group = r.group /\ d.allow = r.allow
      /\ d.artifacts = applyJobConfig(r, settings, "artifacts", Unset)
      /\ d.rules = applyJobConfig(r, settings, "rules", blank)
      /\ d.when = applyJobConfig(r, settings, "when", blank)
      /\ d.ifExpr = applyJobConfig(r, settings, "ifExpr", blank)
  BY DEF applyResolvedJobConfig, Fields
<1>. HIDE DEF settings, d, blank
<1>5. d.artifacts = r.artifacts \/ (\E x : SetFor(x, type, c) /\ x.artifacts # Unset)
  <2>1. \/ applyJobConfig(r, settings, "artifacts", Unset) = r["artifacts"]
        \/ \E i \in DOMAIN settings :
             /\ settings[i]["artifacts"] # Unset
             /\ applyJobConfig(r, settings, "artifacts", Unset) = settings[i]["artifacts"]
    BY <1>1, <1>2, AppliedSetting
  <2>. QED
    BY <1>3, <1>4, <2>1
<1>6. d.ifExpr = r.ifExpr \/ (\E x : SetFor(x, type, c) /\ x.ifExpr = d.ifExpr)
  <2>1. \/ applyJobConfig(r, settings, "ifExpr", blank) = r["ifExpr"]
        \/ \E i \in DOMAIN settings :
             /\ settings[i]["ifExpr"] # blank
             /\ applyJobConfig(r, settings, "ifExpr", blank) = settings[i]["ifExpr"]
    BY <1>1, <1>2, AppliedSetting
  <2>. QED
    BY <1>3, <1>4, <2>1
<1>7. d.rules = r.rules \/ (\E x : SetFor(x, type, c) /\ x.rules = d.rules)
  <2>1. \/ applyJobConfig(r, settings, "rules", blank) = r["rules"]
        \/ \E i \in DOMAIN settings :
             /\ settings[i]["rules"] # blank
             /\ applyJobConfig(r, settings, "rules", blank) = settings[i]["rules"]
    BY <1>1, <1>2, AppliedSetting
  <2>. QED
    BY <1>3, <1>4, <2>1
<1>8. d.when = r.when \/ (\E x : SetFor(x, type, c) /\ x.when = d.when)
  <2>1. \/ applyJobConfig(r, settings, "when", blank) = r["when"]
        \/ \E i \in DOMAIN settings :
             /\ settings[i]["when"] # blank
             /\ applyJobConfig(r, settings, "when", blank) = settings[i]["when"]
    BY <1>1, <1>2, AppliedSetting
  <2>. QED
    BY <1>3, <1>4, <2>1
<1>. QED
  BY <1>4, <1>5, <1>6, <1>7, <1>8 DEF Configures, d

LEMMA GenerateRenders ==
  ASSUME Generate, Validate(ir)
  PROVE  /\ config' \in Configs /\ DOMAIN doc' = JobNames(ir)
         /\ \A n \in JobNames(ir) : Rendered(n)'
<1>1. config' \in Configs /\ ir' = ir /\ DOMAIN doc' = JobNames(ir)
  BY DEF Generate, vars
<1>2. ASSUME NEW n \in JobNames(ir)
      PROVE  Rendered(n)'
  <2>. DEFINE j == FindJob(ir, n)
              r == IF config'.backend = "gitlab" THEN renderGitLabJob(j, stages(ir)) ELSE renderGitHubJob(j)
              type == jobOverwriteType(j)
              d == applyResolvedJobConfig(r, type, config')
  <2>1. doc'[n] = d
    BY DEF Generate
  <2>2. Plain(r, j) /\ DOMAIN r = Fields
    <3>1. \A input \in ToSet(j.inputs) : Configured(input.artifact) => input.producer \in ToSet(j.deps)
      BY ValidEdges
    <3>. HIDE DEF j
    <3>2. Plain(renderGitLabJob(j, stages(ir)), j) /\ DOMAIN renderGitLabJob(j, stages(ir)) = Fields
      BY <3>1, GitLabRendersNeeds
    <3>3. Plain(renderGitHubJob(j), j) /\ DOMAIN renderGitHubJob(j) = Fields
      BY GitHubRendersNeeds
    <3>. QED
      BY <3>2, <3>3
  <2>. HIDE DEF j, r
  <2>. HIDE DEF type
  <2>3. Configures(d, r, type, config')
    BY <1>1, <2>2, ConfiguredJob
  <2>. HIDE DEF d
  <2>4. ownsArtifacts(n)' <=> \E x : SetFor(x, type, config') /\ x.artifacts # Unset
    BY <1>1 DEF ownsArtifacts, sets, ownArtifacts, SetFor, type, j
  <2>5. saysAnyway(n)' <=> \E x : SetFor(x, type, config') /\ anyway(x)
    BY <1>1 DEF saysAnyway, sets, anyway, SetFor, type, j
  <2>6. ~gitlab' => \A x : SetFor(x, type, config') => x.rules = ""
    <3>1. config'.backend \in {"gitlab", "github"}
      BY <1>1, ConfigsAssumption
    <3>2. config'.backend = "github" =>
            \A x \in {config'.defaults} \cup ToSet(config'.overwrites) : x.rules = ""
      BY <1>1, ConfigsAssumption
    <3>. QED
      BY <3>1, <3>2 DEF gitlab, SetFor
  <2>7. FindJob(ir, n)' = j
    BY <1>1 DEF j
  <2>8. /\ \A k \in ToSet(j.deps) : \E need \in d.needs : need.job = k
        /\ \A input \in ToSet(j.inputs) : Configured(input.artifact) =>
             \E need \in d.needs :
               /\ need.job = input.producer /\ need.artifacts
               /\ need.optional => \E x \in ToSet(j.inputs) : x.producer = input.producer /\ x.optional /\ Configured(x.artifact)
        /\ d.group = j.module /\ d.allow = j.allow
    BY <2>2, <2>3 DEF Plain, Configures
  <2>9. /\ d.artifacts = ToSet(j.output.paths) \/ ownsArtifacts(n)'
        /\ d.ifExpr = "always()" \/ d.when \in RunsAnyway \/ d.rules \in RunsAnyway => saysAnyway(n)'
        /\ ~gitlab' => d.rules \notin LeaveOut
    <3>1. r.artifacts = ToSet(j.output.paths) /\ r.ifExpr = "" /\ r.rules = "" /\ r.when = ""
      BY <2>2 DEF Plain
    <3>2. /\ d.artifacts = r.artifacts \/ \E x : SetFor(x, type, config') /\ x.artifacts # Unset
          /\ d.ifExpr = r.ifExpr \/ \E x : SetFor(x, type, config') /\ x.ifExpr = d.ifExpr
          /\ d.rules = r.rules \/ \E x : SetFor(x, type, config') /\ x.rules = d.rules
          /\ d.when = r.when \/ \E x : SetFor(x, type, config') /\ x.when = d.when
      BY <2>3 DEF Configures
    <3>3. d.artifacts = ToSet(j.output.paths) \/ ownsArtifacts(n)'
      BY <2>4, <3>1, <3>2
    <3>4. d.ifExpr = "always()" \/ d.when \in RunsAnyway \/ d.rules \in RunsAnyway => saysAnyway(n)'
      BY <2>5, <3>1, <3>2 DEF anyway, RunsAnyway
    <3>5. ~gitlab' => d.rules \notin LeaveOut
      BY <2>6, <3>1, <3>2 DEF LeaveOut
    <3>. QED
      BY <3>3, <3>4, <3>5
  <2>10. gitlab' => d.stage = stages(ir)[n] /\ d.needs = jobNeeds(j)
    <3>1. gitlab' => r.stage = stages(ir)[j.name] /\ r.needs = jobNeeds(j)
      BY DEF gitlab, r, renderGitLabJob
    <3>2. j.name = n
      BY JobByName DEF j
    <3>. QED
      BY <2>3, <3>1, <3>2 DEF Configures
  <2>. QED
    BY <1>1, <2>1, <2>7, <2>8, <2>9, <2>10 DEF Rendered
<1>. QED
  BY <1>1, <1>2

-----------------------------------------------------------------------------
(* The inductive invariant *)

\* A configuration comes with the jobs rendered from a valid IR, and nothing
\* is executed locally then.
DocInv ==
  /\ stage = "done" => Validate(ir)
  /\ local # "idle" => config = NoConfig
  /\ local = "idle" => job = Nothing
  /\ config = NoConfig => doc = Nothing /\ \A p \in Pipelines : status[p] = Nothing
  /\ config # NoConfig => stage = "done" /\ DOMAIN doc = JobNames(ir) /\ \A n \in JobNames(ir) : Rendered(n)

\* A pipeline has all the jobs the rules admit, and was accepted.
RunShape ==
  /\ DOMAIN status = Pipelines /\ DOMAIN stored = Pipelines /\ DOMAIN restored = Pipelines
  /\ \A p \in Pipelines :
       /\ DOMAIN status[p] = {} \/ (DOMAIN status[p] = admitted /\ Accepted)
       /\ DOMAIN stored[p] = DOMAIN status[p] /\ DOMAIN restored[p] = DOMAIN status[p]

Before(p, n) ==
  \A k \in ToSet(FindJob(ir, n).deps) \cap DOMAIN status[p] : status[p][k] = "success" \/ saysAnyway(n)

Uploaded(p, n) ==
  \/ ToSet(FindJob(ir, n).output.paths) \subseteq stored[p][n]
  \/ FindJob(ir, n).allow \/ ownsArtifacts(n)

Found(p, n) ==
  \A input \in ToSet(FindJob(ir, n).inputs) : Configured(input.artifact) =>
    \/ ToSet(input.artifact.paths) \subseteq restored[p][n]
    \/ ownsArtifacts(input.producer) \/ saysAnyway(n) \/ FindJob(ir, input.producer).allow
    \/ /\ input.producer \notin DOMAIN status[p]
       /\ \E x \in ToSet(FindJob(ir, n).inputs) : x.producer = input.producer /\ x.optional /\ Configured(x.artifact)

\* What is known of a job from its status: a queued one waits for nothing more,
\* a successful one has left what it promised.
RunAt(p, n) ==
  /\ status[p][n] \in {"queued", "running", "success"} => Before(p, n)
  /\ status[p][n] = "success" => Uploaded(p, n)
  /\ status[p][n] \in {"running", "success"} => Found(p, n)

RunInv == \A p \in Pipelines : \A n \in DOMAIN status[p] : RunAt(p, n)

AloneInv ==
  \A p, q \in Pipelines : \A n \in DOMAIN status[p], k \in DOMAIN status[q] :
    /\ status[p][n] = "running" /\ status[q][k] = "running"
    /\ doc[n].group = doc[k].group /\ doc[n].group # NoModule
    => p = q /\ n = k

CIInv == DocInv /\ RunShape /\ RunInv /\ AloneInv

\* What is read off the IR, the configuration and the generated jobs alone
LEMMA SameDefinitions ==
  ASSUME ir' = ir, config' = config, doc' = doc
  PROVE  /\ \A n : saysAnyway(n)' = saysAnyway(n) /\ ownsArtifacts(n)' = ownsArtifacts(n)
         /\ \A n : Rendered(n)' = Rendered(n)
         /\ admitted' = admitted /\ Accepted' = Accepted /\ gitlab' = gitlab
<1>1. \A n : saysAnyway(n)' = saysAnyway(n) /\ ownsArtifacts(n)' = ownsArtifacts(n)
  BY DEF saysAnyway, ownsArtifacts, sets, anyway, ownArtifacts
<1>2. gitlab' = gitlab /\ admitted' = admitted
  BY DEF gitlab, admitted
<1>. QED
  BY <1>1, <1>2 DEF Rendered, Accepted

\* A job that is left alone keeps what is known of it, when no job loses its
\* success or what it stored.
LEMMA LeftAlone ==
  ASSUME ir' = ir, config' = config, doc' = doc,
         NEW p, NEW n \in DOMAIN status[p], DOMAIN status'[p] = DOMAIN status[p],
         \A k \in DOMAIN status[p] : status[p][k] = "success" => status'[p][k] = "success",
         status'[p][n] = status[p][n], stored'[p][n] = stored[p][n], restored'[p][n] = restored[p][n],
         RunAt(p, n)
  PROVE  RunAt(p, n)'
BY SameDefinitions DEF RunAt, Before, Uploaded, Found

\* A status that says nothing
LEMMA NothingKnown ==
  ASSUME NEW p, NEW n, status'[p][n] \notin {"queued", "running", "success"}
  PROVE  RunAt(p, n)'
BY DEF RunAt

-----------------------------------------------------------------------------
(* The steps of the CI system *)

\* The document is there when a pipeline has jobs.
LEMMA RunningHasDoc ==
  ASSUME CIInv, NEW p \in Pipelines, NEW n \in DOMAIN status[p]
  PROVE  /\ config # NoConfig /\ stage = "done" /\ Validate(ir) /\ local = "idle"
         /\ DOMAIN status[p] = admitted /\ Accepted
         /\ n \in JobNames(ir) /\ n \in DOMAIN doc /\ DOMAIN doc = JobNames(ir) /\ Rendered(n)
<1>1. config # NoConfig
  BY DEF CIInv, DocInv, Nothing
<1>2. DOMAIN status[p] = admitted /\ Accepted
  BY DEF CIInv, RunShape
<1>. QED
  BY <1>1, <1>2 DEF CIInv, DocInv, admitted

\* A step of a CI system that changes statuses, artifacts and workspaces only
LEMMA DocStays ==
  ASSUME CIInv, config # NoConfig, UNCHANGED <<vars, config, doc, local, job>>
  PROVE  DocInv'
<1>1. ir' = ir /\ config' = config /\ doc' = doc /\ local' = local /\ job' = job /\ stage' = stage
  BY DEF vars
<1>. QED
  BY <1>1, SameDefinitions DEF CIInv, DocInv

LEMMA PushKeepsInv ==
  ASSUME CIInv, NEW p \in Pipelines, Push(p), UNCHANGED localVars
  PROVE  CIInv'
<1>1. /\ ir' = ir /\ config' = config /\ doc' = doc /\ UNCHANGED <<vars, config, doc, local, job>>
      /\ Accepted /\ DOMAIN status[p] = {} /\ DOMAIN doc # {}
      /\ status' = [status EXCEPT ![p] = [n \in admitted |-> "waiting"]]
      /\ stored' = [stored EXCEPT ![p] = [n \in admitted |-> {}]]
      /\ restored' = [restored EXCEPT ![p] = [n \in admitted |-> {}]]
  BY DEF Push, vars, localVars, started
<1>2. DocInv'
  <2>1. config # NoConfig
    BY <1>1 DEF CIInv, DocInv, Nothing
  <2>. QED
    BY <1>1, <2>1, DocStays
<1>3. \A q \in Pipelines : /\ status'[q] = IF q = p THEN [n \in admitted |-> "waiting"] ELSE status[q]
                           /\ stored'[q] = IF q = p THEN [n \in admitted |-> {}] ELSE stored[q]
                           /\ restored'[q] = IF q = p THEN [n \in admitted |-> {}] ELSE restored[q]
  BY <1>1 DEF CIInv, RunShape
<1>4. RunShape'
  BY <1>1, <1>3, SameDefinitions DEF CIInv, RunShape
<1>5. RunInv'
  <2>1. ASSUME NEW q \in Pipelines, NEW n \in DOMAIN status'[q] PROVE RunAt(q, n)'
    <3>1. CASE q = p
      BY <1>3, <3>1, NothingKnown
    <3>2. CASE q # p
      <4>1. n \in DOMAIN status[q] /\ status'[q] = status[q] /\ stored'[q] = stored[q] /\ restored'[q] = restored[q]
        BY <1>3, <3>2
      <4>2. RunAt(q, n)
        BY <4>1 DEF CIInv, RunInv
      <4>. QED
        BY <1>1, <4>1, <4>2, LeftAlone
    <3>. QED
      BY <3>1, <3>2
  <2>. QED
    BY <2>1 DEF RunInv
<1>6. AloneInv'
  BY <1>1, <1>3 DEF CIInv, AloneInv
<1>. QED
  BY <1>2, <1>4, <1>5, <1>6 DEF CIInv

\* A job is known to have what it waits for when it is queued.
LEMMA ReadyIsBefore ==
  ASSUME CIInv, NEW p \in Pipelines, NEW n \in DOMAIN status[p], ready(p, n)
  PROVE  Before(p, n)
<1>1. Rendered(n)
  BY RunningHasDoc
<1>2. ASSUME NEW k \in ToSet(FindJob(ir, n).deps) \cap DOMAIN status[p]
      PROVE  status[p][k] = "success" \/ saysAnyway(n)
  <2>1. k \in needed(p, n)
    BY <1>1 DEF Rendered, needed
  <2>. QED
    BY <1>1, <2>1 DEF Rendered, ready, always, whenOf, RunsAnyway
<1>. QED
  BY <1>2 DEF Before

LEMMA QueueKeepsInv ==
  ASSUME CIInv, NEW p \in Pipelines, NEW n \in DOMAIN status[p], Queue(p, n), UNCHANGED localVars
  PROVE  CIInv'
<1>1. /\ ir' = ir /\ config' = config /\ doc' = doc /\ UNCHANGED <<vars, config, doc, local, job>>
      /\ stored' = stored /\ restored' = restored
      /\ ready(p, n) /\ status[p][n] = "waiting" /\ config # NoConfig
  BY RunningHasDoc DEF Queue, ready, vars, localVars
<1>2. status' = [q \in Pipelines |-> [k \in DOMAIN status[q] |->
                  IF q = p /\ k = n THEN "queued"
                  ELSE IF ~gitlab /\ doc[n].group # NoModule /\ doc[k].group = doc[n].group
                          /\ status[q][k] = "queued" THEN "canceled"
                  ELSE status[q][k]]]
  BY DEF Queue
<1>3. /\ DOMAIN status' = Pipelines
      /\ \A q \in Pipelines :
           /\ DOMAIN status'[q] = DOMAIN status[q]
           /\ \A k \in DOMAIN status[q] :
                \/ q = p /\ k = n /\ status'[q][k] = "queued"
                \/ ~(q = p /\ k = n) /\ status[q][k] = "queued" /\ status'[q][k] = "canceled"
                \/ ~(q = p /\ k = n) /\ status'[q][k] = status[q][k]
  BY <1>2
<1>4. \A q \in Pipelines : \A k \in DOMAIN status[q] :
        status[q][k] = "success" => status'[q][k] = "success"
  BY <1>1, <1>3
<1>5. DocInv' /\ RunShape'
  BY <1>1, <1>3, DocStays, SameDefinitions DEF CIInv, RunShape
<1>6. ASSUME NEW q \in Pipelines, NEW k \in DOMAIN status'[q] PROVE RunAt(q, k)'
  <2>1. k \in DOMAIN status[q] /\ RunAt(q, k)
    BY <1>3 DEF CIInv, RunInv
  <2>2. CASE q = p /\ k = n
    <3>1. Before(p, n)
      BY ReadyIsBefore, <1>1
    <3>2. Before(p, n)'
      BY <1>1, <1>3, <1>4, <3>1, SameDefinitions DEF Before
    <3>. QED
      BY <1>3, <2>1, <2>2, <3>2 DEF RunAt
  <2>3. CASE status'[q][k] = "canceled"
    BY <2>3, NothingKnown
  <2>4. CASE status'[q][k] = status[q][k]
    BY <1>1, <1>3, <1>4, <2>1, <2>4, LeftAlone
  <2>. QED
    BY <1>3, <2>1, <2>2, <2>3, <2>4
<1>7. AloneInv'
  <2>1. \A q \in Pipelines : \A k \in DOMAIN status[q] : status'[q][k] = "running" => status[q][k] = "running"
    BY <1>3
  <2>. QED
    BY <1>1, <1>3, <2>1 DEF CIInv, AloneInv
<1>. QED
  BY <1>5, <1>6, <1>7 DEF CIInv, RunInv

\* Steps that change one job: its status, and what it stores or restores
LEMMA OneJobStep ==
  ASSUME CIInv, NEW p \in Pipelines, NEW n \in DOMAIN status[p], NEW s, NEW st, NEW re,
         status' = [status EXCEPT ![p][n] = s],
         stored' \in {stored, [stored EXCEPT ![p][n] = st]},
         restored' \in {restored, [restored EXCEPT ![p][n] = re]},
         UNCHANGED <<vars, config, doc, localVars>>, status[p][n] # "success",
         RunAt(p, n)',
         s = "running" => ~busy(doc[n].group)
  PROVE  CIInv'
<1>1. /\ ir' = ir /\ config' = config /\ doc' = doc /\ UNCHANGED <<vars, config, doc, local, job>>
      /\ config # NoConfig
  BY RunningHasDoc DEF vars, localVars
<1>2. /\ DOMAIN status' = Pipelines /\ DOMAIN stored' = Pipelines /\ DOMAIN restored' = Pipelines
      /\ \A q \in Pipelines :
           /\ DOMAIN status'[q] = DOMAIN status[q]
           /\ DOMAIN stored'[q] = DOMAIN stored[q] /\ DOMAIN restored'[q] = DOMAIN restored[q]
           /\ \A k \in DOMAIN status[q] :
                /\ status'[q][k] = IF q = p /\ k = n THEN s ELSE status[q][k]
                /\ ~(q = p /\ k = n) => stored'[q][k] = stored[q][k] /\ restored'[q][k] = restored[q][k]
  BY DEF CIInv, RunShape
<1>3. \A q \in Pipelines : \A k \in DOMAIN status[q] :
        status[q][k] = "success" => status'[q][k] = "success"
  BY <1>2
<1>4. DocInv' /\ RunShape'
  BY <1>1, <1>2, DocStays, SameDefinitions DEF CIInv, RunShape
<1>5. ASSUME NEW q \in Pipelines, NEW k \in DOMAIN status'[q], ~(q = p /\ k = n) PROVE RunAt(q, k)'
  <2>1. k \in DOMAIN status[q] /\ RunAt(q, k)
    BY <1>2 DEF CIInv, RunInv
  <2>. QED
    BY <1>1, <1>2, <1>3, <1>5, <2>1, LeftAlone
<1>6. AloneInv'
  <2>1. SUFFICES ASSUME NEW q \in Pipelines, NEW r \in Pipelines,
                        NEW k \in DOMAIN status[q], NEW l \in DOMAIN status[r],
                        status'[q][k] = "running", status'[r][l] = "running",
                        doc[k].group = doc[l].group, doc[k].group # NoModule
                 PROVE  q = r /\ k = l
    BY <1>1, <1>2 DEF AloneInv
  <2>2. CASE ~(q = p /\ k = n) /\ ~(r = p /\ l = n)
    BY <1>2, <2>1, <2>2 DEF CIInv, AloneInv
  <2>3. CASE q = p /\ k = n /\ ~(r = p /\ l = n)
    <3>1. s = "running" /\ status[r][l] = "running"
      BY <1>2, <2>1, <2>3
    <3>2. busy(doc[n].group)
      BY <2>1, <2>3, <3>1 DEF busy
    <3>. QED
      BY <3>1, <3>2
  <2>4. CASE r = p /\ l = n /\ ~(q = p /\ k = n)
    <3>1. s = "running" /\ status[q][k] = "running"
      BY <1>2, <2>1, <2>4
    <3>2. busy(doc[n].group)
      BY <2>1, <2>4, <3>1 DEF busy
    <3>. QED
      BY <3>1, <3>2
  <2>. QED
    BY <2>2, <2>3, <2>4
<1>. QED
  BY <1>4, <1>5, <1>6 DEF CIInv, RunInv

\* What a job takes from the jobs it needs
takes(p, n) == {need \in doc[n].needs : need.artifacts /\ need.job \in DOMAIN status[p]}

\* A queued job that starts finds the files of its inputs.
LEMMA StartFinds ==
  ASSUME CIInv, NEW p \in Pipelines, NEW n \in DOMAIN status[p], status[p][n] = "queued",
         NEW input \in ToSet(FindJob(ir, n).inputs), Configured(input.artifact)
  PROVE  \/ ToSet(input.artifact.paths) \subseteq UNION {stored[p][need.job] : need \in takes(p, n)}
         \/ ownsArtifacts(input.producer) \/ saysAnyway(n) \/ FindJob(ir, input.producer).allow
         \/ /\ input.producer \notin DOMAIN status[p]
            /\ \E x \in ToSet(FindJob(ir, n).inputs) : x.producer = input.producer /\ x.optional /\ Configured(x.artifact)
<1>. DEFINE k == input.producer
<1>1. /\ Validate(ir) /\ Rendered(n) /\ n \in JobNames(ir) /\ DOMAIN doc = JobNames(ir)
      /\ n \in DOMAIN doc /\ n \in admitted /\ DOMAIN status[p] = admitted /\ Accepted /\ config # NoConfig
  BY RunningHasDoc
<1>2. /\ k \in JobNames(ir) /\ k \in ToSet(FindJob(ir, n).deps)
      /\ input.artifact = FindJob(ir, k).output
  BY <1>1, ValidEdges
<1>3. PICK need \in doc[n].needs :
        /\ need.job = k /\ need.artifacts
        /\ need.optional => \E x \in ToSet(FindJob(ir, n).inputs) : x.producer = k /\ x.optional /\ Configured(x.artifact)
  BY <1>1 DEF Rendered
<1>4. CASE k \in DOMAIN status[p]
  <2>1. status[p][k] = "success" \/ saysAnyway(n)
    BY <1>2, <1>4 DEF CIInv, RunInv, RunAt, Before
  <2>2. status[p][k] = "success" => Uploaded(p, k)
    BY <1>4 DEF CIInv, RunInv, RunAt
  <2>3. need \in takes(p, n) /\ need.job = k
    BY <1>3, <1>4 DEF takes
  <2>4. stored[p][k] \subseteq UNION {stored[p][x.job] : x \in takes(p, n)}
    BY <2>3
  <2>. QED
    BY <1>2, <2>1, <2>2, <2>4 DEF Uploaded
<1>5. CASE k \notin DOMAIN status[p]
  <2>1. k \notin admitted /\ k \in DOMAIN doc
    BY <1>1, <1>2, <1>5
  <2>2. CASE gitlab
    <3>1. need.optional
      BY <1>1, <1>3, <2>1, <2>2 DEF Accepted
    <3>. QED
      BY <1>3, <1>5, <3>1
  <2>3. CASE ~gitlab
    <3>1. Rendered(k)
      BY <1>1, <1>2 DEF CIInv, DocInv
    <3>2. k \in admitted
      BY <2>1, <2>3, <3>1 DEF Rendered, admitted
    <3>. QED
      BY <2>1, <3>2
  <2>. QED
    BY <2>2, <2>3
<1>. QED
  BY <1>4, <1>5

LEMMA StartKeepsInv ==
  ASSUME CIInv, NEW p \in Pipelines, NEW n \in DOMAIN status[p], Start(p, n), UNCHANGED localVars
  PROVE  CIInv'
<1>. DEFINE re == UNION {stored[p][need.job] : need \in takes(p, n)}
            absent == {need \in takes(p, n) : stored[p][need.job] = {}}
            s == IF ~gitlab /\ \E need \in absent : ~need.optional THEN "failed" ELSE "running"
<1>1. /\ status[p][n] = "queued" /\ ~busy(doc[n].group)
      /\ restored' = [restored EXCEPT ![p][n] = re]
      /\ status' = [status EXCEPT ![p][n] = s]
      /\ UNCHANGED <<vars, config, doc, stored>>
  BY DEF Start, takes
<1>2. s \in {"failed", "running"}
  OBVIOUS
<1>. HIDE DEF s
<1>3. /\ ir' = ir /\ config' = config /\ doc' = doc
      /\ DOMAIN status'[p] = DOMAIN status[p]
      /\ \A k \in DOMAIN status[p] : status'[p][k] = IF k = n THEN s ELSE status[p][k]
      /\ restored'[p][n] = re
  BY <1>1 DEF vars, CIInv, RunShape
<1>4. Before(p, n)'
  <2>1. Before(p, n)
    BY <1>1 DEF CIInv, RunInv, RunAt
  <2>2. \A k \in DOMAIN status[p] : status[p][k] = "success" => status'[p][k] = "success"
    BY <1>1, <1>3
  <2>. QED
    BY <1>3, <2>1, <2>2, SameDefinitions DEF Before
<1>5. Found(p, n)'
  <2>. HIDE DEF re
  <2>1. ASSUME NEW input \in ToSet(FindJob(ir, n).inputs), Configured(input.artifact)
        PROVE  \/ ToSet(input.artifact.paths) \subseteq re
               \/ ownsArtifacts(input.producer) \/ saysAnyway(n) \/ FindJob(ir, input.producer).allow
               \/ /\ input.producer \notin DOMAIN status[p]
                  /\ \E x \in ToSet(FindJob(ir, n).inputs) : x.producer = input.producer /\ x.optional /\ Configured(x.artifact)
    BY <1>1, <2>1, StartFinds DEF re
  <2>. QED
    BY <1>3, <2>1, SameDefinitions DEF Found
<1>6. RunAt(p, n)'
  BY <1>2, <1>3, <1>4, <1>5 DEF RunAt
<1>. HIDE DEF re
<1>. QED
  BY <1>1, <1>6, OneJobStep

\* A script that ends well leaves every file it promises.
LEMMA WorkingLeavesAll ==
  ASSUME NEW j, NEW r \in RenderOperation(j), r.works
  PROVE  r.left = ToSet(j.output.paths)
<1>1. CASE j.kind = "plan"
  <2>. DEFINE whole == ToSet(j.output.paths)
              some == whole \ {PlanResource("plan_binary", j.module)}
              exits == IF Len(j.produces) > 1 THEN {0, 1, 2} ELSE {0, 1}
  <2>1. r \in {[works |-> exit # 1, left |-> IF exit = 1 THEN some ELSE whole] : exit \in exits}
               \cup {[works |-> FALSE, left |-> {}]}
    BY <1>1 DEF RenderOperation, renderTerraformPlan
  <2>. HIDE DEF whole, some, exits
  <2>2. \/ \E exit \in exits : r = [works |-> exit # 1, left |-> IF exit = 1 THEN some ELSE whole]
        \/ r = [works |-> FALSE, left |-> {}]
    BY <2>1, Zenon
  <2>3. r # [works |-> FALSE, left |-> {}]
    <3>1. r = [works |-> FALSE, left |-> {}] => ~r.works
      OBVIOUS
    <3>. QED
      BY <3>1
  <2>4. PICK exit \in exits : r = [works |-> exit # 1, left |-> IF exit = 1 THEN some ELSE whole]
    BY <2>2, <2>3
  <2>5. r.left = IF exit = 1 THEN some ELSE whole
    BY <2>4
  <2>6. exit # 1
    <3>1. SUFFICES ASSUME exit = 1 PROVE ~r.works
      OBVIOUS
    <3>2. r = [works |-> FALSE, left |-> some]
      BY <2>4, <3>1, Zenon
    <3>. QED
      BY <3>2
  <2>. QED
    BY <2>5, <2>6 DEF whole
<1>2. CASE j.kind # "plan"
  BY <1>2 DEF RenderOperation
<1>. QED
  BY <1>1, <1>2

LEMMA FinishKeepsInv ==
  ASSUME CIInv, NEW p \in Pipelines, NEW n \in DOMAIN status[p], Finish(p, n), UNCHANGED localVars
  PROVE  CIInv'
<1>1. PICK r \in RenderOperation(FindJob(ir, n)) :
        /\ status' = [status EXCEPT ![p][n] = IF r.works \/ doc[n].allow THEN "success" ELSE "failed"]
        /\ stored' = [stored EXCEPT ![p][n] = r.left \cap doc[n].artifacts]
  BY DEF Finish
<1>. DEFINE s == IF r.works \/ doc[n].allow THEN "success" ELSE "failed"
            st == r.left \cap doc[n].artifacts
<1>2. status[p][n] = "running" /\ UNCHANGED <<vars, config, doc, restored>>
  BY DEF Finish
<1>3. s \in {"success", "failed"} /\ (s = "success" => r.works \/ doc[n].allow)
  OBVIOUS
<1>4. Rendered(n)
  BY RunningHasDoc
<1>5. st = ToSet(FindJob(ir, n).output.paths) \/ FindJob(ir, n).allow \/ ownsArtifacts(n) \/ s = "failed"
  BY <1>3, <1>4, WorkingLeavesAll DEF Rendered
<1>6. status' = [status EXCEPT ![p][n] = s] /\ stored' = [stored EXCEPT ![p][n] = st]
  BY <1>1
<1>. HIDE DEF s, st
<1>7. /\ ir' = ir /\ config' = config /\ doc' = doc /\ restored' = restored
      /\ DOMAIN status'[p] = DOMAIN status[p] /\ stored'[p][n] = st
      /\ \A k \in DOMAIN status[p] : status'[p][k] = IF k = n THEN s ELSE status[p][k]
  BY <1>2, <1>6 DEF vars, CIInv, RunShape
<1>8. Uploaded(p, n)' \/ s = "failed"
  BY <1>5, <1>7, SameDefinitions DEF Uploaded
<1>9. Before(p, n)' /\ Found(p, n)'
  <2>1. Before(p, n) /\ Found(p, n)
    BY <1>2 DEF CIInv, RunInv, RunAt
  <2>2. \A k \in DOMAIN status[p] : status[p][k] = "success" => status'[p][k] = "success"
    BY <1>2, <1>7
  <2>. QED
    BY <1>7, <2>1, <2>2, SameDefinitions DEF Before, Found
<1>10. RunAt(p, n)'
  BY <1>3, <1>7, <1>8, <1>9 DEF RunAt
<1>. QED
  BY <1>2, <1>3, <1>6, <1>10, OneJobStep

LEMMA SkipKeepsInv ==
  ASSUME CIInv, NEW p \in Pipelines, NEW n \in DOMAIN status[p], Skip(p, n), UNCHANGED localVars
  PROVE  CIInv'
<1>1. /\ status[p][n] = "waiting" /\ status' = [status EXCEPT ![p][n] = "skipped"]
      /\ UNCHANGED <<vars, config, doc, stored, restored>>
  BY DEF Skip
<1>2. RunAt(p, n)'
  <2>1. status'[p][n] = "skipped"
    BY <1>1 DEF CIInv, RunShape
  <2>. QED
    BY <2>1, NothingKnown
<1>. QED
  BY <1>1, <1>2, OneJobStep

-----------------------------------------------------------------------------
(* Generating, building and local execution *)

\* Without jobs in any pipeline nothing is claimed of them.
LEMMA NoRuns ==
  ASSUME DOMAIN status' = Pipelines, DOMAIN stored' = Pipelines, DOMAIN restored' = Pipelines,
         \A p \in Pipelines : DOMAIN status'[p] = {} /\ DOMAIN stored'[p] = {} /\ DOMAIN restored'[p] = {}
  PROVE  RunShape' /\ RunInv' /\ AloneInv'
BY DEF RunShape, RunInv, AloneInv

LEMMA GenerateKeepsInv ==
  ASSUME CIInv, local = "idle", Generate, UNCHANGED localVars
  PROVE  CIInv'
<1>1. /\ stage = "done" /\ config = NoConfig /\ Validate(ir) /\ UNCHANGED <<vars, status, stored, restored>>
      /\ ir' = ir /\ stage' = stage /\ local' = local /\ job' = job
  BY DEF Generate, CIInv, DocInv, vars, localVars
<1>2. config' \in Configs /\ DOMAIN doc' = JobNames(ir) /\ \A n \in JobNames(ir) : Rendered(n)'
  BY <1>1, GenerateRenders
<1>3. config' # NoConfig
  <2>1. config'.backend # ""
    BY <1>2, ConfigsAssumption
  <2>2. NoConfig.backend = ""
    BY DEF NoConfig
  <2>. QED
    BY <2>1, <2>2
<1>4. DocInv'
  BY <1>1, <1>2, <1>3 DEF CIInv, DocInv
<1>5. \A p \in Pipelines : DOMAIN status[p] = {} /\ DOMAIN stored[p] = {} /\ DOMAIN restored[p] = {}
  <2>1. \A p \in Pipelines : DOMAIN status[p] = {}
    BY <1>1 DEF CIInv, DocInv, Nothing
  <2>. QED
    BY <2>1 DEF CIInv, RunShape
<1>6. RunShape' /\ RunInv' /\ AloneInv'
  BY <1>1, <1>5, NoRuns DEF CIInv, RunShape
<1>. QED
  BY <1>4, <1>6 DEF CIInv

\* As long as there is no configuration, what happens to the IR is of no
\* concern, except that building ends with a valid one.
LEMMA WithoutConfig ==
  ASSUME CIInv, config = NoConfig, UNCHANGED ciVars, stage' = "done" => Validate(ir'),
         local' = "idle" => job' = Nothing
  PROVE  CIInv'
<1>1. config' = config /\ doc' = doc /\ status' = status /\ stored' = stored /\ restored' = restored
  BY DEF ciVars
<1>2. DocInv'
  BY <1>1 DEF CIInv, DocInv
<1>3. \A p \in Pipelines : DOMAIN status[p] = {} /\ DOMAIN stored[p] = {} /\ DOMAIN restored[p] = {}
  <2>1. \A p \in Pipelines : DOMAIN status[p] = {}
    BY DEF CIInv, DocInv, Nothing
  <2>. QED
    BY <2>1 DEF CIInv, RunShape
<1>4. RunShape' /\ RunInv' /\ AloneInv'
  BY <1>1, <1>3, NoRuns DEF CIInv, RunShape
<1>. QED
  BY <1>2, <1>4 DEF CIInv

LEMMA BuildKeepsInv ==
  ASSUME CIInv, local = "idle", Next, UNCHANGED ciVars, UNCHANGED localVars
  PROVE  CIInv'
<1>1. stage # "done" /\ (stage' = "done" => Validate(ir'))
  <2>1. CASE PrepareModuleGraph
    BY <2>1 DEF PrepareModuleGraph
  <2>2. CASE BuildJobs
    BY <2>2 DEF BuildJobs
  <2>3. CASE ResolveResources
    BY <2>3 DEF ResolveResources
  <2>4. CASE ValidateIR
    BY <2>4 DEF ValidateIR
  <2>. QED
    BY <2>1, <2>2, <2>3, <2>4 DEF Next
<1>2. config = NoConfig
  BY <1>1 DEF CIInv, DocInv
<1>3. local' = "idle" => job' = Nothing
  BY DEF CIInv, DocInv, localVars
<1>. QED
  BY <1>1, <1>2, <1>3, WithoutConfig

LEMMA LocalKeepsInv ==
  ASSUME CIInv, Begin \/ (\E n \in DOMAIN job : StartJob(n) \/ EndJob(n)) \/ EndRound \/ NextRound
  PROVE  CIInv'
<1>1. CASE Begin
  <2>1. config = NoConfig /\ UNCHANGED <<vars, ciVars>> /\ local' # "idle"
    BY <1>1 DEF Begin
  <2>. QED
    BY <2>1, WithoutConfig DEF CIInv, DocInv, vars
<1>2. ASSUME NEW n \in DOMAIN job, StartJob(n) PROVE CIInv'
  <2>1. local = "running" /\ local' = local /\ UNCHANGED <<vars, ciVars>>
    BY <1>2 DEF StartJob, jobStarted
  <2>2. config = NoConfig
    BY <2>1 DEF CIInv, DocInv
  <2>. QED
    BY <2>1, <2>2, WithoutConfig DEF CIInv, DocInv, vars
<1>3. ASSUME NEW n \in DOMAIN job, EndJob(n) PROVE CIInv'
  <2>1. local' = local /\ UNCHANGED <<vars, ciVars>>
    BY <1>3 DEF EndJob
  <2>2. local # "idle"
    BY DEF CIInv, DocInv, Nothing
  <2>3. config = NoConfig
    BY <2>2 DEF CIInv, DocInv
  <2>. QED
    BY <2>1, <2>2, <2>3, WithoutConfig DEF CIInv, DocInv, vars
<1>4. CASE EndRound
  <2>1. local = "running" /\ local' # "idle" /\ UNCHANGED <<vars, ciVars>>
    BY <1>4 DEF EndRound
  <2>2. config = NoConfig
    BY <2>1 DEF CIInv, DocInv
  <2>. QED
    BY <2>1, <2>2, WithoutConfig DEF CIInv, DocInv, vars
<1>5. CASE NextRound
  <2>1. local # "idle" /\ job' = Nothing /\ stage' = "prepare" /\ UNCHANGED ciVars
    BY <1>5 DEF NextRound
  <2>2. config = NoConfig
    BY <2>1 DEF CIInv, DocInv
  <2>. QED
    BY <2>1, <2>2, WithoutConfig
<1>. QED
  BY <1>1, <1>2, <1>3, <1>4, <1>5

LEMMA StutterKeepsInv ==
  ASSUME CIInv, UNCHANGED <<vars, ciVars, localVars>>
  PROVE  CIInv'
<1>1. /\ ir' = ir /\ config' = config /\ doc' = doc /\ stage' = stage /\ local' = local /\ job' = job
      /\ status' = status /\ stored' = stored /\ restored' = restored
  BY DEF vars, ciVars, localVars
<1>2. DocInv' /\ RunShape' /\ AloneInv'
  BY <1>1, SameDefinitions DEF CIInv, DocInv, RunShape, AloneInv
<1>3. RunInv'
  BY <1>1, LeftAlone DEF CIInv, RunInv
<1>. QED
  BY <1>2, <1>3 DEF CIInv

\* The inductive invariant: a generated pipeline renders a valid IR job by job;
\* a job that waits, runs or has succeeded in a pipeline had its dependencies end
\* in success before it, found their files and left its own; and a module's jobs
\* share its resource group or concurrency group.
THEOREM CIInvHolds == LocalSpec => []CIInv
<1>1. LocalInit => CIInv
  <2>1. SUFFICES ASSUME LocalInit PROVE CIInv
    OBVIOUS
  <2>2. /\ stage = "prepare" /\ local = "idle" /\ job = Nothing /\ config = NoConfig /\ doc = Nothing
        /\ DOMAIN status = Pipelines /\ DOMAIN stored = Pipelines /\ DOMAIN restored = Pipelines
        /\ \A p \in Pipelines : status[p] = Nothing /\ stored[p] = Nothing /\ restored[p] = Nothing
    BY <2>1 DEF LocalInit, CIInit, Init
  <2>3. \A p \in Pipelines : DOMAIN status[p] = {} /\ DOMAIN stored[p] = {} /\ DOMAIN restored[p] = {}
    BY <2>2 DEF Nothing
  <2>. QED
    BY <2>2, <2>3 DEF CIInv, DocInv, RunShape, RunInv, AloneInv
<1>2. CIInv /\ [LocalNext]_<<vars, ciVars, localVars>> => CIInv'
  <2>1. SUFFICES ASSUME CIInv, [LocalNext]_<<vars, ciVars, localVars>> PROVE CIInv'
    OBVIOUS
  <2>2. CASE CINext /\ local = "idle" /\ UNCHANGED localVars
    <3>1. CASE Next /\ UNCHANGED ciVars
      BY <2>1, <2>2, <3>1, BuildKeepsInv
    <3>2. CASE Generate
      BY <2>1, <2>2, <3>2, GenerateKeepsInv
    <3>3. ASSUME NEW p \in Pipelines, Push(p) PROVE CIInv'
      BY <2>1, <2>2, <3>3, PushKeepsInv
    <3>4. ASSUME NEW p \in Pipelines, NEW n \in DOMAIN status[p],
                 Queue(p, n) \/ Start(p, n) \/ Finish(p, n) \/ Skip(p, n)
          PROVE  CIInv'
      BY <2>1, <2>2, <3>4, QueueKeepsInv, StartKeepsInv, FinishKeepsInv, SkipKeepsInv
    <3>. QED
      BY <2>2, <3>1, <3>2, <3>3, <3>4 DEF CINext
  <2>3. CASE Begin \/ (\E n \in DOMAIN job : StartJob(n) \/ EndJob(n)) \/ EndRound \/ NextRound
    BY <2>1, <2>3, LocalKeepsInv
  <2>4. CASE UNCHANGED <<vars, ciVars, localVars>>
    BY <2>1, <2>4, StutterKeepsInv
  <2>. QED
    BY <2>1, <2>2, <2>3, <2>4 DEF LocalNext
<1>. QED
  BY <1>1, <1>2, PTL DEF LocalSpec

-----------------------------------------------------------------------------
(* Theorems *)

\* In every run of a generated pipeline, in GitLab and in GitHub, a script
\* runs only after the jobs it depends on that rules let in have ended in success,
\* unless the user has set it to run anyway: by if: always(), or by when: always
\* or on_failure of the job or of one of its rules (job_builder.go:119-159 and
\* job_config.go:45-57 of GitLab, job_builder.go:26-90 of GitHub).
THEOREM Ordered == LocalSpec => []AfterDependencies
<1>1. CIInv => AfterDependencies
  BY DEF CIInv, RunInv, RunAt, Before, AfterDependencies, saysAnyway
<1>. QED
  BY CIInvHolds, <1>1, PTL

\* An input is configured when its artifact has files: it is some job's output.
LEMMA EmptyInputs ==
  ASSUME InputsInv(ir), Validate(ir), NEW j \in ToSet(ir), NEW input \in ToSet(j.inputs), ~Configured(input.artifact)
  PROVE  ToSet(input.artifact.paths) = {}
<1>1. PICK k \in ToSet(ir) : input.artifact = k.output
  BY DEF InputsInv
<1>2. (k.output.name = <<>>) <=> (k.output.paths = <<>>)
  BY DEF Validate, validateJob
<1>3. input.artifact.paths = <<>>
  BY <1>1, <1>2 DEF Configured
<1>. QED
  BY <1>3 DEF ToSet

\* And the files of its inputs are there, whatever failed, was canceled or was
\* left out by rules, save where the user's settings say otherwise
\* (job_builder.go:119-159, 26-90).
LEMMA InputsAreFound ==
  ASSUME CIInv, BuildInv PROVE FindsInputs
<1>1. SUFFICES ASSUME NEW p \in Pipelines, NEW n \in DOMAIN status[p], status[p][n] \in {"running", "success"},
                      NEW input \in ToSet(FindJob(ir, n).inputs)
               PROVE  \/ ToSet(input.artifact.paths) \subseteq restored[p][n]
                      \/ sets(input.producer, ownArtifacts) \/ sets(n, anyway)
                      \/ FindJob(ir, input.producer).allow
                      \/ input.optional /\ input.producer \notin DOMAIN status[p]
  BY DEF FindsInputs
<1>2. Validate(ir) /\ n \in JobNames(ir) /\ stage = "done"
  BY RunningHasDoc
<1>3. InputsInv(ir)
  BY <1>2 DEF BuildInv
<1>4. FindJob(ir, n) \in ToSet(ir)
  BY <1>2, JobByName
<1>5. CASE ~Configured(input.artifact)
  BY <1>2, <1>3, <1>4, <1>5, EmptyInputs
<1>6. CASE Configured(input.artifact)
  <2>1. Found(p, n)
    BY <1>1 DEF CIInv, RunInv, RunAt
  <2>2. CASE input.producer \notin DOMAIN status[p] /\
             \E x \in ToSet(FindJob(ir, n).inputs) : x.producer = input.producer /\ x.optional /\ Configured(x.artifact)
    <3>1. PICK x \in ToSet(FindJob(ir, n).inputs) : x.producer = input.producer /\ x.optional /\ Configured(x.artifact)
      BY <2>2
    <3>2. x.artifact = FindJob(ir, input.producer).output /\ input.artifact = FindJob(ir, input.producer).output
      BY <1>2, <1>6, <3>1, ValidEdges
    <3>3. x = input
      BY <1>3, <1>4, <3>2 DEF InputsInv, OncePerName
    <3>. QED
      BY <2>2, <3>1, <3>3
  <2>. QED
    BY <1>6, <2>1, <2>2 DEF Found, saysAnyway, ownsArtifacts
<1>. QED
  BY <1>5, <1>6

\* No two jobs of one module run at once, in one pipeline or in several
\* (job_builder.go:41-44, 83-88).
THEOREM OneAtATime == LocalSpec => []OneJobPerModule
<1>1. CIInv => OneJobPerModule
  <2>1. SUFFICES ASSUME CIInv, NEW p \in Pipelines, NEW q \in Pipelines,
                        NEW n \in DOMAIN status[p], NEW k \in DOMAIN status[q],
                        status[p][n] = "running", status[q][k] = "running",
                        FindJob(ir, n).module = FindJob(ir, k).module, FindJob(ir, n).module # NoModule
                 PROVE  p = q /\ n = k
    BY DEF OneJobPerModule
  <2>2. Rendered(n) /\ Rendered(k)
    BY <2>1, RunningHasDoc
  <2>. QED
    BY <2>1, <2>2 DEF Rendered, CIInv, AloneInv
<1>. QED
  BY CIInvHolds, <1>1, PTL

\* A job stands in no earlier stage than a job it depends on (planner.go:22-45).
StagesAreLayers ==
  \A n \in JobNames(ir) : \A k \in ToSet(FindJob(ir, n).deps) : stages(ir)[k] <= stages(ir)[n]

LEMMA StagesOfIR == ASSUME CIInv, BuildInv, stage = "done" PROVE StagesAreLayers
<1>1. Validate(ir) /\ ir \in Seq(ToSet(ir))
  BY DEF CIInv, DocInv, BuildInv, InputsInv
<1>2. EdgesInside(ir)
  BY <1>1, ValidEdges DEF EdgesInside
<1>3. Len(ir) \in Nat /\ DOMAIN ir = 1..Len(ir)
  BY <1>1, LenOfSeq
<1>. QED
  BY <1>2, <1>3, StagesFollowEdges DEF StagesAreLayers

\* GitLab takes every generated pipeline of which rules leave no job out: a job
\* needs only jobs that are there, none twice and none of a later stage, whatever
\* the defaults, the overwrites and the inputs are (job_builder.go:119-159), when
\* no plugin names a job twice and no two modules have one name.
LEMMA Taken == ASSUME CIInv, BuildInv PROVE AcceptedUnlessRules
<1>1. SUFFICES ASSUME \A n \in DOMAIN doc : doc[n].rules \notin LeaveOut, gitlab,
                      OneName, \A c \in ToSet(build.jobs) : IsInjective(c.deps)
               PROVE  Accepted
  BY DEF AcceptedUnlessRules, Accepted
<1>2. admitted = DOMAIN doc
  BY <1>1 DEF admitted
<1>3. CASE doc = Nothing
  BY <1>2, <1>3 DEF Accepted, Nothing
<1>4. CASE doc # Nothing
  <2>1. /\ Validate(ir) /\ DOMAIN doc = JobNames(ir) /\ stage = "done"
        /\ \A n \in JobNames(ir) : Rendered(n)
    BY <1>4 DEF CIInv, DocInv
  <2>2. StagesAreLayers
    BY <2>1, StagesOfIR
  <2>3. ASSUME NEW n \in JobNames(ir), NEW need \in doc[n].needs
        PROVE  /\ need.job \in JobNames(ir) /\ doc[need.job].stage <= doc[n].stage
               /\ \A other \in doc[n].needs : other.job = need.job => other = need
    <3>. DEFINE j == FindJob(ir, n)
                inputs == {i \in ToSet(j.inputs) : Configured(i.artifact)}
                from(d) == {i \in inputs : i.producer = d}
                only(d, k) == [job |-> d, entry |-> k, artifacts |-> from(d) # {}, optional |-> \E i \in from(d) : i.optional]
    <3>1. ToSet(j.deps) \subseteq JobNames(ir) /\ \A i \in inputs : i.producer \in ToSet(j.deps)
      BY <2>1, ValidEdges
    <3>2. jobNeeds(j) = {only(j.deps[k], k) : k \in DOMAIN j.deps}
      BY <3>1 DEF jobNeeds
    <3>3. \A d, k : only(d, k).job = d
      OBVIOUS
    <3>3a. IsInjective(j.deps)
      BY <1>1, <2>1, JobByName DEF BuildInv, DepsOnce
    <3>3b. doc[n].needs = jobNeeds(j) /\ doc[n].stage = stages(ir)[n]
      BY <1>1, <2>1 DEF Rendered
    <3>. HIDE DEF only, j
    <3>5. PICK k \in DOMAIN j.deps : need = only(j.deps[k], k)
      BY <3>2, <3>3b
    <3>6. need.job = j.deps[k] /\ j.deps[k] \in ToSet(j.deps)
      BY <3>3, <3>5 DEF ToSet
    <3>7. \A other \in doc[n].needs : other.job = need.job => other = need
      BY <3>2, <3>3, <3>3a, <3>3b, <3>5, <3>6 DEF IsInjective
    <3>8. doc[need.job].stage = stages(ir)[need.job] /\ stages(ir)[need.job] <= stages(ir)[n]
      BY <1>1, <2>1, <2>2, <3>1, <3>6 DEF Rendered, StagesAreLayers, j
    <3>. QED
      BY <3>1, <3>3b, <3>6, <3>7, <3>8
  <2>. QED
    BY <1>2, <2>1, <2>3 DEF Accepted
<1>. QED
  BY <1>3, <1>4

\* The whole of what the generators promise of an IR and its runs: GitLab takes
\* the pipeline, scripts run in the order of the IR's dependencies, and each
\* finds the files of its inputs (job_builder.go:119-159 of GitLab, 26-90 of
\* GitHub).  That the IR came from the builder matters: a job has one input per
\* artifact, and the IR's dependencies are among its jobs.
THEOREM RunsTheIR == LocalSpec => []CIRunsTheIR
<1>1. CIInv => AfterDependencies
  BY DEF CIInv, RunInv, RunAt, Before, AfterDependencies, saysAnyway
<1>2. CIInv /\ BuildInv => CIRunsTheIR
  BY <1>1, InputsAreFound, Taken DEF CIRunsTheIR
<1>. QED
  BY CIInvHolds, BuildInvHolds, <1>2, PTL

\* Each plugin's job gets what its requests name, from whichever jobs produce it,
\* in artifacts that are restored before it runs (resource_resolver.go:95-205):
\* the jobs, their requests and their resources are any.
THEOREM PluginsAreServed == LocalSpec => []PluginsGetWhatTheyAskFor
<1>1. CIInv /\ BuildInv => PluginsGetWhatTheyAskFor
  <2>1. CIInv /\ stage = "done" => Validate(ir)
    BY DEF CIInv, DocInv
  <2>2. stage # "done" => PluginsGetWhatTheyAskFor
    BY DEF PluginsGetWhatTheyAskFor
  <2>. QED
    BY <2>1, <2>2, AskedIsGiven
<1>. QED
  BY CIInvHolds, BuildInvHolds, <1>1, PTL

-----------------------------------------------------------------------------
\* The transitive closure of the dependencies

\* What a fold over a set takes next
anyOf(s) == CHOOSE x \in s : TRUE

\* Induction over the subsets that a fold over a set goes through
LEMMA SetInduction ==
  ASSUME NEW S, IsFiniteSet(S), NEW W, {} \in W,
         \A s \in SUBSET S : s # {} /\ s \ {anyOf(s)} \in W => s \in W
  PROVE  \A s \in SUBSET S : s \in W
<1>. DEFINE upTo(k) == \A s \in SUBSET S : Cardinality(s) = k => s \in W
            A == {k \in Nat : upTo(k)}
<1>1. \A s \in SUBSET S : IsFiniteSet(s) /\ Cardinality(s) \in Nat /\ (Cardinality(s) = 0 => s = {})
  BY FS_Subset, FS_CardinalityType, FS_EmptySet
<1>2. 0 \in A
  BY <1>1
<1>3. ASSUME NEW k \in Nat, k \in A PROVE k + 1 \in A
  <2>1. ASSUME NEW s \in SUBSET S, Cardinality(s) = k + 1 PROVE s \in W
    <3>1. s # {}
      <4>1. Cardinality({}) = 0 /\ k + 1 # 0
        BY FS_EmptySet
      <4>. QED
        BY <2>1, <4>1
    <3>2. anyOf(s) \in s
      BY <3>1 DEF anyOf
    <3>3. Cardinality(s \ {anyOf(s)}) = (k + 1) - 1
      BY <1>1, <2>1, <3>2, FS_RemoveElement
    <3>4. s \ {anyOf(s)} \in W
      BY <1>3, <3>3
    <3>. QED
      BY <3>1, <3>4
  <2>. HIDE DEF upTo
  <2>. QED
    BY <2>1 DEF upTo
<1>4. \A k \in Nat : k \in A
  <2>. HIDE DEF A
  <2>. QED
    BY <1>2, <1>3, AllNumbers
<1>. QED
  BY <1>1, <1>4

SetFold(iter, S, base, f) ==
  \A s \in SUBSET S : iter[s] = IF s = {} THEN base ELSE f[iter[s \ {anyOf(s)}], anyOf(s)]

\* The recursive function by which FoldSet is defined exists.
LEMMA SetFoldExists ==
  ASSUME NEW S, IsFiniteSet(S), NEW T, NEW base \in T, NEW f \in [T \X S -> T]
  PROVE  \E iter \in [SUBSET S -> T] : SetFold(iter, S, base, f)
<1>. DEFINE small(k) == {s \in SUBSET S : Cardinality(s) <= k}
            turn(iter, s) == IF s = {} THEN base ELSE f[iter[s \ {anyOf(s)}], anyOf(s)]
            Folds(k) == \E iter \in [small(k) -> T] : \A s \in small(k) : iter[s] = turn(iter, s)
            A == {k \in Nat : Folds(k)}
<1>1. \A s \in SUBSET S : /\ IsFiniteSet(s) /\ Cardinality(s) \in Nat /\ Cardinality(s) <= Cardinality(S)
                          /\ Cardinality(s) = 0 <=> s = {}
  BY FS_Subset, FS_CardinalityType, FS_EmptySet
<1>2. ASSUME NEW s \in SUBSET S, s # {}
      PROVE  anyOf(s) \in s /\ s \ {anyOf(s)} \in SUBSET S /\ Cardinality(s \ {anyOf(s)}) = Cardinality(s) - 1
  <2>1. anyOf(s) \in s
    BY <1>2 DEF anyOf
  <2>. QED
    BY <1>1, <2>1, FS_RemoveElement
<1>. HIDE DEF turn, small
<1>3. Folds(0)
  <2>. DEFINE it == [s \in small(0) |-> base]
  <2>1. it \in [small(0) -> T] /\ \A s \in small(0) : s = {} /\ it[s] = base
    BY <1>1 DEF small
  <2>2. \A s \in small(0) : it[s] = turn(it, s)
    BY <2>1 DEF turn
  <2>. HIDE DEF it
  <2>. QED
    BY <2>1, <2>2
<1>4. ASSUME NEW k \in Nat, Folds(k) PROVE Folds(k + 1)
  <2>1. PICK g \in [small(k) -> T] : \A s \in small(k) : g[s] = turn(g, s)
    BY <1>4
  <2>. DEFINE h == [s \in small(k + 1) |-> turn(g, s)]
  <2>2. ASSUME NEW s \in small(k + 1), s # {}
        PROVE  /\ anyOf(s) \in S /\ s \ {anyOf(s)} \in small(k) /\ s \ {anyOf(s)} \in small(k + 1)
    <3>1. s \in SUBSET S /\ Cardinality(s) \in Nat /\ Cardinality(s) <= k + 1
      BY <1>1 DEF small
    <3>2. Cardinality(s \ {anyOf(s)}) = Cardinality(s) - 1 /\ anyOf(s) \in s /\ s \ {anyOf(s)} \in SUBSET S
      BY <1>2, <2>2, <3>1
    <3>3. Cardinality(s) - 1 <= k /\ Cardinality(s) - 1 <= k + 1
      BY <3>1
    <3>. QED
      BY <3>1, <3>2, <3>3 DEF small
  <2>3. \A s \in small(k + 1) : turn(g, s) \in T
    BY <2>1, <2>2 DEF turn
  <2>4. h \in [small(k + 1) -> T] /\ \A s \in small(k + 1) : h[s] = turn(g, s)
    BY <2>3
  <2>5. small(k) \subseteq small(k + 1)
    BY <1>1 DEF small
  <2>. HIDE DEF h
  <2>6. ASSUME NEW s \in small(k + 1) PROVE h[s] = turn(h, s)
    <3>1. CASE s = {}
      BY <2>4, <3>1 DEF turn
    <3>2. CASE s # {}
      <4>1. s \ {anyOf(s)} \in small(k) /\ s \ {anyOf(s)} \in small(k + 1)
        BY <2>2, <3>2
      <4>2. h[s \ {anyOf(s)}] = g[s \ {anyOf(s)}]
        BY <2>1, <2>4, <4>1
      <4>. QED
        BY <2>4, <3>2, <4>2 DEF turn
    <3>. QED
      BY <3>1, <3>2
  <2>. QED
    BY <2>4, <2>6
<1>5. \A k \in Nat : k \in A
  <2>. HIDE DEF Folds
  <2>1. 0 \in A /\ \A k \in Nat : k \in A => k + 1 \in A
    BY <1>3, <1>4
  <2>. HIDE DEF A
  <2>. QED
    BY <2>1, AllNumbers
<1>6. Cardinality(S) \in Nat /\ small(Cardinality(S)) = SUBSET S
  BY <1>1 DEF small
<1>7. Folds(Cardinality(S))
  BY <1>5, <1>6
<1>. QED
  BY <1>6, <1>7 DEF turn, SetFold

\* What a path through x adds
through(S, x, R) == R \cup {p \in S \X S : <<p[1], x>> \in R /\ <<x, p[2]>> \in R}

ClosureSteps(iter, S, E) ==
  /\ closure(S, E) = iter[S]
  /\ \A s \in SUBSET S : iter[s] = IF s = {} THEN E ELSE through(S, anyOf(s), iter[s \ {anyOf(s)}])

\* closure(S, E), by way of its fold
LEMMA ClosureBySteps == ASSUME NEW S, IsFiniteSet(S), NEW E PROVE \E iter : ClosureSteps(iter, S, E)
<1>. DEFINE T == SUBSET (E \cup (S \X S))
            f == [a \in T \X S |-> through(S, a[2], a[1])]
            Is(it) == it = [s \in SUBSET S |-> IF s = {} THEN E ELSE through(S, anyOf(s), it[s \ {anyOf(s)}])]
<1>1. f \in [T \X S -> T] /\ E \in T
  BY DEF through
<1>2. \A R \in T : \A x \in S : f[R, x] = through(S, x, R)
  OBVIOUS
<1>. HIDE DEF f, T
<1>3. PICK g \in [SUBSET S -> T] : SetFold(g, S, E, f)
  BY <1>1, SetFoldExists
<1>4. \A s \in SUBSET S : g[s] = IF s = {} THEN E ELSE through(S, anyOf(s), g[s \ {anyOf(s)}])
  <2>. SUFFICES ASSUME NEW s \in SUBSET S, s # {} PROVE g[s] = through(S, anyOf(s), g[s \ {anyOf(s)}])
    BY <1>3 DEF SetFold
  <2>1. anyOf(s) \in S /\ g[s \ {anyOf(s)}] \in T
    BY DEF anyOf
  <2>. QED
    BY <1>2, <1>3, <2>1 DEF SetFold
<1>5. Is(g)
  BY <1>4
<1>. DEFINE it == CHOOSE i : Is(i)
<1>6. closure(S, E) = it[S]
  BY DEF closure, FoldSet, MapThenFoldSet, through, anyOf
<1>7. Is(it)
  <2>. HIDE DEF Is
  <2>. QED
    BY <1>5
<1>8. \A s \in SUBSET S : it[s] = IF s = {} THEN E ELSE through(S, anyOf(s), it[s \ {anyOf(s)}])
  <2>. HIDE DEF it
  <2>. QED
    BY <1>7
<1>. HIDE DEF it
<1>. QED
  BY <1>6, <1>8 DEF ClosureSteps

TransitiveOn(S, R) == \A a, b, c \in S : <<a, b>> \in R /\ <<b, c>> \in R => <<a, c>> \in R

\* closure(S, E) holds the steps of E, and what any number of them lead to.
LEMMA ClosureIsTransitive ==
  ASSUME NEW S, IsFiniteSet(S), NEW E, E \subseteq S \X S
  PROVE  E \subseteq closure(S, E) /\ closure(S, E) \subseteq S \X S /\ TransitiveOn(S, closure(S, E))
<1>0. PICK iter : ClosureSteps(iter, S, E)
  BY ClosureBySteps
<1>1. /\ closure(S, E) = iter[S]
      /\ \A s \in SUBSET S : iter[s] = IF s = {} THEN E ELSE through(S, anyOf(s), iter[s \ {anyOf(s)}])
  BY <1>0 DEF ClosureSteps
<1>. DEFINE Half(s, R) == /\ E \subseteq R /\ R \subseteq S \X S
                          /\ \A a, c \in S : \A b \in s : <<a, b>> \in R /\ <<b, c>> \in R => <<a, c>> \in R
            W == {s \in SUBSET S : Half(s, iter[s])}
<1>2. {} \in W
  BY <1>1
<1>3. ASSUME NEW s \in SUBSET S, s # {}, s \ {anyOf(s)} \in W PROVE s \in W
  <2>. DEFINE x == anyOf(s)
              R == iter[s \ {x}]
              Q == iter[s]
  <2>1. x \in s /\ x \in S
    BY <1>3 DEF anyOf
  <2>. HIDE DEF x
  <2>2. Half(s \ {x}, R) /\ Q = through(S, x, R)
    BY <1>1, <1>3 DEF x
  <2>. HIDE DEF R, Q
  <2>3. \A a, c \in S : <<a, c>> \in Q <=> <<a, c>> \in R \/ (<<a, x>> \in R /\ <<x, c>> \in R)
    BY <2>2 DEF through
  <2>4. E \subseteq Q /\ Q \subseteq S \X S
    BY <2>2 DEF through
  <2>5. \A a, c \in S : \A b \in s \ {x} : <<a, b>> \in R /\ <<b, c>> \in R => <<a, c>> \in R
    BY <2>2
  <2>6. ASSUME NEW a \in S, NEW c \in S, NEW b \in s, <<a, b>> \in Q, <<b, c>> \in Q PROVE <<a, c>> \in Q
    <3>1. CASE b = x
      BY <2>1, <2>3, <2>6, <3>1
    <3>2. CASE b # x
      <4>1. b \in s \ {x} /\ b \in S
        BY <3>2
      <4>2. <<a, b>> \in R \/ (<<a, x>> \in R /\ <<x, b>> \in R)
        BY <2>3, <2>6, <4>1
      <4>3. <<b, c>> \in R \/ (<<b, x>> \in R /\ <<x, c>> \in R)
        BY <2>3, <2>6, <4>1
      <4>. QED
        BY <2>1, <2>3, <2>5, <4>1, <4>2, <4>3
    <3>. QED
      BY <3>1, <3>2
  <2>7. Half(s, Q)
    BY <2>4, <2>6
  <2>. QED
    BY <2>7 DEF Q
<1>4. S \in W
  <2>. HIDE DEF W
  <2>. QED
    BY <1>2, <1>3, SetInduction
<1>. QED
  BY <1>1, <1>4 DEF TransitiveOn

\* And nothing else: whatever is transitive and holds the steps holds it all.
LEMMA ClosureIsLeast ==
  ASSUME NEW S, IsFiniteSet(S), NEW E, NEW Q, E \subseteq Q, TransitiveOn(S, Q)
  PROVE  closure(S, E) \subseteq Q
<1>0. PICK iter : ClosureSteps(iter, S, E)
  BY ClosureBySteps
<1>1. /\ closure(S, E) = iter[S]
      /\ \A s \in SUBSET S : iter[s] = IF s = {} THEN E ELSE through(S, anyOf(s), iter[s \ {anyOf(s)}])
  BY <1>0 DEF ClosureSteps
<1>. DEFINE W == {s \in SUBSET S : iter[s] \subseteq Q}
<1>2. {} \in W
  BY <1>1
<1>3. ASSUME NEW s \in SUBSET S, s # {}, s \ {anyOf(s)} \in W PROVE s \in W
  <2>. DEFINE x == anyOf(s)
              R == iter[s \ {x}]
  <2>1. x \in S
    BY <1>3 DEF anyOf
  <2>. HIDE DEF x
  <2>2. R \subseteq Q /\ iter[s] = through(S, x, R)
    BY <1>1, <1>3 DEF x
  <2>. HIDE DEF R
  <2>3. through(S, x, R) \subseteq Q
    <3>. SUFFICES ASSUME NEW p \in S \X S, <<p[1], x>> \in R, <<x, p[2]>> \in R PROVE p \in Q
      BY <2>2 DEF through
    <3>1. <<p[1], x>> \in Q /\ <<x, p[2]>> \in Q /\ p[1] \in S /\ p[2] \in S /\ p = <<p[1], p[2]>>
      BY <2>2
    <3>. QED
      BY <2>1, <3>1 DEF TransitiveOn
  <2>. QED
    BY <2>2, <2>3
<1>4. S \in W
  <2>. HIDE DEF W
  <2>. QED
    BY <1>2, <1>3, SetInduction
<1>. QED
  BY <1>1, <1>4


-----------------------------------------------------------------------------
\* Plans and applies of modules that depend on one another, through any number
\* of modules

\* The jobs of a module that a module depends on, by their names
needs(m, kind) == {jobName(kind, d) : d \in {x \in build.targets : Contains(build.G.edges[m], x)}}

LEMMA DependencyNames ==
  ASSUME build \in Builds, GraphOk(subgraph), Scoped(subgraph), NEW m \in build.targets, NEW kind
  PROVE  /\ ToSet(resolveDependencyNames(m, kind)) = needs(m, kind)
         /\ ToSet(<<jobName("plan", m)>> \o resolveDependencyNames(m, kind)) = {jobName("plan", m)} \cup needs(m, kind)
<1>. DEFINE names == resolveDependencyNames(m, kind)
            e == subgraph.edges[m]
            T == {jobName(kind, d) : d \in IDs} \cup {jobName("plan", m)}
<1>1. m \in IDs
  BY BuildsAssumption
<1>2. e \in Seq(IDs) /\ ToSet(e) = {x \in build.targets : Contains(build.G.edges[m], x)}
  BY <1>1 DEF GraphOk, Scoped
<1>3. names = [i \in DOMAIN e |-> jobName(kind, e[i])]
  BY DEF resolveDependencyNames
<1>. HIDE DEF e, names
<1>4. ToSet(names) = needs(m, kind)
  BY <1>2, <1>3 DEF ToSet, needs
<1>5. names \in Seq(T) /\ <<jobName("plan", m)>> \in Seq(T)
  <2>1. DOMAIN e = 1..Len(e) /\ Len(e) \in Nat /\ \A i \in 1..Len(e) : jobName(kind, e[i]) \in T
    BY <1>2
  <2>2. jobName("plan", m) \in T
    OBVIOUS
  <2>. HIDE DEF T
  <2>3. names \in [1..Len(e) -> T]
    BY <1>3, <2>1
  <2>. QED
    BY <2>1, <2>2, <2>3, IsSequence
<1>6. Range(<<jobName("plan", m)>> \o names) = Range(<<jobName("plan", m)>>) \cup Range(names)
  <2>. HIDE DEF T
  <2>. QED
    BY <1>5, RangeOfConcat
<1>7. Range(<<jobName("plan", m)>>) = {jobName("plan", m)}
  BY DEF Range
<1>8. \A s : Range(s) = ToSet(s)
  BY DEF Range, ToSet
<1>. QED
  BY <1>4, <1>6, <1>7, <1>8 DEF names

\* What the jobs of terraform wait for
LEMMA TerraformDeps ==
  ASSUME build \in Builds, GraphOk(subgraph), Scoped(subgraph), NEW m \in build.targets
  PROVE  /\ ToSet(buildPlanJob(m).deps) = needs(m, IF build.apply THEN "apply" ELSE "plan")
         /\ ToSet(buildApplyJob(m).deps) = {jobName("plan", m)} \cup needs(m, "apply")
<1>1. /\ buildPlanJob(m).deps = resolveDependencyNames(m, IF build.apply THEN "apply" ELSE "plan")
      /\ buildApplyJob(m).deps = <<jobName("plan", m)>> \o resolveDependencyNames(m, "apply")
  BY DEF buildPlanJob, buildApplyJob
<1>. QED
  BY <1>1, DependencyNames

\* Of the jobs of terraform none waits for an optional input.
LEMMA NeedsAreThere ==
  ASSUME CIInv, BuildInv, NEW p \in Pipelines, NEW n \in DOMAIN status[p], FindJob(ir, n).kind # "command",
         NEW k \in ToSet(FindJob(ir, n).deps)
  PROVE  k \in DOMAIN status[p]
<1>. DEFINE j == FindJob(ir, n)
<1>1. /\ stage = "done" /\ Validate(ir) /\ DOMAIN status[p] = admitted /\ Accepted /\ n \in admitted
      /\ n \in JobNames(ir) /\ DOMAIN doc = JobNames(ir) /\ Rendered(n) /\ config # NoConfig
  BY RunningHasDoc
<1>2. k \in JobNames(ir)
  BY <1>1, ValidEdges
<1>3. CASE ~gitlab
  <2>1. Rendered(k)
    BY <1>1, <1>2 DEF CIInv, DocInv
  <2>. QED
    BY <1>1, <1>2, <1>3, <2>1 DEF Rendered, admitted
<1>4. CASE gitlab
  <2>1. \A i \in ToSet(j.inputs) : ~i.optional
    <3>1. j \in ToSet(ir)
      BY <1>1, JobByName
    <3>2. \A m : buildPlanJob(m).inputs = <<>>
      BY DEF buildPlanJob
    <3>3. \A m : \A i \in ToSet(buildApplyJob(m).inputs) : ~i.optional
      BY DEF buildApplyJob, ToSet
    <3>4. \/ \E m \in wanted : j = buildPlanJob(m)
          \/ \E m \in build.targets : j = buildApplyJob(m)
      BY <1>1, <3>1 DEF BuildInv, TerraformJobs
    <3>5. \A i \in ToSet(<<>>) : FALSE
      BY DEF ToSet
    <3>. QED
      BY <3>2, <3>3, <3>4, <3>5
  <2>. DEFINE inputs == {i \in ToSet(j.inputs) : Configured(i.artifact)}
              from(d) == {i \in inputs : i.producer = d}
              need(d, e) == [job |-> d, entry |-> e, artifacts |-> from(d) # {}, optional |-> \E i \in from(d) : i.optional]
  <2>2. PICK e \in DOMAIN j.deps : j.deps[e] = k
    BY DEF ToSet
  <2>2a. need(k, e) \in jobNeeds(j)
    BY <2>2 DEF jobNeeds
  <2>3. need(k, e).job = k /\ ~need(k, e).optional
    BY <2>1
  <2>. HIDE DEF need
  <2>4. need(k, e) \in doc[n].needs
    BY <1>1, <1>4, <2>2a DEF Rendered
  <2>. QED
    BY <1>1, <1>4, <2>3, <2>4 DEF Accepted
<1>. QED
  BY <1>3, <1>4

\* Unless it is set to run anyway, what a job waits for has succeeded when it runs.
LEMMA DepsSucceeded ==
  ASSUME CIInv, BuildInv, NEW p \in Pipelines, NEW n \in DOMAIN status[p], status[p][n] \in {"running", "success"},
         FindJob(ir, n).kind # "command", ~saysAnyway(n), NEW k \in ToSet(FindJob(ir, n).deps)
  PROVE  k \in DOMAIN status[p] /\ status[p][k] = "success"
<1>1. k \in DOMAIN status[p]
  BY NeedsAreThere
<1>2. Before(p, n)
  BY DEF CIInv, RunInv, RunAt
<1>. QED
  BY <1>1, <1>2 DEF Before

\* A module at work: one of its jobs is running or has succeeded in the pipeline.
atWork(p, m) ==
  \E n \in DOMAIN status[p] : status[p][n] \in {"running", "success"} /\ FindJob(ir, n).module = m

hasApplied(p, m) ==
  jobName("apply", m) \in DOMAIN status[p] /\ status[p][jobName("apply", m)] = "success"

\* The jobs by name are the ones the builder made.
LEMMA ApplyByName ==
  ASSUME BuildInv, stage = "done", Validate(ir), build.apply, NEW m \in build.targets
  PROVE  /\ jobName("apply", m) \in JobNames(ir) /\ FindJob(ir, jobName("apply", m)) = buildApplyJob(m)
         /\ buildApplyJob(m).kind = "apply" /\ buildApplyJob(m).module = m
<1>1. buildApplyJob(m) \in ToSet(ir)
  BY DEF BuildInv, TerraformJobs
<1>2. buildApplyJob(m).name = jobName("apply", m) /\ buildApplyJob(m).kind = "apply" /\ buildApplyJob(m).module = m
  BY DEF buildApplyJob
<1>3. jobName("apply", m) \in JobNames(ir)
  BY <1>1, <1>2 DEF JobNames, ToSet
<1>4. \A i, h \in ToSet(ir) : i.name = h.name => i = h
  BY DEF Validate, UniqueNames, ToSet
<1>. QED
  BY <1>1, <1>2, <1>3, <1>4, JobByName

\* While a module is at work, what it depends on directly has been applied.
LEMMA WorkFollowsApplies ==
  ASSUME CIInv, BuildInv, stage = "done", Validate(ir), build.apply, NEW p \in Pipelines,
         \A x \in DOMAIN status[p] : ~saysAnyway(x),
         NEW e \in targetEdges, atWork(p, e[1])
  PROVE  hasApplied(p, e[2])
<1>1. e[1] \in build.targets /\ e[2] \in build.targets /\ Contains(build.G.edges[e[1]], e[2])
  BY DEF targetEdges
<1>2. PICK n \in DOMAIN status[p] : status[p][n] \in {"running", "success"} /\ FindJob(ir, n).module = e[1]
  BY DEF atWork
<1>3. /\ build \in Builds /\ GraphOk(subgraph) /\ Scoped(subgraph) /\ TerraformJobs(ir)
  BY DEF BuildInv
<1>4. e[1] # NoModule
  BY <1>1, <1>3, BuildsAssumption, IDsAssumption DEF NoModule
<1>. DEFINE j == FindJob(ir, n)
<1>5. j \in ToSet(ir)
  BY RunningHasDoc, JobByName
<1>6. \A m : buildPlanJob(m).module = m /\ buildPlanJob(m).kind = "plan" /\ buildApplyJob(m).module = m /\ buildApplyJob(m).kind = "apply"
  BY DEF buildPlanJob, buildApplyJob
<1>7. j = buildPlanJob(e[1]) \/ j = buildApplyJob(e[1])
  BY <1>2, <1>3, <1>4, <1>5, <1>6 DEF TerraformJobs
<1>8. j.kind # "command"
  BY <1>6, <1>7
<1>9. jobName("apply", e[2]) \in ToSet(j.deps)
  BY <1>1, <1>3, <1>7, TerraformDeps DEF needs
<1>. HIDE DEF j
<1>. QED
  BY <1>2, <1>8, <1>9, DepsSucceeded DEF hasApplied, j

\* No two terraform processes work on one module at once, and none on a module
\* while one it depends on, through any number of modules, is being applied.
LEMMA NoWorkDuringApplies == ASSUME CIInv, BuildInv, OneJobPerModule PROVE OneTerraformPerModule
<1>1. SUFFICES ASSUME NEW p \in Pipelines, NEW n \in DOMAIN status[p], NEW k \in DOMAIN status[p],
                      status[p][n] = "running", status[p][k] = "running",
                      FindJob(ir, k).kind = "apply",
                      <<FindJob(ir, n).module, FindJob(ir, k).module>> \in closure(build.targets, targetEdges),
                      \A x \in DOMAIN status[p] : ~saysAnyway(x)
               PROVE  FALSE
  BY DEF OneTerraformPerModule, saysAnyway
<1>2. stage = "done" /\ Validate(ir) /\ FindJob(ir, k) \in ToSet(ir) /\ FindJob(ir, k).name = k
  BY RunningHasDoc, JobByName
<1>3. TerraformJobs(ir) /\ build \in Builds
  BY <1>2 DEF BuildInv
<1>4. \A m : /\ buildPlanJob(m).kind = "plan" /\ buildApplyJob(m).module = m
             /\ buildApplyJob(m).name = jobName("apply", m)
  BY DEF buildPlanJob, buildApplyJob
<1>5. /\ build.apply /\ FindJob(ir, k).module \in build.targets /\ k = jobName("apply", FindJob(ir, k).module)
  BY <1>1, <1>2, <1>3, <1>4 DEF TerraformJobs
<1>. DEFINE Q == {e \in build.targets \X build.targets : atWork(p, e[1]) => hasApplied(p, e[2])}
<1>6. IsFiniteSet(build.targets)
  BY <1>3, BuildsAssumption, IDsAssumption, FS_Subset
<1>7. targetEdges \subseteq Q
  <2>1. targetEdges \subseteq build.targets \X build.targets
    BY DEF targetEdges
  <2>. QED
    BY <1>1, <1>2, <1>5, <2>1, WorkFollowsApplies
<1>8. TransitiveOn(build.targets, Q)
  <2>1. ASSUME NEW m \in build.targets, hasApplied(p, m) PROVE atWork(p, m)
    BY <1>2, <1>5, <2>1, ApplyByName DEF hasApplied, atWork
  <2>. QED
    BY <2>1 DEF TransitiveOn
<1>9. closure(build.targets, targetEdges) \subseteq Q
  <2>. HIDE DEF Q
  <2>. QED
    BY <1>6, <1>7, <1>8, ClosureIsLeast
<1>10. atWork(p, FindJob(ir, n).module) => hasApplied(p, FindJob(ir, k).module)
  BY <1>1, <1>9
<1>11. atWork(p, FindJob(ir, n).module)
  BY <1>1 DEF atWork
<1>. QED
  BY <1>1, <1>5, <1>10, <1>11 DEF hasApplied

\* What waits for what, of a valid IR
waits(jobs) == {e \in JobNames(jobs) \X JobNames(jobs) : e[2] \in ToSet(FindJob(jobs, e[1]).deps)}

LEMMA AfterIsTransitive ==
  ASSUME NEW jobs, jobs \in Seq(ToSet(jobs))
  PROVE  waits(jobs) \subseteq after(jobs) /\ TransitiveOn(JobNames(jobs), after(jobs))
<1>. DEFINE n == Len(jobs)
<1>1. n \in Nat /\ DOMAIN jobs = 1..n
  BY LenOfSeq
<1>2. IsFiniteSet(JobNames(jobs))
  <2>. DEFINE f == [i \in 1..n |-> jobs[i].name]
  <2>1. f \in Surjection(1..n, JobNames(jobs))
    BY <1>1 DEF Surjection, JobNames
  <2>. HIDE DEF f, n
  <2>. QED
    BY <1>1, <2>1, FS_Interval, FS_Surjection
<1>3. after(jobs) = closure(JobNames(jobs), waits(jobs))
  BY DEF after, waits
<1>4. waits(jobs) \subseteq JobNames(jobs) \X JobNames(jobs)
  BY DEF waits
<1>. QED
  BY <1>2, <1>3, <1>4, ClosureIsTransitive

LEMMA PlanByName ==
  ASSUME BuildInv, stage = "done", Validate(ir), NEW m \in wanted
  PROVE  jobName("plan", m) \in JobNames(ir) /\ FindJob(ir, jobName("plan", m)) = buildPlanJob(m)
<1>1. buildPlanJob(m) \in ToSet(ir)
  BY DEF BuildInv, TerraformJobs
<1>2. buildPlanJob(m).name = jobName("plan", m)
  BY DEF buildPlanJob
<1>3. jobName("plan", m) \in JobNames(ir)
  BY <1>1, <1>2 DEF JobNames, ToSet
<1>4. \A i, h \in ToSet(ir) : i.name = h.name => i = h
  BY DEF Validate, UniqueNames, ToSet
<1>. QED
  BY <1>1, <1>2, <1>3, <1>4, JobByName

\* A job by the name of the plan of a target that has none is an impostor.
LEMMA NamedPlanIsMade ==
  ASSUME BuildInv, stage = "done", ~impostor, NEW m \in build.targets, jobName("plan", m) \in JobNames(ir)
  PROVE  m \in wanted
<1>1. PICK j \in ToSet(ir) : j.name = jobName("plan", m)
  BY DEF JobNames, ToSet
<1>2. /\ \A w : buildPlanJob(w).name = jobName("plan", w) /\ buildApplyJob(w).name = jobName("apply", w)
      /\ \A w \in wanted : <<"plan", w>> \in terraformJobs
      /\ build.apply => \A w \in build.targets : <<"apply", w>> \in terraformJobs
  BY DEF buildPlanJob, buildApplyJob, terraformJobs
<1>3. \/ \E c \in ToSet(build.jobs) : j.name = c.name
      \/ \E t \in terraformJobs : j.name = jobName(t[1], t[2])
  <2>1. CASE \E w \in wanted : j = buildPlanJob(w)
    <3>1. PICK w \in wanted : j = buildPlanJob(w)
      BY <2>1
    <3>2. <<"plan", w>> \in terraformJobs
      BY <1>2
    <3>3. j.name = jobName("plan", w)
      BY <1>2, <3>1
    <3>. DEFINE t == <<"plan", w>>
    <3>4. t[1] = "plan" /\ t[2] = w
      OBVIOUS
    <3>. HIDE DEF t
    <3>. QED
      BY <3>2, <3>3, <3>4 DEF t
  <2>2. CASE build.apply /\ \E w \in build.targets : j = buildApplyJob(w)
    <3>1. PICK w \in build.targets : j = buildApplyJob(w)
      BY <2>2
    <3>2. <<"apply", w>> \in terraformJobs
      BY <1>2, <2>2
    <3>3. j.name = jobName("apply", w)
      BY <1>2, <3>1
    <3>. DEFINE t == <<"apply", w>>
    <3>4. t[1] = "apply" /\ t[2] = w
      OBVIOUS
    <3>. HIDE DEF t
    <3>. QED
      BY <3>2, <3>3, <3>4 DEF t
  <2>. QED
    BY <2>1, <2>2 DEF BuildInv, TerraformJobs
<1>. QED
  BY <1>1, <1>3 DEF impostor

\* The plan of a module waits for what the module depends on.
LEMMA PlansWait ==
  ASSUME BuildInv, stage = "done", Validate(ir) PROVE PlanAfterDependencies
<1>. DEFINE R == after(ir)
            names == JobNames(ir)
            before == IF build.apply THEN "apply" ELSE "plan"
            Q == {e \in build.targets \X build.targets :
                    e[1] \in wanted => e[2] \in wanted /\ <<jobName("plan", e[1]), jobName(before, e[2])>> \in R}
<1>1. /\ build \in Builds /\ GraphOk(subgraph) /\ Scoped(subgraph) /\ TerraformJobs(ir) /\ ir \in Seq(ToSet(ir))
  BY DEF BuildInv, InputsInv
<1>2. SUFFICES ASSUME ~impostor PROVE closure(build.targets, targetEdges) \subseteq Q
  BY DEF PlanAfterDependencies
<1>3. IsFiniteSet(build.targets)
  BY <1>1, BuildsAssumption, IDsAssumption, FS_Subset
<1>4. waits(ir) \subseteq R /\ TransitiveOn(names, R)
  BY <1>1, AfterIsTransitive
<1>. HIDE DEF R
<1>5. ASSUME NEW a \in wanted, NEW b \in build.targets, Contains(build.G.edges[a], b)
      PROVE  b \in wanted /\ jobName(before, b) \in names /\ <<jobName("plan", a), jobName(before, b)>> \in R
  <2>1. a \in build.targets /\ jobName("plan", a) \in names /\ FindJob(ir, jobName("plan", a)) = buildPlanJob(a)
    BY PlanByName DEF wanted
  <2>2. jobName(before, b) \in ToSet(buildPlanJob(a).deps)
    <3>1. ToSet(buildPlanJob(a).deps) = needs(a, before)
      BY <1>1, <2>1, TerraformDeps
    <3>. HIDE DEF before
    <3>. QED
      BY <1>5, <3>1 DEF needs
  <2>3. jobName(before, b) \in names
    BY <2>1, <2>2, ValidEdges
  <2>4. <<jobName("plan", a), jobName(before, b)>> \in waits(ir)
    BY <2>1, <2>2, <2>3 DEF waits
  <2>5. b \in wanted
    <3>1. CASE build.apply
      BY <3>1 DEF wanted, moduleNeedsPlanJob
    <3>2. CASE ~build.apply
      BY <1>2, <2>3, <3>2, NamedPlanIsMade
    <3>. QED
      BY <3>1, <3>2
  <2>. QED
    BY <1>4, <2>3, <2>4, <2>5
<1>6. targetEdges \subseteq Q
  BY <1>5 DEF targetEdges
<1>7. TransitiveOn(build.targets, Q)
  <2>. SUFFICES ASSUME NEW a \in build.targets, NEW b \in build.targets, NEW c \in build.targets,
                       <<a, b>> \in Q, <<b, c>> \in Q, a \in wanted
                PROVE  c \in wanted /\ <<jobName("plan", a), jobName(before, c)>> \in R
    BY DEF TransitiveOn
  <2>1. /\ b \in wanted /\ <<jobName("plan", a), jobName(before, b)>> \in R
        /\ c \in wanted /\ <<jobName("plan", b), jobName(before, c)>> \in R
    OBVIOUS
  <2>2. \A m \in wanted : jobName("plan", m) \in names /\ jobName(before, m) \in names
    <3>1. \A m \in wanted : jobName("plan", m) \in names /\ m \in build.targets
      BY PlanByName DEF wanted
    <3>2. build.apply => \A m \in build.targets : jobName("apply", m) \in names
      BY ApplyByName
    <3>. QED
      BY <3>1, <3>2
  <2>3. build.apply => <<jobName("apply", b), jobName("plan", b)>> \in R
    <3>. SUFFICES ASSUME build.apply PROVE <<jobName("apply", b), jobName("plan", b)>> \in waits(ir)
      BY <1>4
    <3>1. jobName("apply", b) \in names /\ FindJob(ir, jobName("apply", b)) = buildApplyJob(b)
      BY ApplyByName
    <3>2. jobName("plan", b) \in ToSet(buildApplyJob(b).deps)
      BY <1>1, TerraformDeps
    <3>. QED
      BY <2>1, <2>2, <3>1, <3>2 DEF waits
  <2>4. CASE build.apply
    <3>1. <<jobName("plan", a), jobName("plan", b)>> \in R
      BY <1>4, <2>1, <2>2, <2>3, <2>4 DEF TransitiveOn
    <3>. QED
      BY <1>4, <2>1, <2>2, <3>1 DEF TransitiveOn
  <2>5. CASE ~build.apply
    BY <1>4, <2>1, <2>2, <2>5 DEF TransitiveOn
  <2>. QED
    BY <2>4, <2>5
<1>. HIDE DEF Q
<1>. QED
  BY <1>3, <1>6, <1>7, ClosureIsLeast

\* Plans and applies of modules that depend on one another, through any number
\* of modules, never overlap: while a module is being planned or applied,
\* everything it depends on that is part of the run has been applied, unless the
\* user's settings run jobs after failures (builder.go:262-311).
THEOREM OneTerraform == LocalSpec => []OneTerraformPerModule
<1>1. CIInv /\ BuildInv /\ OneJobPerModule => OneTerraformPerModule
  BY NoWorkDuringApplies
<1>. QED
  BY CIInvHolds, BuildInvHolds, OneAtATime, <1>1, PTL

\* The plan of a module waits, directly or not, for the last job of every module
\* that the module depends on, directly or not, among the targets
\* (builder.go:262-311, 334-353).
THEOREM PlansAreOrdered == LocalSpec => []PlanAfterDependencies
<1>1. CIInv /\ BuildInv => PlanAfterDependencies
  <2>1. CIInv /\ stage = "done" => Validate(ir)
    BY DEF CIInv, DocInv
  <2>2. stage # "done" => PlanAfterDependencies
    BY DEF PlanAfterDependencies
  <2>. QED
    BY <2>1, <2>2, PlansWait
<1>. QED
  BY CIInvHolds, BuildInvHolds, <1>1, PTL

-----------------------------------------------------------------------------
(* Kahn's order and the layers *)

\* What a module still waits for
open(gr, st, i) == ToSet(gr.edges[i]) \ ToSet(st.result)

\* A sequence in which what a module depends on comes before it
DepsEarlier(gr, s) == \A p \in DOMAIN s : \A d \in ToSet(gr.edges[s[p]]) : \E q \in 1..p - 1 : s[q] = d

\* No count is smaller than the number of modules waited for, and what is sorted
\* stands behind what it depends on.
KahnCounts(gr, st) ==
  /\ \A i \in IDs : Cardinality(open(gr, st, i)) <= st.inDegree[i]
  /\ DepsEarlier(gr, st.result)

LEMMA EdgesAreFinite ==
  ASSUME NEW gr, GraphOk(gr), NEW i \in IDs
  PROVE  /\ IsFiniteSet(ToSet(gr.edges[i])) /\ Cardinality(ToSet(gr.edges[i])) <= Len(gr.edges[i])
         /\ Len(gr.edges[i]) \in Nat /\ Cardinality(ToSet(gr.edges[i])) \in Nat
<1>. DEFINE s == gr.edges[i]
            n == Len(s)
<1>1. n \in Nat /\ DOMAIN s = 1..n /\ s \in Seq(IDs)
  BY DEF GraphOk
<1>2. IsFiniteSet(1..n) /\ Cardinality(1..n) = n
  BY <1>1, FS_Interval
<1>3. ToSet(s) = {s[k] : k \in 1..n}
  BY <1>1 DEF ToSet
<1>. HIDE DEF s
<1>. DEFINE f == [k \in 1..n |-> s[k]]
<1>4. f \in Surjection(1..n, ToSet(s))
  BY <1>3 DEF Surjection
<1>. HIDE DEF f, n
<1>5. IsFiniteSet(ToSet(s)) /\ Cardinality(ToSet(s)) <= Cardinality(1..n)
  BY <1>2, <1>4, FS_Surjection
<1>. QED
  BY <1>1, <1>2, <1>5, FS_CardinalityType DEF s, n

LEMMA CountsStart ==
  ASSUME NEW gr, GraphOk(gr)
  PROVE  KahnCounts(gr, KahnStart(gr))
<1>. DEFINE st == KahnStart(gr)
<1>1. (\A i \in IDs : st.inDegree[i] = Len(gr.edges[i])) /\ st.result = <<>>
  BY DEF KahnStart
<1>2. ToSet(st.result) = {} /\ DOMAIN st.result = {}
  BY <1>1 DEF ToSet
<1>. HIDE DEF st
<1>3. ASSUME NEW i \in IDs PROVE Cardinality(open(gr, st, i)) <= st.inDegree[i]
  <2>1. open(gr, st, i) = ToSet(gr.edges[i])
    BY <1>2 DEF open
  <2>. QED
    BY <1>1, <2>1, EdgesAreFinite
<1>. QED
  BY <1>2, <1>3 DEF KahnCounts, DepsEarlier, st

LEMMA CountsKept ==
  ASSUME NEW gr, GraphOk(gr), NEW st, KahnInv(gr, st), KahnCounts(gr, st)
  PROVE  KahnCounts(gr, KahnTurn(gr, st))
<1>1. CASE st.heap = {}
  BY <1>1 DEF KahnTurn
<1>2. CASE st.heap # {}
  <2>. DEFINE node == Min(st.heap)
              users == ToSet(gr.reverseEdges[node])
              deg == [i \in IDs |-> IF i \in users THEN st.inDegree[i] - 1 ELSE st.inDegree[i]]
              new == KahnTurn(gr, st)
              s == st.result
              n == Len(s)
              t == Append(s, node)
  <2>1. node \in st.heap
    <3>1. st.heap \subseteq Nat
      BY IDsAssumption DEF KahnInv, GraphOk
    <3>. QED
      BY <1>2, <3>1, LeastElement
  <2>2. new.inDegree = deg /\ new.result = t
    BY <1>2 DEF KahnTurn, KahnPop
  <2>. HIDE DEF node, new
  <2>3. node \in gr.nodes /\ users \subseteq gr.nodes /\ gr.nodes \subseteq IDs /\ node \in IDs
    BY <2>1 DEF KahnInv, GraphOk
  <2>4. \A k \in users : node \in ToSet(gr.edges[k])
    BY <2>3 DEF GraphOk, users
  <2>. HIDE DEF users
  <2>5. s \in Seq(ToSet(s)) /\ IsInjective(s) /\ node \notin ToSet(s)
    BY <2>1 DEF KahnInv
  <2>. HIDE DEF s
  <2>6. ToSet(t) = ToSet(s) \cup {node}
    BY <2>5, AppendNew
  <2>7. n \in Nat /\ DOMAIN s = 1..n
    BY <2>5, LenOfSeq
  <2>8. DOMAIN t = 1..(n + 1) /\ t[n + 1] = node /\ \A p \in 1..n : t[p] = s[p]
    <3>. DEFINE T == ToSet(s) \cup {node}
    <3>1. s \in Seq(T) /\ node \in T
      BY <2>5
    <3>. HIDE DEF T
    <3>. QED
      BY <2>7, <3>1
  <2>9. ASSUME NEW i \in IDs PROVE Cardinality(open(gr, new, i)) <= new.inDegree[i]
    <3>. DEFINE O == open(gr, st, i)
                e == ToSet(gr.edges[i])
    <3>1. open(gr, new, i) = O \ {node}
      BY <2>2, <2>6 DEF open, s
    <3>2. IsFiniteSet(O)
      BY EdgesAreFinite, FS_Subset DEF open
    <3>3. Cardinality(O) <= st.inDegree[i] /\ st.inDegree[i] \in Int
      BY DEF KahnCounts, KahnInv
    <3>4. i \in users => node \in O
      BY <2>4, <2>5 DEF open, s
    <3>5. new.inDegree[i] = IF i \in users THEN st.inDegree[i] - 1 ELSE st.inDegree[i]
      BY <2>2
    <3>. HIDE DEF O, deg
    <3>6. Cardinality(O) \in Nat /\ Cardinality(O \ {node}) = IF node \in O THEN Cardinality(O) - 1 ELSE Cardinality(O)
      BY <3>2, FS_RemoveElement, FS_CardinalityType
    <3>. QED
      BY <3>1, <3>3, <3>4, <3>5, <3>6
  <2>10. ToSet(gr.edges[node]) \subseteq ToSet(s)
    <3>. DEFINE O == open(gr, st, node)
    <3>1. st.inDegree[node] <= 0 /\ st.inDegree[node] \in Int /\ Cardinality(O) <= st.inDegree[node]
      BY <2>1, <2>3 DEF KahnInv, KahnCounts
    <3>2. IsFiniteSet(O)
      BY <2>3, EdgesAreFinite, FS_Subset DEF open
    <3>3. O = {}
      <4>. HIDE DEF O
      <4>1. Cardinality(O) \in Nat
        BY <3>2, FS_CardinalityType
      <4>. QED
        BY <3>1, <3>2, <4>1, FS_EmptySet
    <3>. QED
      BY <3>3 DEF open, s
  <2>11. DepsEarlier(gr, t)
    <3>1. DepsEarlier(gr, s)
      BY DEF KahnCounts, s
    <3>2. SUFFICES ASSUME NEW p \in 1..(n + 1), NEW d \in ToSet(gr.edges[t[p]]) PROVE \E q \in 1..p - 1 : t[q] = d
      BY <2>8 DEF DepsEarlier
    <3>3. CASE p = n + 1
      <4>1. d \in ToSet(s)
        BY <2>8, <2>10, <3>2, <3>3
      <4>2. PICK q \in 1..n : s[q] = d
        BY <2>7, <4>1 DEF ToSet
      <4>. QED
        BY <2>7, <2>8, <3>3, <4>2
    <3>4. CASE p \in 1..n
      <4>1. PICK q \in 1..p - 1 : s[q] = d
        BY <2>7, <2>8, <3>1, <3>2, <3>4 DEF DepsEarlier
      <4>2. q \in 1..n
        BY <2>7, <3>4
      <4>. QED
        BY <2>8, <4>1, <4>2
    <3>. QED
      BY <2>7, <3>3, <3>4
  <2>. HIDE DEF t
  <2>. QED
    BY <2>2, <2>9, <2>11 DEF KahnCounts, new
<1>. QED
  BY <1>1, <1>2

\* TopologicalSort puts a module behind what it depends on (algorithms.go:11-50).
LEMMA SortedInOrder ==
  ASSUME NEW gr, GraphOk(gr)
  PROVE  DepsEarlier(gr, TopologicalSort(gr).order)
<1>. DEFINE n == Cardinality(IDs)
<1>1. n \in Nat
  BY IDsAssumption, FS_CardinalityType
<1>2. PICK turn : IsKahn(gr, turn, n) /\ TopologicalSort(gr).order = turn[n].result
  BY KahnTurns
<1>. HIDE DEF n
<1>. DEFINE A == {k \in Nat : k <= n => KahnInv(gr, turn[k]) /\ KahnCounts(gr, turn[k])}
            turned(j) == IF j = 0 THEN KahnStart(gr) ELSE KahnTurn(gr, turn[j - 1])
<1>3. \A k \in 0..n : turn[k] = turned(k)
  <2>1. turn = [k \in 0..n |-> turned(k)]
    BY <1>2 DEF IsKahn
  <2>. HIDE DEF turned
  <2>. QED
    BY <2>1
<1>4. KahnInv(gr, turn[0]) /\ KahnCounts(gr, turn[0])
  BY <1>1, <1>3, KahnStarts, CountsStart
<1>5. ASSUME NEW k \in Nat, k + 1 <= n, KahnInv(gr, turn[k]), KahnCounts(gr, turn[k])
      PROVE  KahnInv(gr, turn[k + 1]) /\ KahnCounts(gr, turn[k + 1])
  <2>1. turn[k + 1] = KahnTurn(gr, turn[k])
    <3>1. k + 1 \in 0..n /\ (k + 1) - 1 = k /\ k + 1 # 0
      BY <1>1, <1>5
    <3>. QED
      BY <1>3, <3>1
  <2>. QED
    BY <1>5, <2>1, KahnTakes, CountsKept
<1>6. KahnCounts(gr, turn[n])
  <2>1. 0 \in A /\ \A k \in Nat : k \in A => k + 1 \in A
    BY <1>1, <1>4, <1>5
  <2>2. n \in A
    <3>. HIDE DEF A
    <3>. QED
      BY <1>1, <2>1, AllNumbers
  <2>. QED
    BY <2>2, <1>1
<1>. QED
  BY <1>2, <1>6 DEF KahnCounts

\* Stages by rank: where a rank grows along the dependencies and does not exceed
\* the number of rounds, stages grow strictly.
LEMMA StagesStrict ==
  ASSUME NEW jobs, NEW n \in Nat, DOMAIN jobs = 1..n, EdgesInside(jobs),
         NEW T \in SUBSET JobNames(jobs), NEW rank \in [T -> 0..n - 1],
         \A t \in T : \A d \in ToSet(FindJob(jobs, t).deps) : d \in T /\ rank[d] < rank[t],
         NEW k \in JobNames(jobs), NEW x \in ToSet(FindJob(jobs, k).deps), x \in T
  PROVE  stages(jobs)[x] < stages(jobs)[k]
<1>. DEFINE names == JobNames(jobs)
<1>1. PICK g \in [0..n -> [names -> Nat]] :
        /\ g[0] = [y \in names |-> 0]
        /\ \A r \in 1..n : g[r] = deepened(jobs, g[r - 1])
        /\ stages(jobs) = g[n]
  BY StagesByRounds
<1>2. n # 0
  BY DEF JobNames
<1>. DEFINE settled(r) == \A t \in T : rank[t] <= r => g[r + 1][t] = g[r][t]
            A == {r \in Nat : r < n => settled(r)}
            depth(acc, t) == LET d == ToSet(FindJob(jobs, t).deps) IN IF d = {} THEN 0 ELSE 1 + Max({acc[y] : y \in d})
<1>3. \A r \in 1..n : \A t \in T : g[r][t] = depth(g[r - 1], t)
  <2>1. \A acc : \A t \in names : deepened(jobs, acc)[t] = depth(acc, t)
    BY DEF deepened
  <2>. HIDE DEF depth
  <2>. QED
    BY <1>1, <2>1
<1>4. \A t \in T : t \in names /\ rank[t] \in 0..n - 1
  OBVIOUS
<1>5. settled(0)
  <2>. SUFFICES ASSUME NEW t \in T, rank[t] <= 0 PROVE g[1][t] = g[0][t]
    OBVIOUS
  <2>1. ToSet(FindJob(jobs, t).deps) = {}
    <3>. SUFFICES ASSUME NEW d \in ToSet(FindJob(jobs, t).deps) PROVE FALSE
      OBVIOUS
    <3>1. d \in T /\ rank[d] < rank[t]
      OBVIOUS
    <3>. QED
      BY <1>4, <3>1
  <2>2. 1 \in 1..n /\ 1 - 1 = 0 /\ g[0][t] = 0
    BY <1>1, <1>2, <1>4
  <2>. QED
    BY <1>3, <2>1, <2>2
<1>6. ASSUME NEW r \in Nat, r + 1 < n, settled(r) PROVE settled(r + 1)
  <2>. SUFFICES ASSUME NEW t \in T, rank[t] <= r + 1 PROVE g[r + 2][t] = g[r + 1][t]
    OBVIOUS
  <2>. DEFINE d == ToSet(FindJob(jobs, t).deps)
  <2>1. r + 1 \in 1..n /\ r + 2 \in 1..n /\ (r + 1) - 1 = r /\ (r + 2) - 1 = r + 1
    BY <1>6
  <2>2. \A y \in d : g[r + 1][y] = g[r][y]
    <3>. SUFFICES ASSUME NEW y \in d PROVE g[r + 1][y] = g[r][y]
      OBVIOUS
    <3>1. y \in T /\ rank[y] < rank[t]
      OBVIOUS
    <3>2. rank[y] <= r
      BY <1>4, <3>1
    <3>. QED
      BY <1>6, <3>1, <3>2
  <2>. HIDE DEF d
  <2>3. {g[r + 1][y] : y \in d} = {g[r][y] : y \in d}
    BY <2>2
  <2>4. depth(g[r + 1], t) = depth(g[r], t)
    BY <2>3 DEF d
  <2>. HIDE DEF depth
  <2>. QED
    BY <1>3, <2>1, <2>4
<1>. HIDE DEF depth
<1>7. settled(n - 1)
  <2>. HIDE DEF settled
  <2>1. 0 \in A /\ \A r \in Nat : r \in A => r + 1 \in A
    BY <1>5, <1>6
  <2>2. n - 1 \in A
    <3>1. n - 1 \in Nat
      BY <1>2
    <3>. HIDE DEF A
    <3>. QED
      BY <2>1, <3>1, AllNumbers
  <2>. QED
    BY <2>2
<1>8. n \in 1..n /\ n - 1 \in 0..n /\ n \in 0..n /\ (n - 1) + 1 = n
  BY <1>2
<1>9. g[n] = deepened(jobs, g[n - 1]) /\ g[n - 1] \in [JobNames(jobs) -> Nat] /\ g[n] \in [JobNames(jobs) -> Nat]
  BY <1>1, <1>8
<1>10. 1 + g[n - 1][x] <= g[n][k] /\ x \in JobNames(jobs)
  BY <1>9, Deepened DEF Deeper
<1>11. g[n][x] = g[n - 1][x]
  <2>1. rank[x] <= n - 1
    BY <1>4
  <2>. QED
    BY <1>7, <1>8, <2>1
<1>12. g[n][x] \in Nat /\ g[n][k] \in Nat
  BY <1>9, <1>10
<1>. QED
  BY <1>1, <1>10, <1>11, <1>12

\* The place of a module among the sorted ones
place(m) == CHOOSE p \in DOMAIN TopologicalSort(subgraph).order : TopologicalSort(subgraph).order[p] = m

LEMMA Places ==
  ASSUME build \in Builds, GraphOk(subgraph), Scoped(subgraph), TopologicalSort(subgraph).ok
  PROVE  /\ IsFiniteSet(build.targets) /\ Cardinality(build.targets) \in Nat
         /\ \A m \in build.targets : place(m) \in 1..Cardinality(build.targets)
         /\ \A m, d \in build.targets : Contains(build.G.edges[m], d) => place(d) < place(m)
<1>. DEFINE order == TopologicalSort(subgraph).order
            n == Cardinality(build.targets)
<1>1. order \in Seq(ToSet(order)) /\ IsInjective(order) /\ ToSet(order) = build.targets
  BY SortedModules DEF Scoped
<1>2. DepsEarlier(subgraph, order)
  BY SortedInOrder
<1>3. \A m : place(m) = CHOOSE p \in DOMAIN order : order[p] = m
  BY DEF place
<1>. HIDE DEF order
<1>4. Len(order) = Cardinality(Range(order)) /\ IsFiniteSet(Range(order)) /\ Range(order) = ToSet(order)
  <2>. DEFINE T == ToSet(order)
  <2>1. order \in Seq(T)
    BY <1>1
  <2>. HIDE DEF T
  <2>2. Len(order) = Cardinality(Range(order)) /\ IsFiniteSet(Range(order))
    BY <1>1, <2>1, LenOfInjective
  <2>. QED
    BY <2>2 DEF Range, ToSet
<1>5. DOMAIN order = 1..n /\ n \in Nat /\ IsFiniteSet(build.targets)
  BY <1>1, <1>4, LenOfSeq
<1>. HIDE DEF n
<1>6. \A m \in build.targets : place(m) \in 1..n /\ order[place(m)] = m
  <2>. SUFFICES ASSUME NEW m \in build.targets PROVE place(m) \in 1..n /\ order[place(m)] = m
    OBVIOUS
  <2>1. \E p \in DOMAIN order : order[p] = m
    BY <1>1 DEF ToSet
  <2>. QED
    BY <1>3, <1>5, <2>1
<1>7. ASSUME NEW m \in build.targets, NEW d \in build.targets, Contains(build.G.edges[m], d)
      PROVE  place(d) < place(m)
  <2>1. d \in ToSet(subgraph.edges[m])
    BY <1>7 DEF Scoped
  <2>2. PICK q \in 1..place(m) - 1 : order[q] = d
    BY <1>2, <1>5, <1>6, <2>1 DEF DepsEarlier
  <2>3. q \in 1..n /\ place(m) \in 1..n /\ q < place(m)
    BY <1>5, <1>6
  <2>4. q = place(d)
    BY <1>1, <1>5, <1>6, <2>2, <2>3 DEF IsInjective
  <2>. QED
    BY <2>3, <2>4
<1>. QED
  BY <1>5, <1>6, <1>7 DEF n

\* The jobs of terraform that are made when every target is planned
terraformOf(e) == IF e[1] = "plan" THEN buildPlanJob(e[2]) ELSE buildApplyJob(e[2])

LEMMA EnoughJobs ==
  ASSUME IsFiniteSet(build.targets), ir \in Seq(ToSet(ir)), TerraformJobs(ir), wanted = build.targets
  PROVE  IF build.apply THEN 2 * Cardinality(build.targets) <= Len(ir) ELSE Cardinality(build.targets) <= Len(ir)
<1>. DEFINE kinds == IF build.apply THEN {"plan", "apply"} ELSE {"plan"}
            A == kinds \X build.targets
            n == Len(ir)
            f == [e \in A |-> CHOOSE i \in 1..n : ir[i] = terraformOf(e)]
<1>1. n \in Nat /\ DOMAIN ir = 1..n
  BY LenOfSeq
<1>2. IsFiniteSet(kinds) /\ Cardinality(kinds) = IF build.apply THEN 2 ELSE 1
  <2>1. IsFiniteSet({"plan"}) /\ Cardinality({"plan"}) = 1
    BY FS_Singleton
  <2>2. IsFiniteSet({"plan"} \cup {"apply"}) /\ Cardinality({"plan"} \cup {"apply"}) = 1 + 1
    BY <2>1, FS_AddElement
  <2>3. {"plan"} \cup {"apply"} = {"plan", "apply"}
    OBVIOUS
  <2>. QED
    BY <2>1, <2>2, <2>3
<1>3. IsFiniteSet(A) /\ Cardinality(A) = Cardinality(kinds) * Cardinality(build.targets)
  <2>. HIDE DEF kinds
  <2>. QED
    BY <1>2, FS_Product
<1>4. \A e \in A : /\ e[1] \in {"plan", "apply"} /\ e[2] \in build.targets /\ e = <<e[1], e[2]>>
                   /\ terraformOf(e) \in ToSet(ir)
  <2>. SUFFICES ASSUME NEW e \in A
                PROVE  /\ e[1] \in {"plan", "apply"} /\ e[2] \in build.targets /\ e = <<e[1], e[2]>>
                       /\ terraformOf(e) \in ToSet(ir)
    OBVIOUS
  <2>1. e[1] \in kinds /\ e[2] \in build.targets /\ e = <<e[1], e[2]>>
    OBVIOUS
  <2>. QED
    BY <2>1 DEF terraformOf, TerraformJobs
<1>5. \A e \in A : terraformOf(e).kind = e[1] /\ terraformOf(e).module = e[2]
  <2>1. \A m : /\ buildPlanJob(m).kind = "plan" /\ buildPlanJob(m).module = m
               /\ buildApplyJob(m).kind = "apply" /\ buildApplyJob(m).module = m
    BY DEF buildPlanJob, buildApplyJob
  <2>. QED
    BY <1>4, <2>1 DEF terraformOf
<1>. HIDE DEF A, n
<1>6. \A e \in A : f[e] \in 1..n /\ ir[f[e]] = terraformOf(e)
  <2>1. \A e \in A : \E i \in 1..n : ir[i] = terraformOf(e)
    BY <1>1, <1>4 DEF ToSet
  <2>. QED
    BY <2>1
<1>. HIDE DEF f
<1>7. f \in Injection(A, 1..n)
  <2>1. f \in [A -> 1..n]
    <3>1. f = [e \in A |-> f[e]]
      BY DEF f
    <3>. QED
      BY <1>6, <3>1
  <2>2. \A e, h \in A : f[e] = f[h] => e = h
    <3>. SUFFICES ASSUME NEW e \in A, NEW h \in A, f[e] = f[h] PROVE e = h
      OBVIOUS
    <3>1. terraformOf(e) = terraformOf(h)
      BY <1>6
    <3>2. e[1] = h[1] /\ e[2] = h[2]
      BY <1>5, <3>1
    <3>. QED
      BY <1>4, <3>2
  <2>. QED
    BY <2>1, <2>2 DEF Injection, IsInjective
<1>8. Cardinality(A) <= n
  <2>1. IsFiniteSet(1..n) /\ Cardinality(1..n) = n
    BY <1>1, FS_Interval
  <2>. QED
    BY <1>7, <2>1, FS_Injection
<1>9. Cardinality(build.targets) \in Nat
  BY FS_CardinalityType
<1>. QED
  BY <1>2, <1>3, <1>8, <1>9 DEF n

\* How many rounds it takes at most until the stage of a terraform job is final
height(j) ==
  LET p == place(j.module)
  IN  IF ~build.apply THEN p - 1 ELSE IF j.kind = "plan" THEN 2 * p - 2 ELSE 2 * p - 1

\* What depends on a terraform job is in a later stage than that job.
LEMMA StagesAfterTerraform ==
  ASSUME BuildInv, stage = "done", Validate(ir), wanted = build.targets,
         NEW k \in JobNames(ir), NEW x \in ToSet(FindJob(ir, k).deps), FindJob(ir, x).kind # "command"
  PROVE  stages(ir)[x] < stages(ir)[k]
<1>. DEFINE n == Len(ir)
            N == Cardinality(build.targets)
            T == {t \in JobNames(ir) : FindJob(ir, t).kind # "command"}
            rank == [t \in T |-> height(FindJob(ir, t))]
            before == IF build.apply THEN "apply" ELSE "plan"
<1>1. /\ build \in Builds /\ GraphOk(subgraph) /\ Scoped(subgraph) /\ TopologicalSort(subgraph).ok
      /\ TerraformJobs(ir) /\ ir \in Seq(ToSet(ir)) /\ build.apply \in BOOLEAN
  BY BuildsAssumption DEF BuildInv, InputsInv
<1>2. n \in Nat /\ DOMAIN ir = 1..n
  BY <1>1, LenOfSeq
<1>3. /\ IsFiniteSet(build.targets) /\ N \in Nat /\ \A m \in build.targets : place(m) \in 1..N
      /\ \A m, d \in build.targets : Contains(build.G.edges[m], d) => place(d) < place(m)
  BY <1>1, Places
<1>4. IF build.apply THEN 2 * N <= n ELSE N <= n
  BY <1>1, <1>3, EnoughJobs
<1>5. EdgesInside(ir)
  BY ValidEdges DEF EdgesInside
<1>6. \A m : /\ buildPlanJob(m).kind = "plan" /\ buildPlanJob(m).module = m
             /\ buildApplyJob(m).kind = "apply" /\ buildApplyJob(m).module = m
  BY DEF buildPlanJob, buildApplyJob
<1>. HIDE DEF N, n
<1>7. \A m \in build.targets :
        /\ height(buildPlanJob(m)) \in 0..n - 1
        /\ build.apply => height(buildApplyJob(m)) \in 0..n - 1 /\ height(buildPlanJob(m)) < height(buildApplyJob(m))
        /\ \A d \in build.targets : place(d) < place(m) =>
             /\ height(IF build.apply THEN buildApplyJob(d) ELSE buildPlanJob(d)) < height(buildPlanJob(m))
             /\ build.apply => height(buildApplyJob(d)) < height(buildApplyJob(m))
  <2>. SUFFICES ASSUME NEW m \in build.targets
       PROVE  /\ height(buildPlanJob(m)) \in 0..n - 1
              /\ build.apply => height(buildApplyJob(m)) \in 0..n - 1 /\ height(buildPlanJob(m)) < height(buildApplyJob(m))
              /\ \A d \in build.targets : place(d) < place(m) =>
                   /\ height(IF build.apply THEN buildApplyJob(d) ELSE buildPlanJob(d)) < height(buildPlanJob(m))
                   /\ build.apply => height(buildApplyJob(d)) < height(buildApplyJob(m))
    OBVIOUS
  <2>1. \A w : /\ height(buildPlanJob(w)) = IF build.apply THEN 2 * place(w) - 2 ELSE place(w) - 1
               /\ build.apply => height(buildApplyJob(w)) = 2 * place(w) - 1
    BY <1>6 DEF height
  <2>2. place(m) \in 1..N
    BY <1>3
  <2>3. ASSUME NEW d \in build.targets, place(d) < place(m)
        PROVE  /\ height(IF build.apply THEN buildApplyJob(d) ELSE buildPlanJob(d)) < height(buildPlanJob(m))
               /\ build.apply => height(buildApplyJob(d)) < height(buildApplyJob(m))
    <3>1. place(d) \in 1..N
      BY <1>3
    <3>2. CASE build.apply
      BY <1>3, <2>1, <2>2, <2>3, <3>1, <3>2
    <3>3. CASE ~build.apply
      BY <1>3, <2>1, <2>2, <2>3, <3>1, <3>3
    <3>. QED
      BY <3>2, <3>3
  <2>4. /\ height(buildPlanJob(m)) \in 0..n - 1
        /\ build.apply => height(buildApplyJob(m)) \in 0..n - 1 /\ height(buildPlanJob(m)) < height(buildApplyJob(m))
    BY <1>2, <1>3, <1>4, <2>1, <2>2
  <2>. QED
    BY <2>3, <2>4
<1>8. \A t \in T : /\ t \in JobNames(ir) /\ FindJob(ir, t).kind # "command"
                   /\ \/ \E m \in build.targets : FindJob(ir, t) = buildPlanJob(m)
                      \/ build.apply /\ \E m \in build.targets : FindJob(ir, t) = buildApplyJob(m)
  <2>. SUFFICES ASSUME NEW t \in T
                PROVE  \/ \E m \in build.targets : FindJob(ir, t) = buildPlanJob(m)
                       \/ build.apply /\ \E m \in build.targets : FindJob(ir, t) = buildApplyJob(m)
    OBVIOUS
  <2>1. FindJob(ir, t) \in ToSet(ir)
    BY JobByName
  <2>. QED
    BY <1>1, <2>1 DEF TerraformJobs
<1>9. rank \in [T -> 0..n - 1]
  <2>1. \A t \in T : height(FindJob(ir, t)) \in 0..n - 1
    BY <1>7, <1>8
  <2>. HIDE DEF T
  <2>. QED
    BY <2>1
<1>10. \A d \in build.targets : /\ jobName("plan", d) \in T /\ FindJob(ir, jobName("plan", d)) = buildPlanJob(d)
                                /\ build.apply => /\ jobName("apply", d) \in T
                                                  /\ FindJob(ir, jobName("apply", d)) = buildApplyJob(d)
  BY <1>6, PlanByName, ApplyByName
<1>11. ASSUME NEW t \in T, NEW d \in ToSet(FindJob(ir, t).deps)
       PROVE  d \in T /\ rank[d] < rank[t]
  <2>. HIDE DEF T
  <2>1. SUFFICES d \in T /\ height(FindJob(ir, d)) < height(FindJob(ir, t))
    OBVIOUS
  <2>2. \A m \in build.targets : /\ ToSet(buildPlanJob(m).deps) = needs(m, before)
                                 /\ ToSet(buildApplyJob(m).deps) = {jobName("plan", m)} \cup needs(m, "apply")
    BY <1>1, TerraformDeps
  <2>. HIDE DEF before
  <2>3. ASSUME NEW m \in build.targets, FindJob(ir, t) = buildPlanJob(m)
        PROVE  d \in T /\ height(FindJob(ir, d)) < height(FindJob(ir, t))
    <3>1. d \in needs(m, before)
      BY <2>2, <2>3, <1>11
    <3>2. PICK w \in build.targets : Contains(build.G.edges[m], w) /\ d = jobName(before, w)
      BY <3>1 DEF needs
    <3>3. place(w) < place(m)
      BY <1>3, <3>2
    <3>4. d \in T /\ FindJob(ir, d) = IF build.apply THEN buildApplyJob(w) ELSE buildPlanJob(w)
      BY <1>10, <3>2 DEF before
    <3>. QED
      BY <1>7, <2>3, <3>3, <3>4
  <2>4. ASSUME build.apply, NEW m \in build.targets, FindJob(ir, t) = buildApplyJob(m)
        PROVE  d \in T /\ height(FindJob(ir, d)) < height(FindJob(ir, t))
    <3>1. d = jobName("plan", m) \/ d \in needs(m, "apply")
      BY <2>2, <2>4, <1>11
    <3>2. CASE d = jobName("plan", m)
      BY <1>7, <1>10, <2>4, <3>2
    <3>3. CASE d \in needs(m, "apply")
      <4>1. PICK w \in build.targets : Contains(build.G.edges[m], w) /\ d = jobName("apply", w)
        BY <3>3 DEF needs
      <4>2. place(w) < place(m)
        BY <1>3, <4>1
      <4>. QED
        BY <1>7, <1>10, <2>4, <4>1, <4>2
    <3>. QED
      BY <3>1, <3>2, <3>3
  <2>. QED
    BY <1>8, <2>3, <2>4
<1>12. x \in T /\ T \in SUBSET JobNames(ir)
  BY <1>5 DEF EdgesInside
<1>. HIDE DEF T, rank
<1>. QED
  BY <1>2, <1>5, <1>9, <1>11, <1>12, StagesStrict

-----------------------------------------------------------------------------
(* A round in the working copy *)

isPlan(n) == FindJob(ir, n).kind = "plan"

\* The jobs of a round are those of an IR that plans every target.
RoundShape ==
  /\ round \in Nat /\ infra \in [AllModules -> Nat] /\ saw \in [AllModules -> [AllModules -> Nat]]
  /\ DOMAIN disk = [kind : PlanKinds, module : AllModules, producer : {NoProducer}]
  /\ DOMAIN job # {} => /\ stage = "done" /\ build \in LocalBuilds /\ wanted = build.targets
                        /\ DOMAIN job = JobNames(ir)
  /\ \A n \in DOMAIN job : job[n] \in {"waiting", "running", "success", "failed"}
  /\ local # "running" => runningJobs = {}

\* What a job waits for of terraform's has succeeded when it begins.
TerraformFirst ==
  \A k \in DOMAIN job : job[k] # "waiting" =>
    \A x \in ToSet(FindJob(ir, k).deps) : FindJob(ir, x).kind # "command" => job[x] = "success"

\* A plan is the one made in this round, and saw the state that is still there.
PlansHold ==
  \A n \in {k \in DOMAIN job : isPlan(k)} :
    LET m == FindJob(ir, n).module
    IN  /\ job[n] = "success" => disk[PlanResource("plan_binary", m)] = [round |-> round, saw |-> saw[m]]
        /\ build.apply /\ job[n] # "waiting" => \A d \in dependenciesOf(m) : saw[m][d] = infra[d]

\* A report of this round was made of the plans as they are, and these are final.
ReportHolds(r) ==
  /\ r.round \in Nat /\ r.round <= round
  /\ r.round = round =>
       r.of = {} \/ (r.of = {scanned} /\ \A n \in DOMAIN job : isPlan(n) => job[n] = "success")

ReportsHold == \A p \in DOMAIN report : \A r \in report[p] : ReportHolds(r)

LocalInv ==
  /\ RoundShape /\ TerraformFirst /\ PlansHold /\ ReportsHold
  /\ local = "completed" => shown = SelectCurrentReports

\* What the jobs of an IR are
LEMMA JobsOfIR ==
  ASSUME BuildInv, stage = "done", NEW n \in JobNames(ir)
  PROVE  LET j == FindJob(ir, n)
         IN  /\ j.kind = "plan" => n = jobName("plan", j.module) /\ j.module \in wanted /\ j = buildPlanJob(j.module)
             /\ j.kind = "apply" => /\ build.apply /\ n = jobName("apply", j.module) /\ j.module \in build.targets
                                    /\ j = buildApplyJob(j.module)
             /\ j.kind = "command" => \E c \in ToSet(build.jobs) : n = c.name
<1>. DEFINE j == FindJob(ir, n)
<1>1. j \in ToSet(ir) /\ j.name = n /\ TerraformJobs(ir)
  BY JobByName DEF BuildInv
<1>2. \A m : /\ buildPlanJob(m).kind = "plan" /\ buildPlanJob(m).module = m /\ buildPlanJob(m).name = jobName("plan", m)
             /\ buildApplyJob(m).kind = "apply" /\ buildApplyJob(m).module = m /\ buildApplyJob(m).name = jobName("apply", m)
  BY DEF buildPlanJob, buildApplyJob
<1>. HIDE DEF j
<1>3. \/ j.kind = "command" /\ \E c \in ToSet(build.jobs) : j.name = c.name
      \/ \E m \in wanted : j = buildPlanJob(m)
      \/ build.apply /\ \E m \in build.targets : j = buildApplyJob(m)
  BY <1>1 DEF TerraformJobs
<1>. QED
  BY <1>1, <1>2, <1>3 DEF j

\* A plugin's job that reads plans waits for all of them.
LEMMA ReadersWait ==
  ASSUME BuildInv, stage = "done", Validate(ir), build \in LocalBuilds,
         NEW n \in JobNames(ir), FindJob(ir, n).kind = "command", FindJob(ir, n).consumes # <<>>,
         NEW m \in wanted
  PROVE  jobName("plan", m) \in ToSet(FindJob(ir, n).deps)
<1>. DEFINE k == buildPlanJob(m)
            ref == PlanResource("plan_json", m)
            r == AllPlanResources("plan_json")
<1>1. TerraformJobs(ir) /\ Answered(ir) /\ ir \in Seq(ToSet(ir)) /\ \A i \in ToSet(ir) : JobShape(i)
  BY DEF BuildInv, InputsInv
<1>2. \A i, h \in ToSet(ir) : i.name = h.name => i = h
  BY DEF Validate, UniqueNames, ToSet
<1>3. PICK c \in ToSet(build.jobs) : n = c.name
  BY JobsOfIR
<1>4. PICK j \in ToSet(ir) :
        /\ j.name = c.name /\ (c.consumes = <<>> => j.consumes = <<>>)
        /\ \A q \in ToSet(c.consumes) : \A h \in ToSet(ir) : \A x \in ToSet(h.produces) :
             h.name # c.name /\ resourceMatches(q, x) => Serves(j, c, h, x, q)
  BY <1>1 DEF Answered
<1>5. FindJob(ir, n) = j
  BY <1>2, <1>3, <1>4, JobByName
<1>6. r \in ToSet(c.consumes)
  BY <1>3, <1>4, <1>5, LocalJobsAssumption
<1>7. k \in ToSet(ir) /\ k.name = jobName("plan", m) /\ k.kind = "plan" /\ k.produces = planResources(m)
  BY <1>1 DEF TerraformJobs, buildPlanJob
<1>8. k.name # j.name /\ k.name # c.name
  BY <1>2, <1>4, <1>5, <1>7
<1>9. ref \in ToSet(k.produces)
  <2>1. planOutputs(m, "plan_json")
    <3>1. r \in requests /\ r.kind = "plan_json" /\ r.scope # "module"
      BY <1>6 DEF requests, AllPlanResources, ResourceRequest
    <3>. QED
      BY <3>1 DEF planOutputs, asksFor, PlanKinds
  <2>2. CASE planOutputs(m, "plan_text")
    <3>1. planResources(m)[3] = ref /\ 3 \in DOMAIN planResources(m)
      BY <2>1, <2>2 DEF planResources
    <3>. QED
      BY <1>7, <3>1 DEF ToSet
  <2>3. CASE ~planOutputs(m, "plan_text")
    <3>1. planResources(m)[2] = ref /\ 2 \in DOMAIN planResources(m)
      BY <2>1, <2>3 DEF planResources
    <3>. QED
      BY <1>7, <3>1 DEF ToSet
  <2>. QED
    BY <2>2, <2>3
<1>10. resourceMatches(r, ref)
  <2>1. m # NoModule
    BY BuildsAssumption, IDsAssumption DEF wanted, BuildInv, NoModule
  <2>. QED
    BY <2>1 DEF resourceMatches, AllPlanResources, ResourceRequest, PlanResource
<1>. HIDE DEF k, ref, r
<1>11. ref \in ToSet(j.consumes)
  BY <1>4, <1>6, <1>7, <1>8, <1>9, <1>10 DEF Serves
<1>12. TakesFrom(j, k, ref)
  BY <1>1, <1>7, <1>8, <1>9, <1>11, ConsumedIsInput
<1>. QED
  BY <1>5, <1>7, <1>12 DEF TakesFrom

\* Once a module is planned, all it depends on has been applied.
LEMMA AppliedBefore ==
  ASSUME BuildInv, stage = "done", Validate(ir), build.apply, DOMAIN job = JobNames(ir), TerraformFirst,
         NEW n \in DOMAIN job, isPlan(n), job[n] # "waiting", NEW d \in dependenciesOf(FindJob(ir, n).module)
  PROVE  d \in build.targets /\ jobName("apply", d) \in DOMAIN job /\ job[jobName("apply", d)] = "success"
<1>. DEFINE T == build.targets
            planned(m) == job[jobName("plan", m)] # "waiting"
            applied(m) == job[jobName("apply", m)] = "success"
            Q == {e \in T \X T : planned(e[1]) => applied(e[2])}
            m0 == FindJob(ir, n).module
<1>1. build \in Builds /\ GraphOk(subgraph) /\ Scoped(subgraph) /\ wanted = T
  <2>1. wanted = T
    BY DEF wanted, moduleNeedsPlanJob
  <2>. QED
    BY <2>1 DEF BuildInv
<1>2. IsFiniteSet(T)
  BY <1>1, BuildsAssumption, IDsAssumption, FS_Subset
<1>3. n = jobName("plan", m0) /\ m0 \in T
  BY <1>1, JobsOfIR DEF isPlan
<1>4. \A m \in T : /\ jobName("plan", m) \in DOMAIN job /\ FindJob(ir, jobName("plan", m)) = buildPlanJob(m)
                   /\ jobName("apply", m) \in DOMAIN job /\ FindJob(ir, jobName("apply", m)) = buildApplyJob(m)
  BY <1>1, PlanByName, ApplyByName
<1>5. \A m : buildPlanJob(m).kind = "plan" /\ buildApplyJob(m).kind = "apply"
  BY DEF buildPlanJob, buildApplyJob
<1>6. \A m \in T : /\ ToSet(buildPlanJob(m).deps) = needs(m, "apply")
                   /\ ToSet(buildApplyJob(m).deps) = {jobName("plan", m)} \cup needs(m, "apply")
  BY <1>1, TerraformDeps
<1>7. targetEdges \subseteq Q
  <2>1. SUFFICES ASSUME NEW e \in targetEdges, planned(e[1]) PROVE applied(e[2])
    BY DEF targetEdges
  <2>2. e[1] \in T /\ e[2] \in T /\ Contains(build.G.edges[e[1]], e[2])
    BY DEF targetEdges
  <2>3. jobName("apply", e[2]) \in ToSet(buildPlanJob(e[1]).deps)
    BY <1>6, <2>2 DEF needs
  <2>. QED
    BY <1>4, <1>5, <2>1, <2>2, <2>3 DEF TerraformFirst
<1>8. TransitiveOn(T, Q)
  <2>1. \A m \in T : applied(m) => planned(m)
    <3>. SUFFICES ASSUME NEW m \in T, applied(m) PROVE planned(m)
      OBVIOUS
    <3>1. jobName("plan", m) \in ToSet(FindJob(ir, jobName("apply", m)).deps)
      BY <1>4, <1>6
    <3>2. FindJob(ir, jobName("plan", m)).kind # "command"
      BY <1>4, <1>5
    <3>3. job[jobName("apply", m)] # "waiting" /\ jobName("apply", m) \in DOMAIN job
      BY <1>4
    <3>. QED
      BY <3>1, <3>2, <3>3 DEF TerraformFirst
  <2>. QED
    BY <2>1 DEF TransitiveOn
<1>9. closure(T, targetEdges) \subseteq Q
  <2>. HIDE DEF Q
  <2>. QED
    BY <1>2, <1>7, <1>8, ClosureIsLeast
<1>10. <<m0, d>> \in Q
  BY <1>9 DEF dependenciesOf
<1>. QED
  BY <1>3, <1>4, <1>10

\* What is read off the graph and the files alone
LEMMA SameFiles ==
  ASSUME build'.G.nodes = build.G.nodes, disk' = disk
  PROVE  AllModules' = AllModules /\ scanned' = scanned
BY DEF AllModules, scanned

\* What is read off the request and the IR alone
LEMMA SameIR ==
  ASSUME build' = build, ir' = ir
  PROVE  /\ \A n : isPlan(n)' = isPlan(n) /\ FindJob(ir, n)' = FindJob(ir, n)
         /\ \A m : dependenciesOf(m)' = dependenciesOf(m)
         /\ wanted' = wanted /\ JobNames(ir)' = JobNames(ir)
<1>1. targetEdges' = targetEdges /\ wanted' = wanted
  BY DEF targetEdges, wanted, moduleNeedsPlanJob, requests
<1>2. closure(build.targets, targetEdges)' = closure(build.targets, targetEdges)
  BY <1>1
<1>. QED
  BY <1>1, <1>2 DEF isPlan, dependenciesOf

\* Between rounds nothing is run, and the working copy stays as it is.
LEMMA IdleKeepsRound ==
  ASSUME LocalInv, job' = Nothing, local' # "completed", build'.G.nodes = build.G.nodes,
         UNCHANGED <<round, saw, disk, infra, report>>
  PROVE  LocalInv'
<1>1. AllModules' = AllModules /\ scanned' = scanned
  BY SameFiles
<1>2. DOMAIN job' = {}
  BY DEF Nothing
<1>3. RoundShape'
  BY <1>1, <1>2 DEF LocalInv, RoundShape, runningJobs
<1>4. TerraformFirst' /\ PlansHold'
  BY <1>2 DEF TerraformFirst, PlansHold
<1>5. ReportsHold'
  BY <1>1, <1>2 DEF LocalInv, ReportsHold, ReportHolds
<1>. QED
  BY <1>3, <1>4, <1>5 DEF LocalInv

\* NormalizeRequest leaves two intents, and both plan every target.
LEMMA EveryTargetPlanned ==
  ASSUME NEW request \in LocalRequests, intentForMode(request.mode) = newBuildIntent(build.apply, build.required)
  PROVE  wanted = build.targets
<1>1. build.apply \/ AllPlanResources("plan_binary") \in ToSet(build.required)
  <2>1. request.mode \in {"run", "plan"}
    BY LocalRequestsAssumption
  <2>2. request.mode = "run" => build.apply
    BY DEF intentForMode, newBuildIntent
  <2>3. request.mode = "plan" => build.required = <<AllPlanResources("plan_binary")>>
    BY DEF intentForMode, newBuildIntent
  <2>. QED
    BY <2>1, <2>2, <2>3 DEF ToSet
<1>2. \A m : asksFor(AllPlanResources("plan_binary"), m)
  BY DEF asksFor, AllPlanResources, ResourceRequest, PlanKinds
<1>. QED
  BY <1>1, <1>2 DEF wanted, moduleNeedsPlanJob, requests

LEMMA BeginKeepsRound ==
  ASSUME LocalInv, Begin
  PROVE  LocalInv'
<1>1. /\ build' = build /\ ir' = ir /\ stage' = stage /\ round' = round + 1 /\ shown' = {} /\ build \in LocalBuilds
      /\ saw' = saw /\ disk' = disk /\ infra' = infra /\ report' = report
      /\ local' \in {"skipped", "failed", "running"}
      /\ job' = IF local' = "running" THEN [n \in JobNames(ir) |-> "waiting"] ELSE Nothing
      /\ local' = "running" => stage = "done"
      /\ \E request \in LocalRequests : intentForMode(request.mode) = newBuildIntent(build.apply, build.required)
  BY DEF Begin, vars
<1>2. wanted = build.targets
  BY <1>1, EveryTargetPlanned
<1>3. \A n : isPlan(n)' = isPlan(n) /\ FindJob(ir, n)' = FindJob(ir, n)
  BY <1>1, SameIR
<1>4. wanted' = wanted /\ AllModules' = AllModules /\ scanned' = scanned
  BY <1>1, SameIR, SameFiles
<1>5. (\A n \in DOMAIN job' : job'[n] = "waiting") /\ (DOMAIN job' # {} => DOMAIN job' = JobNames(ir) /\ local' = "running")
  BY <1>1 DEF Nothing
<1>6. round \in Nat
  BY DEF LocalInv, RoundShape
<1>7. RoundShape'
  BY <1>1, <1>2, <1>4, <1>5, <1>6 DEF LocalInv, RoundShape, runningJobs
<1>8. TerraformFirst' /\ PlansHold'
  BY <1>5 DEF TerraformFirst, PlansHold
<1>9. ReportsHold'
  <2>1. SUFFICES ASSUME NEW p \in DOMAIN report, NEW r \in report[p] PROVE r.round \in Nat /\ r.round <= round + 1 /\ r.round # round + 1
    BY <1>1 DEF ReportsHold, ReportHolds
  <2>2. r.round \in Nat /\ r.round <= round
    BY DEF LocalInv, ReportsHold, ReportHolds
  <2>. QED
    BY <1>6, <2>2
<1>. QED
  BY <1>1, <1>7, <1>8, <1>9 DEF LocalInv

LEMMA EndKeepsRound ==
  ASSUME LocalInv, EndRound
  PROVE  LocalInv'
<1>1. /\ build' = build /\ ir' = ir /\ stage' = stage /\ round' = round /\ saw' = saw /\ disk' = disk /\ infra' = infra
      /\ report' = report /\ job' = job /\ runningJobs = {}
      /\ local' = "completed" => shown' = SelectCurrentReports
      /\ local' \in {"failed", "completed"}
  BY DEF EndRound, vars
<1>2. \A n : isPlan(n)' = isPlan(n) /\ FindJob(ir, n)' = FindJob(ir, n)
  BY <1>1, SameIR
<1>3. \A m : dependenciesOf(m)' = dependenciesOf(m)
  BY <1>1, SameIR
<1>4. wanted' = wanted /\ AllModules' = AllModules /\ scanned' = scanned /\ JobNames(ir)' = JobNames(ir)
  BY <1>1, SameIR, SameFiles
<1>5. RoundShape'
  BY <1>1, <1>4 DEF LocalInv, RoundShape, runningJobs
<1>6. TerraformFirst'
  BY <1>1 DEF LocalInv, TerraformFirst
<1>7. PlansHold'
  BY <1>1, <1>2, <1>3 DEF LocalInv, PlansHold
<1>8. ReportsHold'
  BY <1>1, <1>2, <1>4 DEF LocalInv, ReportsHold, ReportHolds
<1>9. SelectCurrentReports' = SelectCurrentReports
  BY <1>1, <1>4 DEF SelectCurrentReports
<1>. QED
  BY <1>1, <1>5, <1>6, <1>7, <1>8, <1>9 DEF LocalInv

\* What a job waits for of terraform's stands in an earlier layer: it has ended
\* when the job's layer begins, and not badly.
LEMMA StartedInLayer ==
  ASSUME BuildInv, CIInv, LocalInv, NEW n \in DOMAIN job, StartJob(n),
         NEW x \in ToSet(FindJob(ir, n).deps), FindJob(ir, x).kind # "command"
  PROVE  x \in DOMAIN job /\ job[x] = "success"
<1>. DEFINE S == {stages(ir)[k] : k \in {k \in DOMAIN job : job[k] \in {"waiting", "running"}}}
<1>1. /\ stage = "done" /\ wanted = build.targets /\ DOMAIN job = JobNames(ir)
      /\ \A k \in DOMAIN job : job[k] \in {"waiting", "running", "success", "failed"}
  BY DEF LocalInv, RoundShape
<1>2. job[n] = "waiting" /\ ~failing /\ stages(ir)[n] = Min(S)
  BY DEF StartJob, jobStarted, layer
<1>3. Validate(ir) /\ ir \in Seq(ToSet(ir))
  BY <1>1 DEF CIInv, DocInv, BuildInv, InputsInv
<1>4. x \in JobNames(ir)
  BY <1>1, <1>3, ValidEdges
<1>5. stages(ir)[x] < stages(ir)[n]
  BY <1>1, <1>3, StagesAfterTerraform
<1>6. stages(ir) \in [JobNames(ir) -> Nat]
  <2>1. EdgesInside(ir)
    BY <1>3, ValidEdges DEF EdgesInside
  <2>2. Len(ir) \in Nat /\ DOMAIN ir = 1..Len(ir)
    BY <1>3, LenOfSeq
  <2>. DEFINE l == Len(ir)
  <2>. HIDE DEF l
  <2>3. l \in Nat /\ DOMAIN ir = 1..l
    BY <2>2 DEF l
  <2>4. PICK g \in [0..l -> [JobNames(ir) -> Nat]] : stages(ir) = g[l]
    BY <2>1, <2>3, StagesByRounds
  <2>. QED
    BY <2>3, <2>4
<1>7. S \subseteq Nat
  BY <1>1, <1>6
<1>8. job[x] \notin {"waiting", "running"}
  <2>1. SUFFICES ASSUME job[x] \in {"waiting", "running"} PROVE FALSE
    OBVIOUS
  <2>2. stages(ir)[x] \in S
    BY <1>1, <1>4, <2>1
  <2>. HIDE DEF S
  <2>3. Min(S) <= stages(ir)[x] /\ Min(S) \in Nat /\ stages(ir)[x] \in Nat
    BY <1>7, <2>2, LeastElement
  <2>. QED
    BY <1>2, <1>5, <2>3
<1>. QED
  BY <1>1, <1>2, <1>4, <1>8 DEF failing

LEMMA StartKeepsRound ==
  ASSUME BuildInv, CIInv, LocalInv, NEW n \in DOMAIN job, StartJob(n)
  PROVE  LocalInv'
<1>. DEFINE j == FindJob(ir, n)
<1>1. /\ build' = build /\ ir' = ir /\ stage' = stage /\ round' = round /\ disk' = disk /\ infra' = infra
      /\ report' = report /\ local = "running" /\ local' = "running" /\ job[n] = "waiting"
      /\ job' = [job EXCEPT ![n] = "running"]
      /\ saw' = IF j.kind = "plan" THEN [saw EXCEPT ![j.module] = infra] ELSE saw
  BY DEF StartJob, jobStarted, vars
<1>2. /\ RoundShape /\ TerraformFirst /\ PlansHold /\ ReportsHold
      /\ stage = "done" /\ wanted = build.targets /\ DOMAIN job = JobNames(ir) /\ build \in LocalBuilds
  BY DEF LocalInv, RoundShape
<1>3. (\A k : isPlan(k)' = isPlan(k) /\ FindJob(ir, k)' = FindJob(ir, k)) /\ \A m : dependenciesOf(m)' = dependenciesOf(m)
  BY <1>1, SameIR
<1>4. wanted' = wanted /\ AllModules' = AllModules /\ scanned' = scanned /\ JobNames(ir)' = JobNames(ir)
  BY <1>1, SameIR, SameFiles
<1>5. DOMAIN job' = DOMAIN job /\ \A k \in DOMAIN job : job'[k] = IF k = n THEN "running" ELSE job[k]
  BY <1>1
<1>6. saw' \in [AllModules -> [AllModules -> Nat]] /\ infra \in [AllModules -> Nat] /\ DOMAIN saw = AllModules
  <2>1. infra \in [AllModules -> Nat] /\ saw \in [AllModules -> [AllModules -> Nat]]
    BY <1>2 DEF RoundShape
  <2>. QED
    BY <1>1, <2>1
<1>7. RoundShape'
  <2>1. \A k \in DOMAIN job' : job'[k] \in {"waiting", "running", "success", "failed"}
    BY <1>2, <1>5 DEF RoundShape
  <2>. QED
    BY <1>1, <1>2, <1>4, <1>5, <1>6, <2>1 DEF RoundShape
<1>8. TerraformFirst'
  <2>1. SUFFICES ASSUME NEW k \in DOMAIN job, job'[k] # "waiting",
                        NEW x \in ToSet(FindJob(ir, k).deps), FindJob(ir, x).kind # "command"
                 PROVE  job'[x] = "success"
    BY <1>1, <1>5 DEF TerraformFirst
  <2>2. CASE k = n
    <3>1. x \in DOMAIN job /\ job[x] = "success"
      BY <2>1, <2>2, StartedInLayer
    <3>. QED
      BY <1>1, <1>5, <3>1
  <2>3. CASE k # n
    <3>1. job[x] = "success"
      BY <1>2, <1>5, <2>1, <2>3 DEF TerraformFirst
    <3>2. x \in DOMAIN job
      <4>1. Validate(ir)
        BY <1>2 DEF CIInv, DocInv
      <4>. QED
        BY <1>2, <2>1, <4>1, ValidEdges
    <3>. QED
      BY <1>1, <1>5, <3>1, <3>2
  <2>. QED
    BY <2>2, <2>3
<1>9. PlansHold'
  <2>1. SUFFICES ASSUME NEW k \in DOMAIN job, isPlan(k), NEW m, m = FindJob(ir, k).module
                 PROVE  /\ job'[k] = "success" => disk[PlanResource("plan_binary", m)] = [round |-> round, saw |-> saw'[m]]
                        /\ build.apply /\ job'[k] # "waiting" => \A d \in dependenciesOf(m) : saw'[m][d] = infra[d]
    BY <1>1, <1>3, <1>5 DEF PlansHold
  <2>2. m \in AllModules /\ k = jobName("plan", m)
    <3>1. m \in wanted /\ k = jobName("plan", m)
      BY <1>2, <2>1, JobsOfIR DEF isPlan
    <3>2. build.targets \subseteq build.G.nodes
      BY BuildsAssumption DEF BuildInv
    <3>. QED
      BY <1>2, <3>1, <3>2 DEF AllModules
  <2>3. CASE k = n
    <3>1. saw'[m] = infra
      BY <1>1, <1>6, <2>1, <2>2, <2>3 DEF isPlan
    <3>. QED
      BY <1>5, <2>3, <3>1
  <2>4. CASE k # n
    <3>1. saw'[m] = saw[m]
      <4>1. CASE j.kind = "plan"
        <5>1. n = jobName("plan", j.module)
          BY <1>2, <4>1, JobsOfIR
        <5>2. j.module # m
          BY <2>2, <2>4, <5>1
        <5>. QED
          BY <1>1, <1>6, <2>2, <4>1, <5>2
      <4>2. CASE j.kind # "plan"
        BY <1>1, <4>2
      <4>. QED
        BY <4>1, <4>2
    <3>. QED
      BY <1>2, <1>5, <2>1, <2>4, <3>1 DEF PlansHold
  <2>. QED
    BY <2>3, <2>4
<1>10. ReportsHold'
  <2>1. \A r : ReportHolds(r) => ReportHolds(r)'
    <3>1. SUFFICES ASSUME NEW r, ReportHolds(r), r.round = round, r.of = {scanned}, NEW k \in DOMAIN job, isPlan(k)
                   PROVE  job'[k] = "success"
      BY <1>1, <1>3, <1>4, <1>5 DEF ReportHolds
    <3>2. job[k] = "success"
      BY <3>1 DEF ReportHolds
    <3>. QED
      BY <1>1, <1>5, <3>2
  <2>. QED
    BY <1>1, <1>2, <2>1 DEF ReportsHold
<1>. QED
  BY <1>1, <1>7, <1>8, <1>9, <1>10 DEF LocalInv

\* What the end of a job leaves as it is
Ended(n, result) ==
  /\ job[n] = "running" /\ result \in {"success", "failed"} /\ job' = [job EXCEPT ![n] = result]
  /\ UNCHANGED <<build, stage, ir, local, round, saw>>

LEMMA EndedShape ==
  ASSUME BuildInv, CIInv, LocalInv, NEW n \in DOMAIN job, NEW result, Ended(n, result),
         infra' \in [AllModules -> Nat], DOMAIN disk' = DOMAIN disk
  PROVE  RoundShape' /\ TerraformFirst' /\ local' = "running" /\ DOMAIN job' = DOMAIN job
<1>1. /\ RoundShape /\ TerraformFirst /\ job' = [job EXCEPT ![n] = result] /\ result \in {"success", "failed"}
      /\ build' = build /\ stage' = stage /\ ir' = ir /\ local' = local /\ round' = round /\ saw' = saw
      /\ job[n] = "running"
  BY DEF LocalInv, Ended
<1>2. local = "running"
  BY <1>1 DEF RoundShape, runningJobs
<1>3. wanted' = wanted /\ AllModules' = AllModules /\ JobNames(ir)' = JobNames(ir)
  BY <1>1, SameIR DEF AllModules
<1>4. DOMAIN job' = DOMAIN job /\ \A k \in DOMAIN job : job'[k] = IF k = n THEN result ELSE job[k]
  BY <1>1
<1>5. RoundShape'
  <2>1. \A k \in DOMAIN job' : job'[k] \in {"waiting", "running", "success", "failed"}
    BY <1>1, <1>4 DEF RoundShape
  <2>2. DOMAIN job' # {} => /\ stage' = "done" /\ build' \in LocalBuilds /\ wanted' = build'.targets
                            /\ DOMAIN job' = JobNames(ir)'
    BY <1>1, <1>3, <1>4 DEF RoundShape
  <2>3. round \in Nat /\ saw \in [AllModules -> [AllModules -> Nat]]
        /\ DOMAIN disk = [kind : PlanKinds, module : AllModules, producer : {NoProducer}]
    BY <1>1 DEF RoundShape
  <2>. QED
    BY <1>1, <1>2, <1>3, <2>1, <2>2, <2>3 DEF RoundShape
<1>6. TerraformFirst'
  <2>1. SUFFICES ASSUME NEW k \in DOMAIN job, job'[k] # "waiting",
                        NEW x \in ToSet(FindJob(ir, k).deps), FindJob(ir, x).kind # "command"
                 PROVE  job'[x] = "success"
    BY <1>1, <1>4 DEF TerraformFirst
  <2>2. job[k] # "waiting"
    BY <1>1, <1>4, <2>1
  <2>3. job[x] = "success"
    BY <1>1, <2>1, <2>2 DEF TerraformFirst
  <2>4. x \in DOMAIN job
    <3>1. stage = "done" /\ DOMAIN job = JobNames(ir)
      BY <1>1 DEF RoundShape
    <3>2. Validate(ir)
      BY <3>1 DEF CIInv, DocInv
    <3>. QED
      BY <2>1, <3>1, <3>2, ValidEdges
  <2>. QED
    BY <1>1, <1>4, <2>3, <2>4
<1>. QED
  BY <1>1, <1>2, <1>4, <1>5, <1>6

\* The plan that ends is the one of its module, and no other job writes its file.
LEMMA PlanKeepsRound ==
  ASSUME BuildInv, CIInv, LocalInv, NEW n \in DOMAIN job, EndJob(n), RunPlan(n)
  PROVE  LocalInv'
<1>. DEFINE j == FindJob(ir, n)
            m0 == j.module
            files == planFiles(j)
            version == [round |-> round, saw |-> saw[m0]]
<1>1. PICK written \in 0..Len(files), result \in {"success", "failed"} :
        /\ result = "success" => written = Len(files)
        /\ disk' = [ref \in DOMAIN disk |->
             IF \E k \in 1..written : ref = PlanResource(files[k], m0) THEN version ELSE disk[ref]]
        /\ job' = [job EXCEPT ![n] = result]
  BY DEF RunPlan
<1>2. j.kind = "plan" /\ infra' = infra /\ report' = report
  BY DEF RunPlan
<1>3. Ended(n, result) /\ build' = build /\ ir' = ir /\ round' = round /\ saw' = saw
  BY <1>1 DEF EndJob, Ended, vars
<1>4. /\ RoundShape /\ PlansHold /\ ReportsHold /\ infra \in [AllModules -> Nat]
      /\ stage = "done" /\ wanted = build.targets /\ DOMAIN job = JobNames(ir)
      /\ DOMAIN disk = [kind : PlanKinds, module : AllModules, producer : {NoProducer}]
  BY DEF LocalInv, RoundShape
<1>5. DOMAIN disk' = DOMAIN disk
  BY <1>1
<1>6. RoundShape' /\ TerraformFirst' /\ local' = "running" /\ DOMAIN job' = DOMAIN job
  BY <1>2, <1>3, <1>4, <1>5, EndedShape
<1>7. (\A k : isPlan(k)' = isPlan(k) /\ FindJob(ir, k)' = FindJob(ir, k)) /\ \A m : dependenciesOf(m)' = dependenciesOf(m)
  BY <1>3, SameIR
<1>8. \A k \in DOMAIN job : job'[k] = IF k = n THEN result ELSE job[k]
  BY <1>1
<1>9. files[1] = "plan_binary" /\ Len(files) \in Nat /\ Len(files) >= 1
  BY DEF planFiles
<1>. HIDE DEF files, j
<1>10. PlansHold'
  <2>1. SUFFICES ASSUME NEW k \in DOMAIN job, isPlan(k), NEW m, m = FindJob(ir, k).module
                 PROVE  /\ job'[k] = "success" => disk'[PlanResource("plan_binary", m)] = [round |-> round, saw |-> saw[m]]
                        /\ build.apply /\ job'[k] # "waiting" => \A d \in dependenciesOf(m) : saw[m][d] = infra[d]
    BY <1>2, <1>3, <1>6, <1>7 DEF PlansHold
  <2>2. k = jobName("plan", m) /\ PlanResource("plan_binary", m) \in DOMAIN disk
    <3>1. m \in wanted /\ k = jobName("plan", m)
      BY <1>4, <2>1, JobsOfIR DEF isPlan
    <3>2. build.targets \subseteq build.G.nodes
      BY BuildsAssumption DEF BuildInv
    <3>. QED
      BY <1>4, <3>1, <3>2 DEF AllModules, PlanResource, PlanKinds
  <2>3. build.apply /\ job'[k] # "waiting" => \A d \in dependenciesOf(m) : saw[m][d] = infra[d]
    <3>1. job'[k] # "waiting" => job[k] # "waiting"
      BY <1>3, <1>8 DEF Ended
    <3>. QED
      BY <1>4, <2>1, <3>1 DEF PlansHold
  <2>4. CASE k = n
    <3>1. SUFFICES ASSUME result = "success" PROVE disk'[PlanResource("plan_binary", m)] = [round |-> round, saw |-> saw[m]]
      BY <1>8, <2>3, <2>4
    <3>2. m = m0 /\ 1 \in 1..written
      BY <1>1, <1>9, <2>1, <2>4, <3>1 DEF j
    <3>. QED
      BY <1>1, <1>9, <2>2, <3>2
  <2>5. CASE k # n
    <3>1. m # m0
      <4>1. n = jobName("plan", m0)
        BY <1>2, <1>4, JobsOfIR DEF j
      <4>. QED
        BY <2>2, <2>5, <4>1
    <3>2. \A h : PlanResource("plan_binary", m) # PlanResource(h, m0)
      BY <3>1 DEF PlanResource
    <3>3. disk'[PlanResource("plan_binary", m)] = disk[PlanResource("plan_binary", m)]
      BY <1>1, <2>2, <3>2
    <3>4. job[k] = "success" => disk[PlanResource("plan_binary", m)] = [round |-> round, saw |-> saw[m]]
      BY <1>4, <2>1 DEF PlansHold
    <3>. QED
      BY <1>8, <2>3, <2>5, <3>3, <3>4
  <2>. QED
    BY <2>4, <2>5
<1>11. ReportsHold'
  <2>1. \A r : ReportHolds(r) => ReportHolds(r)'
    <3>1. isPlan(n) /\ job[n] # "success"
      BY <1>2, <1>3 DEF Ended, isPlan, j
    <3>2. \A r : ReportHolds(r) => r.round # round \/ r.of = {}
      BY <3>1 DEF ReportHolds
    <3>. QED
      BY <1>3, <3>2 DEF ReportHolds
  <2>. QED
    BY <1>2, <1>4, <2>1 DEF ReportsHold
<1>. QED
  BY <1>6, <1>10, <1>11 DEF LocalInv

\* What is applied is nothing a planned module depends on: that is applied for good.
LEMMA ApplyKeepsRound ==
  ASSUME BuildInv, CIInv, LocalInv, NEW n \in DOMAIN job, EndJob(n), RunApply(n)
  PROVE  LocalInv'
<1>. DEFINE j == FindJob(ir, n)
            m0 == j.module
<1>1. /\ j.kind = "apply" /\ disk' = disk /\ report' = report
      /\ infra' = infra \/ infra' = [infra EXCEPT ![m0] = @ + 1]
  BY DEF RunApply
<1>2. PICK result \in {"success", "failed"} : job' = [job EXCEPT ![n] = result]
  BY DEF RunApply
<1>3. Ended(n, result) /\ build' = build /\ ir' = ir /\ round' = round /\ saw' = saw
  BY <1>2 DEF EndJob, Ended, vars
<1>4. /\ RoundShape /\ TerraformFirst /\ PlansHold /\ ReportsHold /\ infra \in [AllModules -> Nat]
      /\ stage = "done" /\ wanted = build.targets /\ DOMAIN job = JobNames(ir)
  BY DEF LocalInv, RoundShape
<1>5. infra' \in [AllModules -> Nat] /\ \A d \in AllModules : d # m0 => infra'[d] = infra[d]
  <2>. HIDE DEF j
  <2>. QED
    BY <1>1, <1>4
<1>6. RoundShape' /\ TerraformFirst' /\ local' = "running" /\ DOMAIN job' = DOMAIN job
  BY <1>1, <1>3, <1>5, EndedShape
<1>7. (\A k : isPlan(k)' = isPlan(k) /\ FindJob(ir, k)' = FindJob(ir, k)) /\ \A m : dependenciesOf(m)' = dependenciesOf(m)
  BY <1>3, SameIR
<1>8. scanned' = scanned
  BY <1>1, <1>3, SameFiles
<1>9. \A k \in DOMAIN job : job'[k] = IF k = n THEN result ELSE job[k]
  BY <1>2
<1>10. n = jobName("apply", m0) /\ job[n] = "running" /\ build.apply /\ ~isPlan(n)
  BY <1>1, <1>3, <1>4, JobsOfIR DEF Ended, isPlan
<1>. HIDE DEF j
<1>11. PlansHold'
  <2>1. SUFFICES ASSUME NEW k \in DOMAIN job, isPlan(k), NEW m, m = FindJob(ir, k).module
                 PROVE  /\ job'[k] = "success" => disk[PlanResource("plan_binary", m)] = [round |-> round, saw |-> saw[m]]
                        /\ build.apply /\ job'[k] # "waiting" => \A d \in dependenciesOf(m) : saw[m][d] = infra'[d]
    BY <1>1, <1>3, <1>6, <1>7 DEF PlansHold
  <2>2. job'[k] = job[k]
    BY <1>9, <1>10, <2>1
  <2>3. ASSUME job[k] # "waiting", NEW d \in dependenciesOf(m) PROVE saw[m][d] = infra'[d]
    <3>1. Validate(ir)
      BY <1>4 DEF CIInv, DocInv
    <3>2. job[jobName("apply", d)] = "success" /\ d \in build.targets
      BY <1>4, <1>10, <2>1, <2>3, <3>1, AppliedBefore
    <3>3. d # m0 /\ d \in AllModules
      BY <1>10, <3>2, BuildsAssumption DEF BuildInv, AllModules
    <3>. QED
      BY <1>4, <1>5, <1>10, <2>1, <2>3, <3>3 DEF PlansHold
  <2>. QED
    BY <1>4, <2>1, <2>2, <2>3 DEF PlansHold
<1>12. ReportsHold'
  <2>1. \A r : ReportHolds(r) => ReportHolds(r)'
    BY <1>3, <1>6, <1>7, <1>8, <1>9, <1>10 DEF ReportHolds
  <2>. QED
    BY <1>1, <1>4, <2>1 DEF ReportsHold
<1>. QED
  BY <1>6, <1>11, <1>12 DEF LocalInv

\* What reads plans runs when they are all made.
LEMMA CommandKeepsRound ==
  ASSUME BuildInv, CIInv, LocalInv, NEW n \in DOMAIN job, EndJob(n), RunCommands(n)
  PROVE  LocalInv'
<1>. DEFINE j == FindJob(ir, n)
            made(p) == [producer |-> p, round |-> round, of |-> IF j.consumes = <<>> THEN {} ELSE {scanned}]
<1>1. PICK published \in BOOLEAN :
        report' = [p \in DOMAIN report |-> IF published /\ p \in producersIn(j) THEN {made(p)} ELSE report[p]]
  BY DEF RunCommands
<1>2. PICK result \in {"success", "failed"} : job' = [job EXCEPT ![n] = result]
  BY DEF RunCommands
<1>3. /\ Ended(n, result) /\ build' = build /\ ir' = ir /\ round' = round /\ saw' = saw /\ disk' = disk /\ infra' = infra
      /\ j.kind = "command"
  BY <1>2 DEF EndJob, Ended, vars, RunCommands
<1>4. /\ RoundShape /\ TerraformFirst /\ PlansHold /\ ReportsHold /\ infra \in [AllModules -> Nat] /\ round \in Nat
      /\ stage = "done" /\ wanted = build.targets /\ DOMAIN job = JobNames(ir) /\ build \in LocalBuilds
  BY DEF LocalInv, RoundShape
<1>5. RoundShape' /\ TerraformFirst' /\ local' = "running" /\ DOMAIN job' = DOMAIN job
  BY <1>3, <1>4, EndedShape
<1>6. (\A k : isPlan(k)' = isPlan(k) /\ FindJob(ir, k)' = FindJob(ir, k)) /\ \A m : dependenciesOf(m)' = dependenciesOf(m)
  BY <1>3, SameIR
<1>7. scanned' = scanned
  BY <1>3, SameFiles
<1>8. \A k \in DOMAIN job : job'[k] = IF k = n THEN result ELSE job[k]
  BY <1>2
<1>9. ~isPlan(n) /\ job[n] = "running"
  BY <1>3 DEF isPlan, Ended
<1>10. PlansHold'
  <2>1. SUFFICES ASSUME NEW k \in DOMAIN job, isPlan(k), NEW m, m = FindJob(ir, k).module
                 PROVE  /\ job'[k] = "success" => disk[PlanResource("plan_binary", m)] = [round |-> round, saw |-> saw[m]]
                        /\ build.apply /\ job'[k] # "waiting" => \A d \in dependenciesOf(m) : saw[m][d] = infra[d]
    BY <1>3, <1>5, <1>6 DEF PlansHold
  <2>2. job'[k] = job[k]
    BY <1>8, <1>9, <2>1
  <2>. QED
    BY <1>4, <2>1, <2>2 DEF PlansHold
<1>11. ReportsHold'
  <2>1. ASSUME j.consumes # <<>>, NEW k \in DOMAIN job, isPlan(k) PROVE job[k] = "success"
    <3>1. Validate(ir)
      BY <1>4 DEF CIInv, DocInv
    <3>2. FindJob(ir, k).module \in wanted /\ k = jobName("plan", FindJob(ir, k).module)
      BY <1>4, <2>1, JobsOfIR DEF isPlan
    <3>3. k \in ToSet(j.deps)
      BY <1>3, <1>4, <2>1, <3>1, <3>2, ReadersWait
    <3>. QED
      BY <1>4, <1>9, <2>1, <3>3 DEF TerraformFirst, isPlan
  <2>2. \A k \in DOMAIN job : isPlan(k) => job'[k] = job[k]
    BY <1>8, <1>9
  <2>3. \A r : ReportHolds(r) => ReportHolds(r)'
    BY <1>3, <1>5, <1>6, <1>7, <2>2 DEF ReportHolds
  <2>4. \A r : r.round = round /\ (r.of = {} \/ (j.consumes # <<>> /\ r.of = {scanned})) => ReportHolds(r)'
    <3>. HIDE DEF j
    <3>. QED
      BY <1>3, <1>4, <1>5, <1>6, <1>7, <2>1, <2>2 DEF ReportHolds
  <2>5. \A p : made(p).round = round /\ (made(p).of = {} \/ (j.consumes # <<>> /\ made(p).of = {scanned}))
    OBVIOUS
  <2>. HIDE DEF made, j
  <2>6. \A p : \A r \in {made(p)} : ReportHolds(r)'
    BY <2>4, <2>5
  <2>7. SUFFICES ASSUME NEW p \in DOMAIN report, NEW r \in report'[p] PROVE ReportHolds(r)'
    BY <1>1 DEF ReportsHold
  <2>8. r \in {made(p)} \/ r \in report[p]
    BY <1>1, <2>7
  <2>. QED
    BY <1>4, <2>3, <2>6, <2>8 DEF ReportsHold
<1>. QED
  BY <1>5, <1>10, <1>11 DEF LocalInv

LEMMA StutterKeepsRound ==
  ASSUME LocalInv, UNCHANGED <<vars, ciVars, localVars>>
  PROVE  LocalInv'
<1>1. /\ build' = build /\ ir' = ir /\ stage' = stage /\ round' = round /\ saw' = saw /\ disk' = disk /\ infra' = infra
      /\ report' = report /\ job' = job /\ local' = local /\ shown' = shown
  BY DEF vars, localVars
<1>2. (\A n : isPlan(n)' = isPlan(n) /\ FindJob(ir, n)' = FindJob(ir, n)) /\ \A m : dependenciesOf(m)' = dependenciesOf(m)
  BY <1>1, SameIR
<1>3. wanted' = wanted /\ AllModules' = AllModules /\ scanned' = scanned /\ JobNames(ir)' = JobNames(ir)
  BY <1>1, SameIR, SameFiles
<1>4. RoundShape'
  BY <1>1, <1>3 DEF LocalInv, RoundShape, runningJobs
<1>5. TerraformFirst'
  BY <1>1 DEF LocalInv, TerraformFirst
<1>6. PlansHold'
  BY <1>1, <1>2 DEF LocalInv, PlansHold
<1>7. ReportsHold'
  BY <1>1, <1>2, <1>3 DEF LocalInv, ReportsHold, ReportHolds
<1>8. SelectCurrentReports' = SelectCurrentReports
  BY <1>1, <1>3 DEF SelectCurrentReports
<1>. QED
  BY <1>1, <1>4, <1>5, <1>6, <1>7, <1>8 DEF LocalInv

LEMMA BuildLeavesRequest == CINext => build' = build
<1>1. Next => build' = build
  BY DEF Next, PrepareModuleGraph, BuildJobs, ResolveResources, ValidateIR
<1>2. Generate => build' = build
  BY DEF Generate, vars
<1>3. \A p \in Pipelines : Push(p) => build' = build
  BY DEF Push, vars
<1>4. \A p \in Pipelines : \A n \in DOMAIN status[p] :
        Queue(p, n) \/ Start(p, n) \/ Finish(p, n) \/ Skip(p, n) => build' = build
  BY DEF Queue, Start, Finish, Skip, vars
<1>. QED
  BY <1>1, <1>2, <1>3, <1>4 DEF CINext

LEMMA StepKeepsRound == ASSUME BuildInv, CIInv, LocalInv, LocalNext PROVE LocalInv'
<1>1. CASE CINext /\ local = "idle" /\ UNCHANGED localVars
  <2>1. build' = build
    BY <1>1, BuildLeavesRequest
  <2>2. job' = Nothing /\ local' = "idle" /\ UNCHANGED <<round, saw, disk, infra, report>>
    BY <1>1 DEF CIInv, DocInv, localVars
  <2>. QED
    BY <2>1, <2>2, IdleKeepsRound
<1>2. CASE NextRound
  BY <1>2, IdleKeepsRound DEF NextRound, AllModules
<1>3. ASSUME NEW n \in DOMAIN job, EndJob(n) PROVE LocalInv'
  BY <1>3, PlanKeepsRound, ApplyKeepsRound, CommandKeepsRound DEF EndJob
<1>. QED
  BY <1>1, <1>2, <1>3, BeginKeepsRound, StartKeepsRound, EndKeepsRound DEF LocalNext

\* What holds of every round makes it a whole one.
LEMMA RoundIsWhole == ASSUME BuildInv, CIInv, LocalInv PROVE LocalRoundsAreWhole
<1>1. ASSUME NEW n \in runningJobs, FindJob(ir, n).kind = "apply", NEW m, m = FindJob(ir, n).module
      PROVE  LET plan == disk[PlanResource("plan_binary", m)]
             IN  plan.round = round /\ \A d \in dependenciesOf(m) : plan.saw[d] = infra[d]
  <2>1. /\ stage = "done" /\ wanted = build.targets /\ DOMAIN job = JobNames(ir) /\ n \in DOMAIN job
        /\ job[n] # "waiting" /\ TerraformFirst /\ PlansHold
    BY <1>1 DEF LocalInv, RoundShape, runningJobs
  <2>2. build.apply /\ m \in build.targets /\ FindJob(ir, n) = buildApplyJob(m)
    BY <1>1, <2>1, JobsOfIR
  <2>3. Validate(ir) /\ build \in Builds /\ GraphOk(subgraph) /\ Scoped(subgraph)
    BY <2>1 DEF CIInv, DocInv, BuildInv
  <2>. DEFINE k == jobName("plan", m)
  <2>4. k \in DOMAIN job /\ FindJob(ir, k) = buildPlanJob(m) /\ buildPlanJob(m).kind = "plan" /\ buildPlanJob(m).module = m
    BY <2>1, <2>2, <2>3, PlanByName DEF buildPlanJob
  <2>5. k \in ToSet(FindJob(ir, n).deps)
    BY <2>2, <2>3, TerraformDeps
  <2>. HIDE DEF k
  <2>6. job[k] = "success"
    BY <2>1, <2>4, <2>5 DEF TerraformFirst
  <2>7. /\ disk[PlanResource("plan_binary", m)] = [round |-> round, saw |-> saw[m]]
        /\ \A d \in dependenciesOf(m) : saw[m][d] = infra[d]
    BY <2>1, <2>2, <2>4, <2>6 DEF PlansHold, isPlan
  <2>. QED
    BY <2>7
<1>2. ASSUME local = "completed", NEW p \in DOMAIN report, NEW r \in report[p], r.round = round PROVE r \in shown
  <2>1. ReportHolds(r) /\ shown = SelectCurrentReports
    BY <1>2 DEF LocalInv, ReportsHold
  <2>. QED
    BY <1>2, <2>1 DEF ReportHolds, SelectCurrentReports
<1>. QED
  BY <1>1, <1>2 DEF LocalRoundsAreWhole

\* The rounds in a working copy, for any plugins, modules, dependencies, failures
\* and number of rounds: what is applied was planned in the round, after all that
\* its module depends on had been applied for the last time (usecase.go:168-220,
\* terraform.go:27-82), and no report of the round is stale when the round has
\* ended well (loader.go:59-84).
THEOREM LocalRounds == LocalSpec => []LocalRoundsAreWhole
<1>1. LocalInit => LocalInv
  <2>1. SUFFICES ASSUME LocalInit PROVE LocalInv
    OBVIOUS
  <2>2. /\ round = 0 /\ local = "idle" /\ job = Nothing /\ infra = [m \in AllModules |-> 0]
        /\ saw = [m \in AllModules |-> infra] /\ report = [p \in {"cost", "policy", "tfupdate"} |-> {}]
        /\ disk = [ref \in [kind : PlanKinds, module : AllModules, producer : {NoProducer}] |-> [round |-> 0, saw |-> infra]]
    BY <2>1 DEF LocalInit
  <2>3. DOMAIN job = {}
    BY <2>2 DEF Nothing
  <2>4. infra \in [AllModules -> Nat]
    BY <2>2
  <2>5. RoundShape
    BY <2>2, <2>3, <2>4 DEF RoundShape, runningJobs
  <2>. QED
    BY <2>2, <2>3, <2>5 DEF LocalInv, TerraformFirst, PlansHold, ReportsHold
<1>2. BuildInv /\ CIInv /\ LocalInv /\ [LocalNext]_<<vars, ciVars, localVars>> => LocalInv'
  BY StepKeepsRound, StutterKeepsRound
<1>3. BuildInv /\ CIInv /\ LocalInv => LocalRoundsAreWhole
  BY RoundIsWhole
<1>. QED
  BY BuildInvHolds, CIInvHolds, <1>1, <1>2, <1>3, PTL DEF LocalSpec
=============================================================================
