----------------------------- MODULE GitHistory -----------------------------
(***************************************************************************)
(* plugins/git/internal/gitclient: which files a checkout has changed.     *)
(*                                                                         *)
(* A checkout is a record                                                  *)
(*   parents     per commit, its parents, which have smaller numbers       *)
(*   trees       per commit, the contents of every file, NoFile for none   *)
(*   refs        per full name, the commit; a name is its path below refs/ *)
(*   originHead  the branch refs/remotes/origin/HEAD points at, <<>>       *)
(*               without one: git clone makes one, a CI checkout does not  *)
(*   head        the commit that is checked out                            *)
(*   shallow     whether history has been cut off                          *)
(* A directory without a repository has no commits.  Reference strings are *)
(* records: a name, HEAD~n, a hash, or NoRef for none.                     *)
(***************************************************************************)
EXTENDS Naturals, Sequences, FiniteSets, SequencesExt

NoFile == 0
NoRef == [kind |-> "none"]
Name(n) == [kind |-> "name", name |-> n]
HeadBack(n) == [kind |-> "relative", back |-> n]
Hash(c) == [kind |-> "hash", commit |-> c]

defaultBaseRef == HeadBack(1)
openRepo(g) == DOMAIN g.parents

\* repo.Reference with symbolic references followed: a commit, or none
Reference(g, n) ==
  LET full == IF n = <<"remotes", "origin", "HEAD">> THEN <<"remotes", "origin">> \o g.originHead ELSE n
  IN  IF n = <<"HEAD">> THEN {g.head} ELSE IF full \in DOMAIN g.refs THEN {g.refs[full]} ELSE {}

\* The base that is asked for, or the first that there is of the remote's
\* default branch, origin/main and origin/master.
ResolveBaseRef(g, baseRef) ==
  LET branches == IF g.originHead # <<>> THEN <<g.originHead>>
                  ELSE SelectSeq(<<<<"main">>, <<"master">>>>,
                                 LAMBDA b : Reference(g, <<"remotes", "origin">> \o b) # {})
  IN  IF baseRef # NoRef THEN baseRef
      ELSE IF openRepo(g) = {} \/ branches = <<>> THEN defaultBaseRef
      ELSE Name(<<"origin">> \o branches[1])

\* The n-th first parent, or the commit without parents that is met before.
resolveHEADRelative(g, n) ==
  LET up[k \in 0..n] ==
        IF k = 0 THEN g.head ELSE IF g.parents[up[k - 1]] = <<>> THEN up[k - 1] ELSE g.parents[up[k - 1]][1]
  IN  up[n]

\* A local branch, a branch of the remote, a tag, or the name as it is: the
\* first that exists.  "HEAD" is looked up like any other name.
resolveRef(g, ref) ==
  LET remote == IF ref.name[1] = "origin" /\ Len(ref.name) > 1 THEN Tail(ref.name) ELSE ref.name
      found  == SelectSeq(<<<<"heads">> \o ref.name, <<"remotes", "origin">> \o remote, <<"tags">> \o ref.name, ref.name>>,
                          LAMBDA n : Reference(g, n) # {})
  IN  CASE ref.kind = "hash"     -> {ref.commit}
        [] ref.kind = "relative" -> {resolveHEADRelative(g, ref.back)}
        [] ref.kind = "name"     -> IF found = <<>> THEN {} ELSE Reference(g, found[1])

-----------------------------------------------------------------------------
\* The commit itself and all it descends from
history(g) ==
  LET of[c \in openRepo(g)] == {c} \cup UNION {of[p] : p \in ToSet(g.parents[c])} IN of

\* Commit.MergeBase: the common ancestors that no other one descends from
MergeBase(g, a, b) ==
  LET common == history(g)[a] \cap history(g)[b]
  IN  {c \in common : \A d \in common \ {c} : c \notin history(g)[d]}

\* A commit that is not in the repository has no ancestors.  Of several merge
\* bases the code takes the first.
getMergeBase(g, ref1, ref2) ==
  UNION {MergeBase(g, p[1], p[2]) : p \in (resolveRef(g, ref1) \X resolveRef(g, ref2)) \cap (openRepo(g) \X openRepo(g))}

\* The paths of what was added, removed or modified
diffCommits(g, base, head) == {f \in DOMAIN g.trees[head] : g.trees[base][f] # g.trees[head][f]}

\* Mutant: what the base has changed since counts as well.
getChangedFromTip(g, baseRef) ==
  IF openRepo(g) = {} \/ g.shallow THEN {}
  ELSE {diffCommits(g, b, g.head) : b \in resolveRef(g, baseRef) \cap openRepo(g)}

\* The sets of files that may come out; none is an error.  Without a merge base
\* the base reference itself is compared with.
GetChangedFiles(g, baseRef) ==
  LET bases == getMergeBase(g, baseRef, Name(<<"HEAD">>))
  IN  IF openRepo(g) = {} \/ g.shallow THEN {}
      ELSE {diffCommits(g, b, g.head) : b \in (IF bases # {} THEN bases ELSE resolveRef(g, baseRef)) \cap openRepo(g)}
=============================================================================
