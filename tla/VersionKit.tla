----------------------------- MODULE VersionKit -----------------------------
(***************************************************************************)
(* Versions and version constraints.  A version is the sequence of its     *)
(* major, minor and patch number and 1, or 0 for a prerelease; a           *)
(* constraint is a sequence of terms [op, v, parts], parts being how many  *)
(* numbers its version was written with.                                   *)
(***************************************************************************)
EXTENDS Sequences, SequencesExt, FiniteSets, FiniteSetsExt, Naturals

V(major, minor, patch) == <<major, minor, patch, 1>>
Zero == V(0, 0, 0)
Term(op, v, parts) == [op |-> op, v |-> v, parts |-> parts]

\* Compare
Less(v, w) == \E i \in 1..4 : v[i] < w[i] /\ \A j \in 1..(i - 1) : v[j] = w[j]
AtMost(v, w) == v = w \/ Less(v, w)
isPrerelease(v) == v[4] = 0
newest(S) == CHOOSE v \in S : \A w \in S : AtMost(w, v)

Satisfies(c, v) ==
  CASE c.op = "="  -> v = c.v
    [] c.op = "!=" -> v # c.v
    [] c.op = ">"  -> Less(c.v, v)
    [] c.op = ">=" -> AtMost(c.v, v)
    [] c.op = "<"  -> Less(v, c.v)
    [] c.op = "<=" -> AtMost(v, c.v)
    [] c.op = "~>" -> /\ AtMost(c.v, v)
                      /\ v[1] = c.v[1]
                      /\ c.parts > 2 => v[2] = c.v[2]

SatisfiesAll(v, constraint) == \A c \in Range(constraint) : Satisfies(c, v)

\* How far a version may be from the current one.
withinBump(current, v, bump) ==
  \/ bump = "major"
  \/ bump = "minor" /\ v[1] = current[1]
  \/ bump = "patch" /\ v[1] = current[1] /\ v[2] = current[2]

\* A single term keeps its operator and its number of parts; anything else
\* becomes "~> major.minor".
BumpConstraint(constraint, v) ==
  LET c == constraint[1]
      two == <<v[1], v[2], 0, 1>>
      three == <<v[1], v[2], v[3], 1>>
  IN  IF constraint = <<>> THEN constraint
      ELSE IF Len(constraint) = 1 /\ c.op \in {"~>", "=", ">="}
        THEN IF c.parts <= 2 THEN <<Term(c.op, two, 2)>> ELSE <<Term(c.op, three, 3)>>
        ELSE <<Term("~>", two, 2)>>

\* Terms are rewritten with three numbers, but for "~> 5.0", and kept once.
MergeConstraints(root, extras) ==
  LET normalized(c) == IF c.op = "~>" /\ c.parts <= 2 THEN [c EXCEPT !.parts = 2] ELSE [c EXCEPT !.parts = 3]
  IN  FoldSet(LAMBDA c, terms : Append(terms, c), <<>>,
              {normalized(c) : c \in Range(root) \cup UNION {Range(e) : e \in extras}})

isExactConstraint(constraint, v) == Len(constraint) = 1 /\ constraint[1].op = "=" /\ constraint[1].v = v
versionFromConstraint(constraint) == IF constraint = <<>> THEN Zero ELSE constraint[1].v
=============================================================================
