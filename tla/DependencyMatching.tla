------------------------- MODULE DependencyMatching -------------------------
(***************************************************************************)
(* Which module a remote state path means.  A path is the sequence of its  *)
(* elements; a module is its ID, the path of its directory.                *)
(***************************************************************************)
EXTENDS Naturals, SequencesExt

CONSTANTS
  Modules,       \* the indexed modules: what is left after filters
  SegmentCount   \* how many path elements the structure pattern has

ASSUME MatchingAssumption ==
  /\ IsFiniteSet(Modules)
  /\ SegmentCount \in Nat \ {0}
  /\ \A m \in Modules : m \in Seq(STRING) /\ Len(m) >= SegmentCount

NoTarget == <<>>   \* nil; no module has an empty path

\* "/terraform.tfstate" and ".tfstate" at the end are one thing here: an
\* element of its own, like "env:" in front.
NormalizeStatePath(path) ==
  LET body == IF Len(path) > 1 /\ Last(path) = "terraform.tfstate" THEN Front(path) ELSE path
  IN  IF Len(body) > 1 /\ Head(body) = "env:" THEN Tail(body) ELSE body

\* Module.ContextPrefix, LeafValue and IsSubmodule.
ContextPrefix(m) == SubSeq(m, 1, SegmentCount - 1)
LeafValue(m)     == m[SegmentCount]
IsSubmodule(m)   == Len(m) > SegmentCount

\* The paths tryTrailingMatch and tryContextMatch look up, in their order.
trailing(path, n) ==
  IF Len(path) < n THEN <<>> ELSE <<SubSeq(path, Len(path) - n + 1, Len(path))>>

contextual(path, from) ==
  LET near  == ContextPrefix(from) \o path
      below == ContextPrefix(from) \o <<LeafValue(from)>> \o path
  IN  IF Len(path) = 1 /\ IsSubmodule(from) THEN <<near, below>>
      ELSE IF Len(path) \in {1, 2} THEN <<near>>
      ELSE <<>>

MatchPathToModule(statePath, from) ==
  LET path  == NormalizeStatePath(statePath)
      tried == <<path>> \o trailing(path, 5) \o trailing(path, 4) \o contextual(path, from)
      first == CHOOSE i \in DOMAIN tried :
                 tried[i] \in Modules /\ \A j \in 1..(i - 1) : tried[j] \notin Modules
  IN  IF \E i \in DOMAIN tried : tried[i] \in Modules THEN tried[first] ELSE NoTarget

-----------------------------------------------------------------------------
\* A backend block: [type, bucket, key]; bucket "" and key <<>> when it does
\* not say.
NoIndexKey == <<>>

BackendIndexKey(b, m) ==
  IF b.bucket = "" THEN NoIndexKey
  ELSE <<b.type, b.bucket, IF b.key = <<>> THEN m ELSE NormalizeStatePath(b.key)>>

\* Mutant: the bucket is not looked at.
MatchByKeyAlone(items, type, bucket, statePath) ==
  LET hits == {k \in DOMAIN items : k[3] = NormalizeStatePath(statePath)}
  IN  IF type # "" /\ hits # {} THEN items[CHOOSE k \in hits : TRUE] ELSE NoTarget

\* items is the backend index: a function from such keys to modules.
MatchByBackend(items, type, bucket, statePath) ==
  LET key == <<type, bucket, NormalizeStatePath(statePath)>>
  IN  IF type # "" /\ bucket # "" /\ key \in DOMAIN items THEN items[key] ELSE NoTarget
=============================================================================
