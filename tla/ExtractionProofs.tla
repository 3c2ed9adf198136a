--------------------------- MODULE ExtractionProofs ---------------------------
(***************************************************************************)
(* Theorems about DependencyExtraction for any modules, files, limit and   *)
(* segment count, with or without failing I/O and cancellation.            *)
(*                                                                         *)
(* The backend index may miss entries, but those it has are honest: a key  *)
(* leads to a module whose files say that key.  A result was computed from *)
(* some honest index, and its errors have been recorded.  That is enough:  *)
(* a path an incomplete index does not resolve is an error, so a result    *)
(* without errors is what the complete index would have given.             *)
(***************************************************************************)
EXTENDS DependencyExtraction, FiniteSetTheorems, SequenceTheorems, TLAPS

Honest(idx) ==
  \A k \in DOMAIN idx :
    /\ idx[k] \in Modules \ files.broken
    /\ BackendIndexKey(files.backend[idx[k]], idx[k]) = k
    /\ k # NoIndexKey

IndexInv == Honest(items)

FromHonestIndex(m) ==
  \E idx : /\ Honest(idx)
           /\ results[m] = SessionResult(files, idx, m)
           /\ SessionErrors(files, idx, m) \subseteq errors

ResultInv == \A m \in DOMAIN results : FromHonestIndex(m)

started(m) == \E i \in 1..(next - 1) : Order[i] = m

\* Whoever was started in the second pass is running, done, or reported.
AccountInv ==
  /\ \A m \in Modules : worker[m] # "none" => started(m)
  /\ \A m \in Modules : worker[m] = "parsed" => m \in cache
  /\ pass = "extract" =>
       \A m \in Modules : started(m) =>
         m \in running \/ m \in DOMAIN results \/ ParseError(m) \in errors
  /\ pass = "done" =>
       \A m \in Modules : m \in DOMAIN results \/ ParseError(m) \in errors

Types ==
  /\ files \in Repos
  /\ pass \in {"index", "extract", "done"}
  /\ next \in 1..Len(Order) + 1
  /\ worker \in [Modules -> {"none", "started", "parsed", "failed"}]
  /\ cache \subseteq Modules \ files.broken
  /\ DOMAIN results \subseteq cache
  /\ results = [m \in DOMAIN results |-> results[m]]

Inv == Types /\ IndexInv /\ ResultInv /\ AccountInv

-----------------------------------------------------------------------------
LEMMA OrderFacts ==
  /\ Order \in Seq(Modules)
  /\ Len(Order) \in Nat
  /\ DOMAIN Order = 1..Len(Order)
  /\ \A i \in 1..Len(Order) : Order[i] \in Modules
  /\ \A m \in Modules : \E i \in 1..Len(Order) : Order[i] = m
<1>1. Order \in Seq(Modules)
  BY ExtractionAssumption
<1> QED
  BY <1>1, ExtractionAssumption DEF ToSet

LEMMA InitInv == ASSUME Init PROVE Inv
<1>1. Types
  BY OrderFacts DEF Init, Types, NoFunction
<1>2. IndexInv /\ ResultInv
  BY DEF Init, IndexInv, ResultInv, Honest, NoFunction
<1>3. AccountInv
  BY DEF Init, AccountInv
<1> QED
  BY <1>1, <1>2, <1>3 DEF Inv

\* Results, errors and files as they were: the results stay justified.
LEMMA SameResults ==
  ASSUME Inv, UNCHANGED <<files, results, errors>>
  PROVE  ResultInv'
BY DEF Inv, ResultInv, FromHonestIndex, Honest

LEMMA SameIndex == ASSUME Inv, UNCHANGED <<files, items>> PROVE IndexInv'
BY DEF Inv, IndexInv, Honest

LEMMA StartInv == ASSUME Inv, Start PROVE Inv'
<1> USE OrderFacts
<1>1. Types'
  BY DEF Inv, Types, Start
<1>2. IndexInv' /\ ResultInv'
  BY SameIndex, SameResults DEF Start
<1>3. AccountInv'
  <2>1. next \in Nat /\ next' = next + 1 /\ Order[next] \in Modules
    BY DEF Inv, Types, Start
  <2>2. \A m \in Modules : started(m)' <=> started(m) \/ m = Order[next]
    <3>1. next \in Nat \ {0} /\ next' - 1 = next
      BY <2>1 DEF Inv, Types
    <3>2. 1..next = (1..(next - 1)) \cup {next}
      BY <3>1
    <3> QED
      BY <3>1, <3>2 DEF started
  <2>3. \A m \in Modules : worker'[m] = IF m = Order[next] THEN "started" ELSE worker[m]
    BY DEF Start, Inv, Types
  <2> QED
    BY <2>1, <2>2, <2>3 DEF Start, Inv, AccountInv, running, ParseError
<1> QED
  BY <1>1, <1>2, <1>3 DEF Inv

LEMMA GetInv == ASSUME Inv, NEW m \in Modules, Get(m) PROVE Inv'
<1>1. Types'
  BY DEF Inv, Types, Get
<1>2. IndexInv' /\ ResultInv'
  BY SameIndex, SameResults DEF Get
<1>3. AccountInv'
  BY DEF Get, Inv, Types, AccountInv, started, running, ParseError
<1> QED
  BY <1>1, <1>2, <1>3 DEF Inv

LEMMA IndexBackendInv == ASSUME Inv, NEW m \in Modules, IndexBackend(m) PROVE Inv'
<1>1. Types'
  BY DEF Inv, Types, IndexBackend
<1>2. ResultInv'
  BY SameResults DEF IndexBackend
<1>3. AccountInv'
  BY DEF IndexBackend, Inv, Types, AccountInv, started, running, ParseError
<1>4. IndexInv'
  <2>1. CASE worker[m] = "failed" \/ BackendIndexKey(files.backend[m], m) = NoIndexKey
    BY <2>1, SameIndex DEF IndexBackend
  <2>2. CASE ~(worker[m] = "failed" \/ BackendIndexKey(files.backend[m], m) = NoIndexKey)
    <3> DEFINE key == BackendIndexKey(files.backend[m], m)
    <3>1. key # NoIndexKey /\ m \in Modules \ files.broken
      BY <2>2 DEF IndexBackend, Inv, Types, AccountInv
    <3>2. items' = [k \in DOMAIN items \cup {key} |-> IF k = key THEN m ELSE items[k]]
      BY <2>2 DEF IndexBackend
    <3>3. files' = files /\ key = BackendIndexKey(files.backend[m], m)
      BY DEF IndexBackend
    <3> HIDE DEF key
    <3> QED
      BY <3>1, <3>2, <3>3 DEF Inv, IndexInv, Honest
  <2> QED
    BY <2>1, <2>2
<1> QED
  BY <1>1, <1>2, <1>3, <1>4 DEF Inv

LEMMA CollectInv == ASSUME Inv, NEW m \in Modules, Collect(m) PROVE Inv'
<1>1. Types'
  BY DEF Inv, Types, AccountInv, Collect
<1>2. IndexInv'
  BY SameIndex DEF Collect
<1>3. ResultInv'
  <2>1. errors \subseteq errors' /\ files' = files
    BY DEF Collect
  <2>2. \A n \in DOMAIN results : results'[n] = results[n] => FromHonestIndex(n)'
    BY <2>1 DEF Inv, ResultInv, FromHonestIndex, Honest
  <2>3. CASE worker[m] = "failed"
    BY <2>2, <2>3 DEF Collect, ResultInv
  <2>4. CASE worker[m] = "parsed"
    <3>1. Honest(items)' /\ items' = items
      BY SameIndex DEF Collect, IndexInv
    <3>2. results'[m] = SessionResult(files, items, m)
      BY <2>4 DEF Collect
    <3>3. SessionErrors(files, items, m) \subseteq errors'
      BY <2>4 DEF Collect
    <3>4. FromHonestIndex(m)'
      BY <2>1, <3>1, <3>2, <3>3 DEF FromHonestIndex, Honest
    <3> QED
      BY <2>2, <2>4, <3>4 DEF Collect, ResultInv
  <2> QED
    BY <2>3, <2>4 DEF Collect
<1>4. AccountInv'
  BY DEF Collect, Inv, Types, AccountInv, started, running
<1> QED
  BY <1>1, <1>2, <1>3, <1>4 DEF Inv

LEMMA EndPassInv == ASSUME Inv, EndPass PROVE Inv'
<1> USE OrderFacts
<1>1. Types'
  BY DEF Inv, Types, EndPass
<1>2. IndexInv' /\ ResultInv'
  BY SameIndex, SameResults DEF EndPass
<1>3. AccountInv'
  <2>1. \A m \in Modules : worker'[m] = "none"
    BY DEF EndPass, running
  <2>2. CASE pass = "index"
    <3>1. \A m \in Modules : ~started(m)'
      BY <2>2 DEF EndPass, started
    <3> QED
      BY <2>1, <2>2, <3>1 DEF EndPass, AccountInv
  <2>3. CASE pass = "extract"
    <3>1. next = Len(Order) + 1
      BY DEF EndPass, Inv, Types
    <3>2. \A m \in Modules : started(m)
      BY <3>1 DEF started
    <3> QED
      BY <2>1, <2>3, <3>2 DEF EndPass, Inv, AccountInv, ParseError, running
  <2> QED
    BY <2>2, <2>3 DEF EndPass
<1> QED
  BY <1>1, <1>2, <1>3 DEF Inv

LEMMA StutterInv ==
  ASSUME Inv, UNCHANGED <<files, pass, next, worker, cache, items, results, errors>>
  PROVE  Inv'
<1>1. Types'
  BY DEF Inv, Types
<1>2. IndexInv' /\ ResultInv'
  BY SameIndex, SameResults
<1>3. AccountInv'
  BY DEF Inv, AccountInv, started, running, ParseError
<1> QED
  BY <1>1, <1>2, <1>3 DEF Inv

\* The inductive invariant holds of every reachable state.
THEOREM InvHolds == Spec => []Inv
<1>1. Inv /\ [Next]_vars => Inv'
  BY StartInv, GetInv, IndexBackendInv, CollectInv, EndPassInv, StutterInv
     DEF Next, Step, Cancel, vars
<1> QED
  BY InitInv, <1>1, PTL DEF Spec

-----------------------------------------------------------------------------
\* With distinct keys an honest index is a restriction of the full one.
LEMMA HonestIndexIsPartOfTheFullOne ==
  ASSUME KeysAreDistinct, NEW idx, Honest(idx), NEW k \in DOMAIN idx
  PROVE  k \in DOMAIN FullIndex /\ FullIndex[k] = idx[k]
<1> DEFINE keyOf(t) == BackendIndexKey(files.backend[t], t)
           owners   == {t \in Modules \ files.broken : keyOf(t) # NoIndexKey}
<1>1. idx[k] \in owners /\ keyOf(idx[k]) = k
  BY DEF Honest
<1>2. FullIndex = [x \in {keyOf(t) : t \in owners} |-> CHOOSE t \in owners : keyOf(t) = x]
  BY DEF FullIndex
<1>3. \A t \in owners, u \in owners : keyOf(t) = keyOf(u) => t = u
  <2> SUFFICES ASSUME NEW t \in owners, NEW u \in owners, keyOf(t) = keyOf(u)
               PROVE  t = u
    OBVIOUS
  <2>1. files.backend[u].bucket # ""
    BY DEF BackendIndexKey
  <2>2. files.backend[t].bucket # ""
    BY DEF BackendIndexKey
  <2>3. Owners(files.backend[u].type, files.backend[u].bucket, stateOf(u)) = {u}
    BY <2>1 DEF KeysAreDistinct
  <2>4. t \in Owners(files.backend[u].type, files.backend[u].bucket, stateOf(u))
    BY <2>1, <2>2 DEF Owners, BackendIndexKey, stateOf
  <2> QED
    BY <2>3, <2>4
<1> HIDE DEF keyOf
<1> QED
  BY <1>1, <1>2, <1>3

\* A session that has no errors gives what it would give with the full index.
LEMMA NoErrorsNoDifference ==
  ASSUME KeysAreDistinct, NEW idx, Honest(idx), NEW m \in Modules,
         SessionErrors(files, idx, m) = {}
  PROVE  SessionResult(files, idx, m) = SessionResult(files, FullIndex, m)
<1>1. \A x \in pathsOf(files, m) : targetOf(files, idx, m, x) # NoTarget
  BY DEF SessionErrors
<1>2. ASSUME NEW x \in pathsOf(files, m)
      PROVE  targetOf(files, idx, m, x) = targetOf(files, FullIndex, m, x)
  <2> DEFINE ref  == files.refs[m][x[1]]
             path == MatchPathToModule(x[2], m)
             key  == <<ref.type, ref.bucket, NormalizeStatePath(x[2])>>
  <2>1. x[2] # Dynamic
    BY <1>1, <1>2 DEF targetOf
  <2>2. CASE path # NoTarget
    BY <2>1, <2>2 DEF targetOf, Resolve
  <2>3. CASE path = NoTarget
    <3>1. targetOf(files, idx, m, x) = MatchByBackend(idx, ref.type, ref.bucket, x[2])
      BY <2>1, <2>3 DEF targetOf, Resolve
    <3>2. targetOf(files, FullIndex, m, x)
            = MatchByBackend(FullIndex, ref.type, ref.bucket, x[2])
      BY <2>1, <2>3 DEF targetOf, Resolve
    <3>3. ref.type # "" /\ ref.bucket # "" /\ key \in DOMAIN idx
      BY <1>1, <1>2, <3>1 DEF MatchByBackend
    <3>4. key \in DOMAIN FullIndex /\ FullIndex[key] = idx[key]
      BY <3>3, HonestIndexIsPartOfTheFullOne
    <3> HIDE DEF ref
    <3> QED
      BY <3>1, <3>2, <3>3, <3>4 DEF MatchByBackend
  <2> QED
    BY <2>2, <2>3
<1> QED
  BY <1>2 DEF SessionResult

\* An extraction without warnings is complete (backend_index.go:35-37,
\* session.go:119-124): an entry missing from the index either is not needed or
\* leaves an error.
THEOREM CleanIsComplete == Spec => []CleanMeansComplete
<1>1. Inv => CleanMeansComplete
  <2> SUFFICES ASSUME Inv, pass = "done", errors = {}, KeysAreDistinct PROVE Complete
    BY DEF CleanMeansComplete
  <2>1. DOMAIN results = Modules \ files.broken
    BY DEF Inv, Types, AccountInv
  <2>2. ASSUME NEW m \in DOMAIN results
        PROVE  results[m] = SessionResult(files, FullIndex, m)
    <3>1. PICK idx : /\ Honest(idx)
                     /\ results[m] = SessionResult(files, idx, m)
                     /\ SessionErrors(files, idx, m) \subseteq errors
      BY DEF Inv, ResultInv, FromHonestIndex
    <3>2. SessionErrors(files, idx, m) = {}
      BY <3>1
    <3>3. m \in Modules
      BY <2>1
    <3> QED
      BY <3>1, <3>2, <3>3, NoErrorsNoDifference
  <2>3. results = [m \in DOMAIN results |-> results[m]]
    BY DEF Inv, Types
  <2> QED
    BY <2>1, <2>2, <2>3 DEF Complete
<1> QED
  BY <1>1, InvHolds, PTL

-----------------------------------------------------------------------------
\* group.Go waits for a free place, and nothing else starts a goroutine
\* (collection_runner.go:20-24): the types, with the bound.
THEOREM TypeCorrect == Spec => []TypeOK
<1> DEFINE Bounded == Cardinality(running) <= Limit
<1>1. \A S \in SUBSET Modules : IsFiniteSet(S) /\ Cardinality(S) \in Nat
  BY MatchingAssumption, FS_Subset, FS_CardinalityType
<1>2. Init => Bounded
  <2> SUFFICES ASSUME Init PROVE Bounded
    OBVIOUS
  <2>1. running = {}
    BY DEF Init, running
  <2> QED
    BY <2>1, FS_EmptySet, ExtractionAssumption
<1>3. Inv /\ Inv' /\ Bounded /\ [Next]_vars => Bounded'
  <2> SUFFICES ASSUME Inv, Inv', Bounded, [Next]_vars PROVE Bounded'
    OBVIOUS
  <2>1. running \in SUBSET Modules /\ running' \in SUBSET Modules
    BY DEF running
  <2>2. ASSUME running' \subseteq running PROVE Bounded'
    <3>1. Cardinality(running') <= Cardinality(running)
      BY <1>1, <2>1, <2>2, FS_Subset
    <3> QED
      BY <1>1, <2>1, <3>1, ExtractionAssumption
  <2>3. CASE Start
    <3>1. running' \subseteq running \cup {Order[next]}
      BY <2>3, OrderFacts DEF Start, Inv, Types, running
    <3>2. Cardinality(running \cup {Order[next]}) <= Cardinality(running) + 1
      <4>1. IsFiniteSet(running) /\ Cardinality(running) \in Nat
        BY <1>1, <2>1
      <4>2. CASE Order[next] \in running
        <5>1. running \cup {Order[next]} = running
          BY <4>2
        <5> QED
          BY <4>1, <5>1
      <4>3. CASE Order[next] \notin running
        BY <4>1, <4>3, FS_AddElement
      <4> QED
        BY <4>2, <4>3
    <3>3. /\ IsFiniteSet(running \cup {Order[next]})
          /\ Cardinality(running \cup {Order[next]}) \in Nat
      BY <1>1, <2>1, FS_AddElement, FS_CardinalityType
    <3>4. Cardinality(running') <= Cardinality(running \cup {Order[next]})
      BY <3>1, <3>3, FS_Subset
    <3>5. Cardinality(running) < Limit
      BY <2>3 DEF Start
    <3> QED
      BY <1>1, <2>1, <3>2, <3>3, <3>4, <3>5, ExtractionAssumption
  <2>4. CASE EndPass \/ Cancel \/ UNCHANGED vars
    BY <2>2, <2>4 DEF EndPass, Cancel, vars, running
  <2>5. CASE \E m \in Modules : Get(m) \/ IndexBackend(m) \/ Collect(m)
    <3> PICK m \in Modules : Get(m) \/ IndexBackend(m) \/ Collect(m)
      BY <2>5
    <3>1. \A n \in Modules : worker'[n] # "none" => worker[n] # "none"
      BY DEF Get, IndexBackend, Collect, Inv, Types
    <3> QED
      BY <2>2, <3>1 DEF running
  <2> QED
    BY <2>3, <2>4, <2>5 DEF Next, Step
<1>4. Inv /\ Bounded => TypeOK
  BY DEF Inv, Types, IndexInv, Honest, TypeOK
<1> HIDE DEF Bounded
<1> QED
  BY <1>2, <1>3, <1>4, InvHolds, PTL DEF Spec

-----------------------------------------------------------------------------
LEMMA NormalizedIsAPath ==
  ASSUME NEW p \in Seq(STRING), p # <<>>
  PROVE  NormalizeStatePath(p) \in Seq(STRING) /\ NormalizeStatePath(p) # <<>>
<1> DEFINE body == IF Len(p) > 1 /\ Last(p) = "terraform.tfstate" THEN Front(p) ELSE p
<1>1. body \in Seq(STRING) /\ Len(body) >= 1
  <2>1. Len(p) \in Nat \ {0}
    OBVIOUS
  <2>2. CASE Len(p) > 1 /\ Last(p) = "terraform.tfstate"
    <3>1. \A i \in 1..(Len(p) - 1) : p[i] \in STRING
      BY <2>1
    <3>2. /\ SubSeq(p, 1, Len(p) - 1) \in Seq(STRING)
          /\ Len(SubSeq(p, 1, Len(p) - 1)) = Len(p) - 1
      BY <2>1, <2>2, <3>1, SubSeqProperties
    <3> QED
      BY <2>1, <2>2, <3>2 DEF Front
  <2> QED
    BY <2>1, <2>2
<1> HIDE DEF body
<1>2. Len(<<>>) = 0 /\ Len(body) \in Nat /\ body # <<>>
  BY <1>1
<1>3. Tail(body) \in Seq(STRING) /\ Len(Tail(body)) = Len(body) - 1
  BY <1>1, <1>2, HeadTailProperties
<1>4. Len(body) > 1 => Tail(body) # <<>>
  <2>1. Tail(body) = <<>> => Len(Tail(body)) = 0
    BY <1>2
  <2> QED
    BY <1>2, <1>3, <2>1
<1> DEFINE prefixed == Len(body) > 1 /\ Head(body) = "env:"
<1>5. NormalizeStatePath(p) = IF prefixed THEN Tail(body) ELSE body
  BY Zenon DEF NormalizeStatePath, body
<1>6. prefixed => Len(body) > 1
  OBVIOUS
<1> HIDE DEF prefixed
<1> QED
  BY <1>1, <1>2, <1>3, <1>4, <1>5, <1>6

\* The modules a normalised path may mean in m's files, as far as paths go.
Meant(path, m) ==
  {t \in Seq(STRING) : \/ EndsWith(path, t)
                       \/ EndsWith(t, path) /\ ContextPrefix(t) = ContextPrefix(m)}

LEMMA TrailingIsMeant ==
  ASSUME NEW path \in Seq(STRING), NEW n \in 4..5, NEW m
  PROVE  trailing(path, n) \in Seq(Meant(path, m)) /\ Len(trailing(path, n)) <= 1
<1>1. Len(path) \in Nat /\ \A i \in 1..Len(path) : path[i] \in STRING
  OBVIOUS
<1>2. CASE Len(path) < n
  BY <1>2 DEF trailing
<1>3. CASE ~(Len(path) < n)
  <2> DEFINE k == Len(path) - n + 1
  <2>1. k \in 1..(Len(path) + 1)
    BY <1>1, <1>3
  <2>2. SubSeq(path, k, Len(path)) \in Seq(STRING)
    BY <1>1, <2>1, SubSeqProperties
  <2>3. SubSeq(path, k, Len(path)) \in Meant(path, m)
    BY <2>1, <2>2 DEF Meant, EndsWith
  <2> QED
    BY <1>3, <2>3 DEF trailing
<1> QED
  BY <1>2, <1>3

\* What a concatenation begins and ends with.
LEMMA ConcatParts ==
  ASSUME NEW s \in Seq(STRING), NEW t \in Seq(STRING), t # <<>>
  PROVE  EndsWith(s \o t, t) /\ SubSeq(s \o t, 1, Len(s)) = s
<1>1. /\ s \o t \in Seq(STRING)
      /\ Len(s \o t) = Len(s) + Len(t)
      /\ Len(s) \in Nat /\ Len(t) \in Nat \ {0}
  BY ConcatProperties
<1>2. SubSeq(s \o t, Len(s) + 1, Len(s) + Len(t)) = SubSeq(t, 1, Len(t))
  BY <1>1, SubSeqOfConcat2
<1>3. EndsWith(s \o t, t)
  <2>1. SubSeq(t, 1, Len(t)) = t
    BY SubSeqFull
  <2>2. Len(s) + 1 \in 1..(Len(s \o t) + 1)
    BY <1>1
  <2> QED
    BY <1>1, <1>2, <2>1, <2>2 DEF EndsWith
<1>4. SubSeq(s \o t, 1, Len(s)) = s
  <2>1. CASE s = <<>>
    BY <1>1, <2>1, SubSeqEmpty
  <2>2. CASE s # <<>>
    <3>1. SubSeq(s \o t, 1, Len(s)) = SubSeq(s, 1, Len(s))
      BY <1>1, <2>2, SubSeqOfConcat1
    <3> QED
      BY <3>1, SubSeqFull
  <2> QED
    BY <2>1, <2>2
<1> QED
  BY <1>3, <1>4

LEMMA ContextualIsMeant ==
  ASSUME NEW path \in Seq(STRING), path # <<>>, NEW m \in Modules
  PROVE  contextual(path, m) \in Seq(Meant(path, m)) /\ Len(contextual(path, m)) <= 2
<1> DEFINE ctx == ContextPrefix(m)
<1>1. m \in Seq(STRING) /\ Len(m) >= SegmentCount /\ SegmentCount \in Nat \ {0}
  BY MatchingAssumption
<1>2. ctx \in Seq(STRING) /\ Len(ctx) = SegmentCount - 1
  <2>1. \A j \in 1..(SegmentCount - 1) : m[j] \in STRING
    BY <1>1
  <2>2. /\ SubSeq(m, 1, SegmentCount - 1) \in Seq(STRING)
        /\ Len(SubSeq(m, 1, SegmentCount - 1)) =
             IF 1 <= SegmentCount - 1 THEN SegmentCount - 1 - 1 + 1 ELSE 0
    BY <1>1, <2>1, SubSeqProperties
  <2> QED
    BY <1>1, <2>2 DEF ContextPrefix
<1>3. LeafValue(m) \in STRING
  BY <1>1 DEF LeafValue
<1> HIDE DEF ctx
<1>4. ASSUME NEW rest \in Seq(STRING), rest # <<>>
      PROVE  ContextPrefix(ctx \o rest) = ctx /\ EndsWith(ctx \o rest, rest)
  BY <1>2, <1>4, ConcatParts DEF ContextPrefix
<1> DEFINE leaf == <<LeafValue(m)>> \o path
<1>5. leaf \in Seq(STRING) /\ leaf # <<>> /\ (ctx \o <<LeafValue(m)>>) \o path = ctx \o leaf
  <2>1. <<LeafValue(m)>> \in Seq(STRING)
    BY <1>3
  <2>2. leaf \in Seq(STRING) /\ Len(leaf) = 1 + Len(path) /\ Len(path) \in Nat
    BY <2>1, ConcatProperties
  <2>3. (ctx \o <<LeafValue(m)>>) \o path = ctx \o leaf
    BY <2>1, <1>2, ConcatAssociative
  <2> QED
    BY <2>2, <2>3
<1>6. EndsWith(ctx \o leaf, path)
  <2>1. ((ctx \o <<LeafValue(m)>>) \o path) = ctx \o leaf
    BY <1>5
  <2>2. ctx \o <<LeafValue(m)>> \in Seq(STRING)
    BY <1>2, <1>3
  <2> QED
    BY <2>1, <2>2, ConcatParts
<1>7. ctx \o path \in Meant(path, m) /\ ctx \o leaf \in Meant(path, m)
  BY <1>2, <1>4, <1>5, <1>6, ConcatProperties DEF Meant, ctx
<1>8. contextual(path, m) \in {<<ctx \o path>>, <<ctx \o path, ctx \o leaf>>, <<>>}
  <2>1. (ctx \o <<LeafValue(m)>>) \o path = ctx \o leaf
    BY <1>5
  <2> HIDE DEF leaf
  <2> QED
    BY <2>1 DEF contextual, ctx
<1> DEFINE M == Meant(path, m)
           a == ctx \o path
           b == ctx \o leaf
<1>9. a \in M /\ b \in M
  BY <1>7
<1>10. contextual(path, m) \in {<<a>>, <<a, b>>, <<>>}
  BY <1>8
<1> HIDE DEF M, a, b
<1>11. contextual(path, m) \in Seq(M) /\ Len(contextual(path, m)) <= 2
  <2>1. <<a>> \in Seq(M) /\ Len(<<a>>) = 1
    BY <1>9
  <2>2. <<a, b>> \in Seq(M) /\ Len(<<a, b>>) = 2
    BY <1>9
  <2>3. <<>> \in Seq(M) /\ Len(<<>>) = 0
    OBVIOUS
  <2>4. CASE contextual(path, m) = <<a>>
    BY <2>1, <2>4
  <2>5. CASE contextual(path, m) = <<a, b>>
    BY <2>2, <2>5
  <2>6. CASE contextual(path, m) = <<>>
    BY <2>3, <2>6
  <2> QED
    BY <1>10, <2>4, <2>5, <2>6
<1> QED
  BY <1>11 DEF M

LEMMA LeastOfFive ==
  ASSUME NEW I \in SUBSET (1..5), I # {}
  PROVE  \E i \in I : \A j \in 1..(i - 1) : j \notin I
<1>1. CASE 1 \in I
  BY <1>1
<1>2. CASE 1 \notin I /\ 2 \in I
  BY <1>2
<1>3. CASE 1 \notin I /\ 2 \notin I /\ 3 \in I
  BY <1>3
<1>4. CASE 1 \notin I /\ 2 \notin I /\ 3 \notin I /\ 4 \in I
  BY <1>4
<1>5. CASE 1 \notin I /\ 2 \notin I /\ 3 \notin I /\ 4 \notin I
  <2>1. 5 \in I
    <3>1. PICK k \in I : k \in 1..5
      OBVIOUS
    <3>2. k = 5
      BY <1>5, <3>1
    <3> QED
      BY <3>1, <3>2
  <2>2. \A j \in 1..(5 - 1) : j \notin I
    BY <1>5
  <2> QED
    BY <2>1, <2>2
<1> QED
  BY <1>1, <1>2, <1>3, <1>4, <1>5

\* What MatchPathToModule returns is a module the path may mean.
LEMMA MatchIsMeant ==
  ASSUME NEW p \in Seq(STRING), p # <<>>, NEW m \in Modules,
         MatchPathToModule(p, m) # NoTarget
  PROVE  MatchPathToModule(p, m) \in Modules \cap Meant(NormalizeStatePath(p), m)
<1> DEFINE path  == NormalizeStatePath(p)
           M     == Meant(path, m)
           five  == trailing(path, 5)
           four  == trailing(path, 4)
           near  == contextual(path, m)
           tried == <<path>> \o five \o four \o near
           hit(i) == tried[i] \in Modules /\ \A j \in 1..(i - 1) : tried[j] \notin Modules
<1>1. path \in Seq(STRING) /\ path # <<>>
  BY NormalizedIsAPath
<1>2. five \in Seq(M) /\ Len(five) <= 1 /\ four \in Seq(M) /\ Len(four) <= 1
  BY <1>1, TrailingIsMeant
<1>3. near \in Seq(M) /\ Len(near) <= 2
  BY <1>1, ContextualIsMeant
<1>4. <<path>> \in Seq(M) /\ Len(<<path>>) = 1
  <2>1. SubSeq(path, 1, Len(path)) = path /\ Len(path) \in Nat
    BY <1>1, SubSeqFull
  <2>2. path \in M
    BY <1>1, <2>1 DEF EndsWith, Meant
  <2> QED
    BY <2>2
<1>5. MatchPathToModule(p, m) = IF \E i \in DOMAIN tried : tried[i] \in Modules
                                 THEN tried[CHOOSE i \in DOMAIN tried : hit(i)] ELSE NoTarget
  BY DEF MatchPathToModule
<1> HIDE DEF path, M, five, four, near
<1>6. <<path>> \o five \in Seq(M) /\ Len(<<path>> \o five) <= 2
  BY <1>2, <1>4, ConcatProperties
<1>7. (<<path>> \o five) \o four \in Seq(M) /\ Len((<<path>> \o five) \o four) <= 3
  BY <1>2, <1>6, ConcatProperties
<1>8. tried \in Seq(M) /\ Len(tried) <= 5
  BY <1>3, <1>7, ConcatProperties
<1> HIDE DEF tried
<1>9. DOMAIN tried = 1..Len(tried) /\ Len(tried) \in 0..5 /\ \A i \in 1..Len(tried) : tried[i] \in M
  <2>1. DOMAIN tried = 1..Len(tried) /\ Len(tried) \in Nat
    BY <1>8, LenProperties
  <2>2. Len(tried) <= 5
    BY <1>8
  <2>3. Len(tried) \in 0..5
    <3> DEFINE n == Len(tried)
    <3>1. n \in Nat /\ n <= 5
      BY <2>1, <2>2
    <3> HIDE DEF n
    <3>2. n \in 0..5
      BY <3>1
    <3> QED
      BY <3>2 DEF n
  <2>4. \A i \in 1..Len(tried) : tried[i] \in M
    BY <1>8, ElementOfSeq
  <2> QED
    BY <2>1, <2>3, <2>4
<1>10. \E i \in DOMAIN tried : tried[i] \in Modules
  BY <1>5
<1>11. \E i \in DOMAIN tried : hit(i)
  <2> DEFINE I == {i \in DOMAIN tried : tried[i] \in Modules}
  <2>1. I \in SUBSET (1..5)
    BY <1>9
  <2>2. I # {}
    BY <1>10
  <2> HIDE DEF I
  <2>3. PICK i \in I : \A j \in 1..(i - 1) : j \notin I
    BY <2>1, <2>2, LeastOfFive
  <2>4. \A j \in 1..(i - 1) : j \in DOMAIN tried
    BY <1>9, <2>1, <2>3 DEF I
  <2> QED
    BY <2>3, <2>4 DEF I
<1>12. PICK i \in DOMAIN tried : MatchPathToModule(p, m) = tried[i] /\ tried[i] \in Modules
  BY <1>5, <1>10, <1>11
<1> QED
  BY <1>9, <1>12 DEF M, path

\* A target the session finds with an honest index is one the path may mean.
LEMMA TargetIsMeant ==
  ASSUME files \in Repos, NEW idx, Honest(idx), NEW m \in Modules,
         NEW r \in DOMAIN files.refs[m], NEW p \in ToSet(files.refs[m][r].values),
         targetOf(files, idx, m, <<r, p>>) # NoTarget
  PROVE  MayMean(m, files.refs[m][r], p, targetOf(files, idx, m, <<r, p>>))
<1> DEFINE ref == files.refs[m][r]
           t   == targetOf(files, idx, m, <<r, p>>)
           key == <<ref.type, ref.bucket, NormalizeStatePath(p)>>
<1>1. p \in Seq(STRING) /\ p # <<>>
  BY ExtractionAssumption
<1>2. t = Resolve(idx, m, ref, p)
  BY DEF targetOf
<1>3. CASE MatchPathToModule(p, m) # NoTarget
  <2>1. t = MatchPathToModule(p, m)
    BY <1>2, <1>3 DEF Resolve
  <2>2. t \in Meant(NormalizeStatePath(p), m)
    BY <1>1, <1>3, <2>1, MatchIsMeant
  <2> QED
    BY <2>2 DEF Meant, MayMean
<1>4. CASE MatchPathToModule(p, m) = NoTarget
  <2>1. t = MatchByBackend(idx, ref.type, ref.bucket, p)
    BY <1>2, <1>4 DEF Resolve
  <2>2. key \in DOMAIN idx /\ t = idx[key]
    BY <2>1 DEF MatchByBackend
  <2>3. t \in Modules \ files.broken /\ BackendIndexKey(files.backend[t], t) = key
        /\ key # NoIndexKey
    BY <2>2 DEF Honest
  <2>4. t \in Owners(ref.type, ref.bucket, NormalizeStatePath(p))
    <3> HIDE DEF t, ref
    <3>1. files.backend[t].bucket # ""
      BY <2>3 DEF BackendIndexKey
    <3>2. /\ files.backend[t].type = ref.type /\ files.backend[t].bucket = ref.bucket
          /\ stateOf(t) = NormalizeStatePath(p)
      BY <2>3, <3>1 DEF BackendIndexKey, stateOf
    <3> QED
      BY <2>3, <3>1, <3>2 DEF Owners
  <2> QED
    BY <2>4 DEF MayMean
<1> QED
  BY <1>3, <1>4

\* Every edge is there because the files of its source name its target
\* (session.go:160-186): by path, or by a key that is the target's.
THEOREM EdgesHaveReasons == Spec => []EdgesAreJustified
<1>1. Inv => EdgesAreJustified
  <2> SUFFICES ASSUME Inv, NEW m \in DOMAIN results, NEW t \in results[m].dependsOn
               PROVE  \E r \in DOMAIN files.refs[m] : \E p \in ToSet(files.refs[m][r].values) :
                        MayMean(m, files.refs[m][r], p, t)
    BY DEF EdgesAreJustified
  <2>1. m \in Modules /\ files \in Repos
    BY DEF Inv, Types
  <2>2. PICK idx : Honest(idx) /\ results[m] = SessionResult(files, idx, m)
    BY DEF Inv, ResultInv, FromHonestIndex
  <2>3. PICK x \in pathsOf(files, m) : t = targetOf(files, idx, m, x) /\ t # NoTarget
    BY <2>2 DEF SessionResult
  <2>4. PICK r \in keyedRefs(files, m) : \E p \in ResolveWorkspacePath(files.refs[m][r]) : x = <<r, p>>
    BY <2>3 DEF pathsOf
  <2>5. PICK p \in ResolveWorkspacePath(files.refs[m][r]) : x = <<r, p>>
    BY <2>4
  <2>6. p # Dynamic
    BY <2>3, <2>5 DEF targetOf
  <2>7. p \in ToSet(files.refs[m][r].values)
    BY <2>5, <2>6 DEF ResolveWorkspacePath
  <2>8. r \in DOMAIN files.refs[m]
    BY <2>4 DEF keyedRefs
  <2> QED
    BY <2>1, <2>2, <2>3, <2>5, <2>7, <2>8, TargetIsMeant
<1> QED
  BY <1>1, InvHolds, PTL

\* No remote state with a path and no module is lost without an error
\* (results.go:101-113, session.go:104-132).
THEOREM NothingIsLost == Spec => []NothingSilentlyDropped
<1>1. Inv => NothingSilentlyDropped
  <2> SUFFICES ASSUME Inv, pass = "done", NEW m \in Modules, ParseError(m) \notin errors
               PROVE  /\ m \in DOMAIN results
                      /\ \A r \in DOMAIN files.refs[m] :
                           LET ref == files.refs[m][r]
                           IN  IF ~ref.keyed THEN <<m, r, NoPath>> \in errors
                               ELSE \A p \in ToSet(ref.values) :
                                      \/ p = Unevaluable
                                           /\ (ref.forEach \/ <<m, r, Dynamic>> \in errors)
                                      \/ <<m, r, p>> \in errors
                                      \/ \E t \in results[m].dependsOn : MayMean(m, ref, p, t)
    BY DEF NothingSilentlyDropped
  <2>1. m \in DOMAIN results /\ files \in Repos
    BY DEF Inv, AccountInv, Types
  <2>2. PICK idx : /\ Honest(idx)
                   /\ results[m] = SessionResult(files, idx, m)
                   /\ SessionErrors(files, idx, m) \subseteq errors
    BY <2>1 DEF Inv, ResultInv, FromHonestIndex
  <2>3. ASSUME NEW r \in DOMAIN files.refs[m], ~files.refs[m][r].keyed
        PROVE  <<m, r, NoPath>> \in errors
    BY <2>2, <2>3 DEF SessionErrors, keyedRefs
  <2>4. ASSUME NEW r \in DOMAIN files.refs[m], files.refs[m][r].keyed,
               NEW q \in ResolveWorkspacePath(files.refs[m][r])
        PROVE  /\ targetOf(files, idx, m, <<r, q>>) = NoTarget => <<m, r, q>> \in errors
               /\ targetOf(files, idx, m, <<r, q>>) # NoTarget =>
                    targetOf(files, idx, m, <<r, q>>) \in results[m].dependsOn
    <3>1. <<r, q>> \in pathsOf(files, m)
      BY <2>4 DEF pathsOf, keyedRefs
    <3>2. targetOf(files, idx, m, <<r, q>>) = NoTarget => <<m, r, q>> \in SessionErrors(files, idx, m)
      BY <3>1 DEF SessionErrors
    <3> QED
      BY <2>2, <3>1, <3>2 DEF SessionResult
  <2>5. ASSUME NEW r \in DOMAIN files.refs[m], files.refs[m][r].keyed,
               NEW p \in ToSet(files.refs[m][r].values)
        PROVE  \/ p = Unevaluable
                    /\ (files.refs[m][r].forEach \/ <<m, r, Dynamic>> \in errors)
               \/ <<m, r, p>> \in errors
               \/ \E t \in results[m].dependsOn : MayMean(m, files.refs[m][r], p, t)
    <3>1. CASE p = Unevaluable
      <4>1. files.refs[m][r].forEach \/ Dynamic \in ResolveWorkspacePath(files.refs[m][r])
        BY <3>1 DEF ResolveWorkspacePath
      <4>2. targetOf(files, idx, m, <<r, Dynamic>>) = NoTarget
        BY DEF targetOf
      <4> QED
        BY <2>4, <2>5, <3>1, <4>1, <4>2
    <3>2. CASE p # Unevaluable
      <4>1. p \in ResolveWorkspacePath(files.refs[m][r])
        BY <3>2 DEF ResolveWorkspacePath
      <4>2. targetOf(files, idx, m, <<r, p>>) # NoTarget =>
              MayMean(m, files.refs[m][r], p, targetOf(files, idx, m, <<r, p>>))
        BY <2>1, <2>2, TargetIsMeant
      <4> QED
        BY <2>4, <2>5, <4>1, <4>2
    <3> QED
      BY <3>1, <3>2
  <2> QED
    BY <2>1, <2>3, <2>5
<1> QED
  BY <1>1, InvHolds, PTL

-----------------------------------------------------------------------------
(* When nothing fails                                                       *)

Indexed(m) ==
  \/ BackendIndexKey(files.backend[m], m) = NoIndexKey
  \/ BackendIndexKey(files.backend[m], m) \in DOMAIN items

\* What a pass has done with the modules it has started, and what it leaves to
\* the other.
PassInv ==
  /\ \A m \in Modules : worker[m] = "failed" => m \in files.broken
  /\ pass = "index" =>
       /\ \A m \in Modules : started(m) => m \in running \/ m \in files.broken \/ Indexed(m)
       /\ DOMAIN results = {} /\ errors = {}
  /\ pass # "index" => \A m \in Modules \ files.broken : Indexed(m)
  /\ pass = "extract" =>
       \A m \in Modules : started(m) => m \in running \/ m \in files.broken \/ m \in DOMAIN results
  /\ pass = "done" => \A m \in Modules \ files.broken : m \in DOMAIN results

\* Results and errors are those the full index gives, and no others.
FullInv ==
  /\ \A m \in DOMAIN results : /\ results[m] = SessionResult(files, FullIndex, m)
                               /\ SessionErrors(files, FullIndex, m) \subseteq errors
  /\ \A e \in errors : \/ \E m \in files.broken : e = ParseError(m)
                       \/ \E m \in DOMAIN results : e \in SessionErrors(files, FullIndex, m)

nothingFails == ~files.flaky /\ ~ctxDone
IsIndex == items = [k \in DOMAIN items |-> items[k]]

SteadyInv ==
  /\ IsIndex
  /\ nothingFails => PassInv
  /\ nothingFails /\ KeysAreDistinct => FullInv

LEMMA SameFiles ==
  ASSUME files' = files
  PROVE  FullIndex' = FullIndex /\ (KeysAreDistinct' <=> KeysAreDistinct)
<1>1. FullIndex' = FullIndex
  BY DEF FullIndex
<1>2. KeysAreDistinct' <=> KeysAreDistinct
  BY DEF KeysAreDistinct, Owners, stateOf
<1> QED
  BY <1>1, <1>2

\* The index of the second pass is the full one.
LEMMA IndexIsFull ==
  ASSUME Inv, IsIndex, PassInv, KeysAreDistinct, pass # "index"
  PROVE  items = FullIndex
<1> DEFINE keyOf(t) == BackendIndexKey(files.backend[t], t)
           owners   == {t \in Modules \ files.broken : keyOf(t) # NoIndexKey}
<1>1. Honest(items)
  BY DEF Inv, IndexInv
<1>2. \A k \in DOMAIN items : k \in DOMAIN FullIndex /\ FullIndex[k] = items[k]
  BY <1>1, HonestIndexIsPartOfTheFullOne
<1>3. FullIndex = [k \in {keyOf(t) : t \in owners} |-> CHOOSE t \in owners : keyOf(t) = k]
  BY DEF FullIndex
<1>4. \A t \in owners : keyOf(t) \in DOMAIN items
  BY DEF PassInv, Indexed
<1>5. DOMAIN FullIndex \subseteq DOMAIN items
  BY <1>3, <1>4
<1>6. FullIndex = [k \in DOMAIN FullIndex |-> FullIndex[k]]
  <2> DEFINE keys == {keyOf(t) : t \in owners}  owner(k) == CHOOSE t \in owners : keyOf(t) = k
  <2>1. FullIndex = [k \in keys |-> owner(k)]
    BY <1>3
  <2> HIDE DEF keys, owner
  <2> QED
    BY <2>1
<1> QED
  BY <1>2, <1>5, <1>6 DEF IsIndex

LEMMA SteadyInit == ASSUME Init PROVE SteadyInv
<1>1. IsIndex
  BY DEF Init, IsIndex, NoFunction
<1>2. PassInv
  BY DEF Init, PassInv, started, NoFunction
<1>3. FullInv
  BY DEF Init, FullInv, NoFunction
<1> QED
  BY <1>1, <1>2, <1>3 DEF SteadyInv

\* Steps that leave index, results and errors alone.
LEMMA FullStands ==
  ASSUME SteadyInv, UNCHANGED <<files, results, errors>>, nothingFails' => nothingFails
  PROVE  nothingFails' /\ KeysAreDistinct' => FullInv'
BY SameFiles DEF SteadyInv, FullInv, ParseError

LEMMA SteadyStart == ASSUME Inv, SteadyInv, Start PROVE SteadyInv'
<1> USE OrderFacts
<1>1. UNCHANGED <<files, ctxDone, pass, items, results, errors>>
  BY DEF Start
<1>2. nothingFails' => PassInv'
  <2>1. next \in Nat /\ next' = next + 1 /\ Order[next] \in Modules
    BY DEF Inv, Types, Start
  <2>2. \A m \in Modules : started(m)' <=> started(m) \/ m = Order[next]
    <3>1. next \in Nat \ {0} /\ next' - 1 = next
      BY <2>1 DEF Inv, Types
    <3>2. 1..next = (1..(next - 1)) \cup {next}
      BY <3>1
    <3> QED
      BY <3>1, <3>2 DEF started
  <2>3. \A m \in Modules : worker'[m] = IF m = Order[next] THEN "started" ELSE worker[m]
    BY DEF Start, Inv, Types
  <2>4. \A m \in Modules : Indexed(m)' <=> Indexed(m)
    BY <1>1 DEF Indexed
  <2>5. pass # "done"
    BY DEF Start
  <2> QED
    BY <1>1, <2>2, <2>3, <2>4, <2>5 DEF SteadyInv, PassInv, nothingFails, running
<1>3. IsIndex'
  BY <1>1 DEF SteadyInv, IsIndex
<1> QED
  BY <1>1, <1>2, <1>3, FullStands DEF SteadyInv, nothingFails

LEMMA SteadyGet == ASSUME Inv, SteadyInv, NEW m \in Modules, Get(m) PROVE SteadyInv'
<1>1. UNCHANGED <<files, ctxDone, pass, next, items, results, errors>>
  BY DEF Get
<1>2. nothingFails' => PassInv'
  <2>1. \A n \in Modules : Indexed(n)' <=> Indexed(n)
    BY <1>1 DEF Indexed
  <2>2. \A n \in Modules \ {m} : worker'[n] = worker[n]
    BY DEF Get, Inv, Types
  <2>3. /\ worker[m] # "none" /\ worker'[m] # "none"
        /\ nothingFails /\ worker'[m] = "failed" => m \in files.broken
    BY DEF Get, Inv, Types, nothingFails
  <2> QED
    BY <1>1, <2>1, <2>2, <2>3 DEF SteadyInv, PassInv, nothingFails, running, started
<1>3. IsIndex'
  BY <1>1 DEF SteadyInv, IsIndex
<1> QED
  BY <1>1, <1>2, <1>3, FullStands DEF SteadyInv, nothingFails

LEMMA SteadyIndexBackend == ASSUME Inv, SteadyInv, NEW m \in Modules, IndexBackend(m) PROVE SteadyInv'
<1> DEFINE key == BackendIndexKey(files.backend[m], m)
<1>1. UNCHANGED <<files, ctxDone, pass, next, results, errors>> /\ pass = "index"
  BY DEF IndexBackend
<1>2. /\ \A n \in Modules \ {m} : worker'[n] = worker[n]
      /\ worker'[m] = "none"
  BY DEF IndexBackend, Inv, Types
<1>3. /\ IsIndex' /\ DOMAIN items \subseteq DOMAIN items'
      /\ worker[m] = "failed" \/ key = NoIndexKey \/ key \in DOMAIN items'
  <2>1. CASE worker[m] = "failed" \/ key = NoIndexKey
    BY <2>1 DEF IndexBackend, SteadyInv, IsIndex
  <2>2. CASE ~(worker[m] = "failed" \/ key = NoIndexKey)
    <3>1. items' = [k \in DOMAIN items \cup {key} |-> IF k = key THEN m ELSE items[k]]
      BY <2>2 DEF IndexBackend
    <3> HIDE DEF key
    <3> QED
      BY <3>1 DEF IsIndex
  <2> QED
    BY <2>1, <2>2
<1>4. \A n \in Modules : Indexed(n) => Indexed(n)'
  BY <1>1, <1>3 DEF Indexed
<1>5. worker[m] # "failed" => Indexed(m)'
  BY <1>1, <1>3 DEF Indexed
<1>6. nothingFails' => PassInv'
  BY <1>1, <1>2, <1>4, <1>5 DEF SteadyInv, PassInv, nothingFails, running, started
<1> QED
  BY <1>1, <1>3, <1>6, FullStands DEF SteadyInv, nothingFails

LEMMA SteadyCollect == ASSUME Inv, SteadyInv, NEW m \in Modules, Collect(m) PROVE SteadyInv'
<1>1. UNCHANGED <<files, ctxDone, pass, next, items>> /\ pass = "extract"
  BY DEF Collect
<1>2. /\ \A n \in Modules \ {m} : worker'[n] = worker[n]
      /\ worker[m] \in {"parsed", "failed"} /\ worker'[m] = "none"
  BY DEF Collect, Inv, Types
<1>3. IsIndex' /\ \A n \in Modules : Indexed(n)' <=> Indexed(n)
  BY <1>1 DEF SteadyInv, IsIndex, Indexed
<1>4. /\ DOMAIN results \subseteq DOMAIN results'
      /\ worker[m] = "parsed" => m \in DOMAIN results'
  BY DEF Collect
<1>5. nothingFails' => PassInv'
  BY <1>1, <1>2, <1>3, <1>4 DEF SteadyInv, PassInv, nothingFails, running, started
<1>6. ASSUME nothingFails, KeysAreDistinct PROVE FullInv'
  <2>1. items = FullIndex /\ FullIndex' = FullIndex
    BY <1>1, <1>6, IndexIsFull, SameFiles DEF SteadyInv
  <2>2. FullInv
    BY <1>6 DEF SteadyInv
  <2>3. CASE worker[m] = "failed"
    <3>1. m \in files.broken /\ errors' = errors \cup {ParseError(m)} /\ results' = results
      BY <1>6, <2>3 DEF Collect, SteadyInv, PassInv
    <3> QED
      BY <1>1, <2>1, <2>2, <3>1 DEF FullInv, ParseError
  <2>4. CASE worker[m] = "parsed"
    <3>1. /\ results' = [n \in DOMAIN results \cup {m} |->
                           IF n = m THEN SessionResult(files, FullIndex, m) ELSE results[n]]
          /\ errors' = errors \cup SessionErrors(files, FullIndex, m)
      BY <2>1, <2>4 DEF Collect
    <3>2. \A n \in DOMAIN results' : /\ results'[n] = SessionResult(files, FullIndex, n)
                                    /\ SessionErrors(files, FullIndex, n) \subseteq errors'
      BY <2>2, <3>1 DEF FullInv
    <3>3. \A e \in errors' : \/ \E n \in files.broken : e = ParseError(n)
                            \/ \E n \in DOMAIN results' : e \in SessionErrors(files, FullIndex, n)
      BY <2>2, <3>1 DEF FullInv
    <3> QED
      BY <1>1, <2>1, <3>2, <3>3 DEF FullInv, ParseError
  <2> QED
    BY <1>2, <2>3, <2>4
<1> QED
  BY <1>1, <1>3, <1>5, <1>6, SameFiles DEF SteadyInv, nothingFails

LEMMA SteadyEndPass == ASSUME Inv, SteadyInv, EndPass PROVE SteadyInv'
<1> USE OrderFacts
<1>1. UNCHANGED <<files, ctxDone, worker, cache, items, results, errors>>
  BY DEF EndPass
<1>2. (\A m \in Modules : worker[m] = "none") /\ running = {}
  BY DEF EndPass, running
<1>3. \A m \in Modules : started(m)
  <2>1. next = Len(Order) + 1
    BY DEF EndPass, Inv, Types
  <2> QED
    BY <2>1 DEF started
<1>4. IsIndex' /\ \A n \in Modules : Indexed(n)' <=> Indexed(n)
  BY <1>1 DEF SteadyInv, IsIndex, Indexed
<1>5. nothingFails' => PassInv'
  <2>1. CASE pass = "index"
    <3>1. \A m \in Modules : ~started(m)'
      BY <2>1 DEF EndPass, started
    <3>2. pass' = "extract"
      BY <2>1 DEF EndPass
    <3> QED
      BY <1>1, <1>2, <1>3, <1>4, <2>1, <3>1, <3>2 DEF SteadyInv, PassInv, nothingFails
  <2>2. CASE pass = "extract"
    <3>1. pass' = "done"
      BY <2>2 DEF EndPass
    <3> QED
      BY <1>1, <1>2, <1>3, <1>4, <2>2, <3>1 DEF SteadyInv, PassInv, nothingFails
  <2> QED
    BY <2>1, <2>2 DEF EndPass
<1> QED
  BY <1>1, <1>4, <1>5, FullStands DEF SteadyInv, nothingFails

LEMMA SteadyStutter ==
  ASSUME SteadyInv, UNCHANGED <<files, pass, next, worker, items, results, errors>>, ctxDone => ctxDone'
  PROVE  SteadyInv'
<1>1. IsIndex' /\ \A n \in Modules : Indexed(n)' <=> Indexed(n)
  BY DEF SteadyInv, IsIndex, Indexed
<1>2. nothingFails' => PassInv'
  BY <1>1 DEF SteadyInv, PassInv, nothingFails, running, started
<1> QED
  BY <1>1, <1>2, FullStands DEF SteadyInv, nothingFails

\* When nothing fails, edges and errors are a function of the files, in whatever
\* order goroutines start, parse and publish (engine.go:46-65): the first pass
\* leaves the full index to the second.
THEOREM Deterministic == Spec => []SameOnEveryRun
<1>1. Inv /\ SteadyInv /\ [Next]_vars => SteadyInv'
  BY SteadyStart, SteadyGet, SteadyIndexBackend, SteadyCollect, SteadyEndPass, SteadyStutter
     DEF Next, Step, Cancel, vars
<1>2. Inv /\ SteadyInv => SameOnEveryRun
  <2> SUFFICES ASSUME Inv, SteadyInv, pass = "done", nothingFails, KeysAreDistinct
               PROVE  /\ Complete
                      /\ errors = {ParseError(m) : m \in files.broken}
                                    \cup UNION {SessionErrors(files, FullIndex, m) : m \in Modules \ files.broken}
    BY DEF SameOnEveryRun, nothingFails
  <2>1. PassInv /\ FullInv
    BY DEF SteadyInv
  <2>2. DOMAIN results = Modules \ files.broken /\ results = [m \in DOMAIN results |-> results[m]]
    BY <2>1 DEF Inv, Types, PassInv
  <2>3. Complete
    BY <2>1, <2>2 DEF Complete, FullInv
  <2>4. \A m \in files.broken : m \in Modules /\ ParseError(m) \in errors
    BY <2>2, ExtractionAssumption DEF Inv, Types, AccountInv
  <2>5. errors = {ParseError(m) : m \in files.broken}
                   \cup UNION {SessionErrors(files, FullIndex, m) : m \in Modules \ files.broken}
    BY <2>1, <2>2, <2>4 DEF FullInv
  <2> QED
    BY <2>3, <2>5
<1> QED
  BY <1>1, <1>2, SteadyInit, InitInv, InvHolds, PTL DEF Spec
===============================================================================
