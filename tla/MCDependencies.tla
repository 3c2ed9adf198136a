--------------------------- MODULE MCDependencies ---------------------------
(***************************************************************************)
(* The two halves of the dependencies between modules, side by side, each  *)
(* on an instance of its own:                                              *)
(*   "extract"  DependencyExtraction over four modules of the pattern      *)
(*              service/environment/region/module: two of one context, a   *)
(*              submodule of one of them, and one of another service;      *)
(*   "graph"    GraphViews on graphs built from all small dependency       *)
(*              relations.                                                 *)
(* While one half is checked the other stays in an initial state.          *)
(***************************************************************************)
EXTENDS GraphViews, DependencyExtraction

VARIABLE part

-----------------------------------------------------------------------------
(* Extraction: the files *)

vpc  == <<"a", "prod", "eu", "vpc">>
eks  == <<"a", "prod", "eu", "eks">>
node == <<"a", "prod", "eu", "eks", "node">>
peer == <<"b", "prod", "eu", "vpc">>

mcModules == {vpc, eks, node, peer}
mcOrder   == <<vpc, eks, node, peer>>

s3(bucket, key) == [type |-> "s3", bucket |-> bucket, key |-> key]

\* vpc and peer keep their states under one key, in two buckets or in one; or
\* each under its own path.
Backends ==
  {[m \in mcModules |-> CASE m = vpc  -> v
                        [] m = peer -> p
                        [] m = eks  -> s3("one", <<>>)
                        [] m = node -> s3("", <<"net", "core", "main">>)] :
     v \in {s3("one", <<"net", "core", "main">>), NoBackend},
     p \in {s3("one", <<"net", "core", "main">>), s3("two", <<"net", "core", "main">>)}}

block(name, bucket, value) ==
  [name |-> name, type |-> "s3", bucket |-> bucket, keyed |-> TRUE, forEach |-> FALSE,
   values |-> <<value>>]

\* What eks says, and what node says.
EksRefs ==
  {<<block("vpc", "one", vpc \o <<"terraform.tfstate">>)>>,
   <<block("core", "one", <<"net", "core", "main">>)>>,
   <<block("core", "two", <<"net", "core", "main", "terraform.tfstate">>)>>,
   <<block("core", "", <<"net", "core", "main">>)>>,
   <<[block("all", "two", <<>>) EXCEPT !.forEach = TRUE,
        !.values = <<<<"vpc">>, Unevaluable, <<"net", "core", "main">>>>]>>}
NodeRefs ==
  {<<block("eks", "one", <<"env:", "ws">> \o eks), block("self", "", <<"node">>)>>,
   <<[block("bad", "", eks) EXCEPT !.keyed = FALSE], block("eks", "one", Unevaluable)>>,
   <<block("pair", "one", <<"eks", "node">>), block("x", "", <<"ws", "b">> \o Tail(vpc))>>}

mcRepos ==
  {[backend |-> b, broken |-> x, flaky |-> y, calls |-> [m \in mcModules |-> IF m = node THEN {<<"lib">>} ELSE {}],
    refs |-> [m \in mcModules |-> CASE m = eks -> e [] m = node -> n [] OTHER -> <<>>]] :
     b \in Backends, <<x, y>> \in {<<{}, FALSE>>, <<{}, TRUE>>, <<{vpc}, FALSE>>}, e \in EksRefs, n \in NodeRefs}

-----------------------------------------------------------------------------
(* The graph: what BuildFromDependencies is called with *)

ghost == 9   \* an ID no discovered module has

mcIDs == 1..4 \cup {ghost}

Found(to) == [dependsOn |-> to, libraries |-> <<>>]

\* Three modules, each with any dependencies on itself and the others; one of
\* them on the ghost as well.
lists == {SetToSeq(S) : S \in SUBSET {1, 2, 3}}
small == {[modules |-> <<1, 2, 3>>, deps |-> [m \in 1..3 |-> Found(<<x, y, z>>[m])]] :
            x, z \in lists, y \in {SetToSeq(S) : S \in SUBSET {1, 2, 3, ghost}}}

\* Four modules, each with up to two dependencies on the others, in both orders.
pairs(m) == UNION {SetToSeqs(S) : S \in {T \in SUBSET (1..4 \ {m}) : Cardinality(T) <= 2}}
large == {[modules |-> <<1, 2, 3, 4>>, deps |-> [m \in 1..4 |-> Found(<<w, x, y, z>>[m])]] :
            w \in {<<>>, <<2>>, <<2, 4>>, <<4, 3>>}, x \in pairs(2), y \in pairs(3),
            z \in {<<>>, <<1>>, <<2>>, <<2, 3>>}}

\* Three modules with dependencies in any order.
anyOrder == UNION {SetToSeqs(S) : S \in SUBSET (1..3)}
ordered == {[modules |-> <<1, 2, 3>>, deps |-> [m \in 1..3 |-> Found(<<x, y, z>>[m])]] :
              x \in {<<2>>, <<3, 1, 2>>}, y, z \in anyOrder}

\* Four modules with dependencies on each other, the first one on one, two or all
\* of the others.
others(m) == {SetToSeq(S) : S \in SUBSET (1..4 \ {m})}
dense == {[modules |-> <<1, 2, 3, 4>>, deps |-> [m \in 1..4 |-> Found(<<w, x, y, z>>[m])]] :
            w \in {<<2>>, <<3, 4>>, <<2, 3, 4>>}, x \in others(2), y \in others(3), z \in others(4)}

\* Modules that use libraries, one below a discovered one.
uses(libs) == [dependsOn |-> <<>>, libraries |-> libs]
lib == <<<<"modules">>, <<"kafka">>>>
used == {<<>>, <<lib>>, <<Append(lib, <<"acl">>)>>, <<Append(lib, <<"acl">>), Append(lib, <<"topic">>), <<<<"other">>>>>>}
librarian == {[modules |-> <<1, 2, 3>>, deps |-> [m \in 1..3 |-> uses(<<x, y, <<>>>>[m])]] : x, y \in used}
mcLibraries == {lib, Append(lib, <<"topic">>)}

mcPathOf == 1 :> <<<<"shop">>, <<"prod">>, <<"eu">>, <<"vpc">>>> @@ 2 :> <<<<"shop">>, <<"prod">>, <<"us">>, <<"vpc">>>>
  @@ 3 :> <<<<"shop">>, <<"stage">>, <<"eu">>, <<"web", "app">>>> @@ 4 :> <<<<"base">>>> @@ ghost :> <<<<"ghost">>>>

mcInputs == librarian \cup small \cup large \cup ordered \cup dense

-----------------------------------------------------------------------------
DependenciesInit ==
  \/ /\ part = "extract"
     /\ input = CHOOSE i \in Inputs : TRUE
     /\ GraphInit /\ Init
  \/ /\ part = "graph"
     /\ files = CHOOSE f \in Repos : TRUE
     /\ Init /\ GraphInit

DependenciesNext ==
  \/ part = "extract" /\ Next /\ UNCHANGED <<part, graphVars>>
  \/ part = "graph" /\ GraphNext /\ UNCHANGED <<part, vars>>

DependenciesSpec == DependenciesInit /\ [][DependenciesNext]_<<part, vars, graphVars>>
=============================================================================
