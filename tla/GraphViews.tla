------------------------------ MODULE GraphViews ------------------------------
(***************************************************************************)
(* terraci graph: the pictures, the lists and the statistics of the graph  *)
(* of the modules, or of the part of it that one module belongs to.        *)
(*                                                                         *)
(* A module path is the sequence of its segments, and a segment the        *)
(* sequence of the words that dashes, dots or underscores separate in it.  *)
(***************************************************************************)
EXTENDS CycleDetection, Functions, TLC

CONSTANTS
  PathOf,     \* per module ID: its path
  Libraries   \* the paths of the library modules that were discovered

-----------------------------------------------------------------------------
(* Names *)

\* groupNodesByContext: the first two segments.
contextOf(i) == IF Len(PathOf[i]) >= 2 THEN SubSeq(PathOf[i], 1, 2) ELSE <<<<"other">>>>
groupNodesByContext(H) == [g \in {contextOf(i) : i \in H.nodes} |-> {i \in H.nodes : contextOf(i) = g}]

\* Mutant: the picture has room for the last segments only.
plantUMLShortAlias(p) == FlattenSeq(SubSeq(p, 3, Len(p)))
plantUMLAlias(p) == FlattenSeq(p)
region(p) == IF Len(p) >= 3 THEN p[3] ELSE <<"default">>
dotLabel(p) == IF Len(p) >= 2 THEN SubSeq(p, Len(p) - 1, Len(p)) ELSE p
plantLabel(p) == IF Len(p) > 3 THEN SubSeq(p, 4, Len(p)) ELSE <<p[Len(p)]>>
shortName(p) == IF Len(p) > 2 THEN SubSeq(p, 3, Len(p)) ELSE p

edgesOf(H) == UNION {{<<i, j>> : j \in ToSet(H.edges[i])} : i \in H.nodes}

-----------------------------------------------------------------------------
(* Graphviz *)

\* The library itself, or the deepest one it lies in.
enclosingLibrary(libs, used) ==
  IF used \in libs THEN {used}
  ELSE LET around == {l \in libs : IsStrictPrefix(l, used)}
       IN  {l \in around : \A k \in around : Len(k) <= Len(l)}

writeLibraryEdges(H, libs) ==
  UNION {UNION {{<<owner, i>> : i \in ToSet(H.libraryUsage[used])} :
                  owner \in enclosingLibrary(libs, used)} : used \in DOMAIN H.libraryUsage}

ToDOTWithLibraries(H, libs) ==
  [clusters |-> groupNodesByContext(H),
   label |-> [i \in H.nodes |-> dotLabel(PathOf[i])],
   libraries |-> libs,
   edges |-> edgesOf(H),
   libraryEdges |-> writeLibraryEdges(H, libs)]

-----------------------------------------------------------------------------
(* PlantUML *)

\* A package has packages for its regions when there are several of them.
component(H, i) ==
  LET regions == {region(PathOf[j]) : j \in groupNodesByContext(H)[contextOf(i)]}
  IN  [within |-> <<contextOf(i)>> \o IF Cardinality(regions) > 1 THEN <<region(PathOf[i])>> ELSE <<>>,
       label |-> plantLabel(PathOf[i]), alias |-> plantUMLAlias(PathOf[i])]
ToPlantUML(H) ==
  [components |-> {component(H, i) : i \in H.nodes},
   edges |-> {<<plantUMLAlias(PathOf[e[1]]), plantUMLAlias(PathOf[e[2]])>> : e \in edgesOf(H)}]

-----------------------------------------------------------------------------
(* Lists *)

groupHeading(i) == IF Len(PathOf[i]) >= 2 THEN SubSeq(PathOf[i], 1, 2) ELSE <<>>

\* A heading whenever the group changes; libraries last.
formatList(H, libs) ==
  LET order == TopologicalSort(H).order
      line(i) == [group |-> groupHeading(i), name |-> shortName(PathOf[i]),
                  needs |-> [k \in DOMAIN H.edges[i] |-> shortName(PathOf[H.edges[i][k]])]]
  IN  [lines |-> [k \in DOMAIN order |-> line(order[k])],
       headings |-> {k \in DOMAIN order : groupHeading(order[k]) #
                       IF k = 1 THEN <<>> ELSE groupHeading(order[k - 1])},
       libraries |-> libs]

formatLevels(H) ==
  LET levels == ExecutionLevels(H)
  IN  [l \in DOMAIN levels |->
         {[id |-> PathOf[i], needs |-> {Last(PathOf[j]) : j \in ToSet(H.edges[i])}] : i \in levels[l]}]

\* The two lists need an order, the pictures do not.
Render(H, libs, format) ==
  CASE format = "dot"      -> {ToDOTWithLibraries(H, libs)}
    [] format = "plantuml" -> {ToPlantUML(H)}
    [] format \in {"list", "levels"} /\ ~TopologicalSort(H).ok -> {}
    [] format = "list"     -> {formatList(H, libs)}
    [] format = "levels"   -> {formatLevels(H)}

-----------------------------------------------------------------------------
(* Statistics *)

\* The n modules with the most; which of equals is left out is up to the maps.
topBy(H, adjacency, n) ==
  LET some == {i \in H.nodes : adjacency[i] # <<>>}
      order == SetToSortSeq(some, LAMBDA i, j : Len(adjacency[i]) > Len(adjacency[j]))
  IN  SubSeq([k \in DOMAIN order |-> Len(adjacency[order[k]])], 1, Min({n, Len(order)}))

GetStats(H, found) ==
  LET levels == IF TopologicalSort(H).ok THEN ExecutionLevels(H) ELSE <<>>
      counts == [l \in DOMAIN levels |-> Cardinality(levels[l])]
  IN  [TotalModules |-> Cardinality(H.nodes),
       TotalEdges |-> FoldSet(LAMBDA i, n : n + Len(H.edges[i]), 0, H.nodes),
       RootModules |-> Cardinality({i \in H.nodes : H.edges[i] = <<>>}),
       LeafModules |-> Cardinality({i \in H.nodes : H.reverseEdges[i] = <<>>}),
       MaxDepth |-> IF levels = <<>> THEN 0 ELSE Len(levels) - 1,
       LevelCounts |-> counts,
       CycleCount |-> Len(found),
       TopDependedOn |-> topBy(H, H.reverseEdges, 5),
       TopDependencies |-> topBy(H, H.edges, 5)]

-----------------------------------------------------------------------------
(* The command *)

\* The part of the graph that one module belongs to is shown without libraries;
\* nothing is shown when the list that was asked for cannot be had.
Run(req, found) ==
  LET graph == IF req.ModuleID = {} THEN {G}
               ELSE {ScopeToModule(G, i, req.ShowDependents) : i \in req.ModuleID}
      libraries == IF req.ModuleID = {} THEN Libraries ELSE {}
  IN  UNION {IF req.ShowStats THEN {GetStats(scoped, found)} ELSE Render(scoped, libraries, req.Format) :
               scoped \in graph}

-----------------------------------------------------------------------------
(* Properties *)

\* What is shown of the whole graph.
shown(format) == Run([ModuleID |-> {}, ShowDependents |-> FALSE, ShowStats |-> FALSE, Format |-> format], <<>>)
stats(of, down, found) == Run([ModuleID |-> of, ShowDependents |-> down, ShowStats |-> TRUE], found)

\* Paths that differ in more than what separates their words.
toldApart == \A i, j \in Known : i # j => FlattenSeq(PathOf[i]) # FlattenSeq(PathOf[j])

\* The Graphviz picture has the modules, in one cluster each, and the edges of
\* the input, and with every library that lies in a discovered one an edge to
\* each module that uses it; the PlantUML picture is the same graph unless two
\* paths differ in separators only (visualize.go:14-125, 150-252).
PicturesShowTheGraph ==
  Built =>
    \E dot \in shown("dot"), uml \in shown("plantuml") :
      /\ \A i \in Known : Cardinality({g \in DOMAIN dot.clusters : i \in dot.clusters[g]}) = 1
      /\ dot.edges = Edges
      /\ \A i \in DOMAIN input.deps \cap Known, l \in Libraries :
           <<l, i>> \in dot.libraryEdges <=>
             \E used \in ToSet(input.deps[i].libraries) :
               IsPrefix(l, used) /\ \A k \in Libraries : IsPrefix(k, used) => Len(k) <= Len(l)
      /\ toldApart =>
           /\ Cardinality(uml.components) = Cardinality(Known)
           /\ \A i, j \in Known : <<i, j>> \in Edges <=>
                <<FlattenSeq(PathOf[i]), FlattenSeq(PathOf[j])>> \in uml.edges

\* Read from above, the list names every dependency before the module that
\* needs it, each module below the heading of its group; it cannot be had when
\* modules depend on each other in a circle (graphflow.go:137-198).
ListsFollowTheGraph ==
  Built =>
    /\ (shown("list") = {}) <=> ~Acyclic
    /\ \A list \in shown("list") :
         LET above(k) == Max({0} \cup {h \in list.headings : h <= k})
             fullName(k) == (IF above(k) = 0 THEN <<>> ELSE list.lines[above(k)].group) \o list.lines[k].name
             lineOf(i) == {k \in DOMAIN list.lines : PathOf[i] \in {fullName(k), list.lines[k].name}}
         IN  \A i \in Known : Cardinality(lineOf(i)) = 1 /\
               \A j \in Known, k \in lineOf(i) : <<i, j>> \in Edges =>
                 /\ Contains(list.lines[k].needs, shortName(PathOf[j]))
                 /\ \E l \in lineOf(j) : l < k

\* The numbers are about one graph: levels add up to the modules, as many edges
\* leave modules as reach them, the first level is the modules without
\* dependencies, and no part of the graph is deeper than the whole.
StatsAddUp ==
  Returned =>
    LET sum(q) == FoldSeq(LAMBDA x, n : x + n, 0, q)
    IN  \E s \in stats({}, FALSE, cycles) :
        /\ (s.CycleCount = 0 /\ Known # {}) =>
             /\ sum(s.LevelCounts) = s.TotalModules
             /\ s.LevelCounts[1] = s.RootModules
             /\ s.MaxDepth = Max({height[i] : i \in Known})
             /\ \A i \in Known, down \in BOOLEAN :
                  \A part \in stats({i}, down, <<>>) : part.MaxDepth <= s.MaxDepth
        /\ s.TotalEdges = Cardinality(Edges)
        /\ sum(s.TopDependedOn) <= s.TotalEdges /\ sum(s.TopDependencies) <= s.TotalEdges
        /\ s.TotalModules <= 5 => sum(s.TopDependedOn) = sum(s.TopDependencies)

\* All that terraci graph shows of a graph, or of the part of one module, is
\* that graph.
ViewsAgreeWithGraph ==
  ScopeAgreesWithGraph /\ PicturesShowTheGraph /\ ListsFollowTheGraph /\ StatsAddUp
===============================================================================
