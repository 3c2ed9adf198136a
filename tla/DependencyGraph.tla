--------------------------- MODULE DependencyGraph ---------------------------
(***************************************************************************)
(* pkg/graph: the dependency graph of the modules and what is computed     *)
(* from it.                                                                *)
(*                                                                         *)
(* A module ID is a natural number: the code only compares IDs, by string  *)
(* order, where the model uses the order of the numbers.  A library path   *)
(* is the sequence of its directories.  A graph is a record                *)
(*   nodes         the module IDs                                          *)
(*   edges         per ID, the IDs it depends on, in insertion order       *)
(*   reverseEdges  per ID, the IDs that depend on it, in insertion order   *)
(*   libraryUsage  per library path used, the IDs that use it              *)
(* A Go map lookup of an absent key yields the empty slice: edges and      *)
(* reverseEdges are total over IDs, libraryUsage has its keys for domain.  *)
(***************************************************************************)
EXTENDS Naturals, Sequences, FiniteSets, SequencesExt, FiniteSetsExt

CONSTANT IDs    \* the module IDs that may occur, known or not

ASSUME IDsAssumption == IDs \subseteq Nat \ {0} /\ IsFiniteSet(IDs)

NewDependencyGraph ==
  [nodes |-> {}, edges |-> [i \in IDs |-> <<>>], reverseEdges |-> [i \in IDs |-> <<>>],
   libraryUsage |-> [p \in {} |-> <<>>]]

AddNode(G, m) == [G EXCEPT !.nodes = @ \cup {m}]

\* An edge to or from an unknown module is ignored with a diagnostic, a
\* repeated one silently.
AddEdge(G, from, to) ==
  IF {from, to} \subseteq G.nodes /\ ~Contains(G.edges[from], to)
    THEN [G EXCEPT !.edges[from] = Append(@, to), !.reverseEdges[to] = Append(@, from)]
    ELSE G

GetModulesUsingLibrary(G, path) ==
  IF path \in DOMAIN G.libraryUsage THEN G.libraryUsage[path] ELSE <<>>

AddLibraryUsage(G, path, m) ==
  LET users == GetModulesUsingLibrary(G, path)
  IN  IF Contains(users, m) THEN G
      ELSE [G EXCEPT !.libraryUsage =
              [p \in DOMAIN @ \cup {path} |-> IF p = path THEN Append(users, m) ELSE @[p]]]

\* The dependencies of one module, [dependsOn, libraries], are added.
AddDependencies(G, m, found) ==
  LET withEdges == FoldLeft(LAMBDA H, to : AddEdge(H, m, to), G, found.dependsOn)
  IN  FoldLeft(LAMBDA H, path : AddLibraryUsage(H, path, m), withEdges, found.libraries)

\* BuildFromDependencies, the map deps ranged over in the order given.
BuildFromDependencies(modules, deps, order) ==
  FoldLeft(LAMBDA G, m : AddDependencies(G, m, deps[m]),
           FoldLeft(AddNode, NewDependencyGraph, modules), order)

-----------------------------------------------------------------------------
\* collectTransitive: depth-first, the start itself only when a cycle leads
\* back to it.  Every ID enters the stack at most once after the start.
collectTransitive(start, adjacency) ==
  LET pop[st \in [stack : Seq(IDs), visited : SUBSET IDs]] ==
        IF st.stack = <<>> THEN st.visited
        ELSE LET fresh == SelectSeq(adjacency[Last(st.stack)], LAMBDA i : i \notin st.visited)
             IN  pop[[stack   |-> Front(st.stack) \o fresh,
                      visited |-> st.visited \cup ToSet(fresh)]]
  IN  pop[[stack |-> <<start>>, visited |-> {}]]

GetAllDependencies(G, m) == collectTransitive(m, G.edges)
GetAllDependents(G, m)   == collectTransitive(m, G.reverseEdges)

\* Mutant: a module that is reached from a changed one spreads the change.
AffectedModulesClosure(G, changed) ==
  LET up == UNION {{m} \cup GetAllDependents(G, m) : m \in changed}
  IN  UNION {{m} \cup GetAllDependencies(G, m) : m \in up}

GetAffectedModules(G, changed) ==
  UNION {{m} \cup GetAllDependents(G, m) \cup GetAllDependencies(G, m) : m \in changed}

GetAffectedByLibraryChanges(G, paths) ==
  UNION {ToSet(G.libraryUsage[p]) : p \in {q \in DOMAIN G.libraryUsage :
                                              \E changed \in paths : IsPrefix(changed, q)}}

GetAffectedModulesWithLibraries(G, changed, paths) ==
  GetAffectedModules(G, changed)
    \cup UNION {{m} \cup GetAllDependencies(G, m) : m \in GetAffectedByLibraryChanges(G, paths)}

\* The elements of a sequence at some of its positions, in its order.
elementsAt(s, P) == FlattenSeq([k \in DOMAIN s |-> IF k \in P THEN <<s[k]>> ELSE <<>>])

\* Subgraph: the Go maps are ranged over in any order, so the order of the
\* reverse edges is one of many.  Library usage is not carried over.
Subgraph(G, ids) ==
  LET kept == ids \cap G.nodes
      edges == [i \in IDs |-> IF i \in kept THEN elementsAt(G.edges[i], {k \in DOMAIN G.edges[i] : G.edges[i][k] \in kept})
                              ELSE <<>>]
  IN  [NewDependencyGraph EXCEPT !.nodes = kept, !.edges = edges,
                                 !.reverseEdges = [i \in IDs |-> SetToSeq({from \in kept : Contains(edges[from], i)})]]

\* Mutant: only what the module names itself.
ScopeToNeighbours(G, m, showDependents) ==
  Subgraph(G, {m} \cup IF showDependents THEN ToSet(G.reverseEdges[m]) ELSE ToSet(G.edges[m]))

ScopeToModule(G, m, showDependents) ==
  Subgraph(G, {m} \cup IF showDependents THEN GetAllDependents(G, m)
                                         ELSE GetAllDependencies(G, m))

-----------------------------------------------------------------------------
\* Mutant: nodes are taken first in, first out.
TopologicalSortQueue(G) ==
  LET release(q, node) ==
        FoldLeft(LAMBDA acc, d :
                   [deg  |-> [acc.deg EXCEPT ![d] = @ - 1],
                    heap |-> IF acc.deg[d] = 1 THEN Append(acc.heap, d) ELSE acc.heap],
                 q, G.reverseEdges[node])
      pop[st \in [deg : [IDs -> Nat], heap : Seq(IDs), order : Seq(IDs)]] ==
        IF st.heap = <<>> THEN st.order
        ELSE LET next == release([deg |-> st.deg, heap |-> Tail(st.heap)], Head(st.heap))
             IN  pop[[deg |-> next.deg, heap |-> next.heap, order |-> Append(st.order, Head(st.heap))]]
      degree == [i \in IDs |-> Len(G.edges[i])]
      order  == pop[[deg |-> degree, order |-> <<>>,
                     heap |-> SetToSortSeq({i \in G.nodes : degree[i] = 0}, <)]]
  IN  [ok |-> Len(order) = Cardinality(G.nodes), order |-> order]

\* TopologicalSort: Kahn's algorithm; the heap yields the least ready ID.  Each
\* ID enters it once, so that it is empty after as many turns as there are IDs.
TopologicalSort(G) ==
  LET degree == [i \in IDs |-> Len(G.edges[i])]
      start  == [inDegree |-> degree, heap |-> {i \in G.nodes : degree[i] = 0}, result |-> <<>>]
      pop(st) ==
        LET node == Min(st.heap)
            users == ToSet(G.reverseEdges[node])    \* each once (AddEdge)
            inDegree == [i \in IDs |-> IF i \in users THEN st.inDegree[i] - 1 ELSE st.inDegree[i]]
            ready == {i \in users : inDegree[i] = 0}
        IN  [inDegree |-> inDegree, heap |-> (st.heap \ {node}) \cup ready,
             result |-> Append(st.result, node)]
      turn[k \in 0..Cardinality(IDs)] ==
        IF k = 0 THEN start
        ELSE LET st == turn[k - 1] IN IF st.heap = {} THEN st ELSE pop(st)
      result == turn[Cardinality(IDs)].result
  IN  [ok |-> Len(result) = Cardinality(G.nodes), order |-> result]

\* The level of every module, in one pass over the sorted modules.
levelsOf(G) ==
  FoldLeft(LAMBDA levels, m :
             [levels EXCEPT ![m] = Max({0} \cup {levels[d] + 1 : d \in ToSet(G.edges[m])})],
           [i \in IDs |-> 0], TopologicalSort(G).order)

\* ExecutionLevels of an acyclic graph; of an empty one, a single empty level.
ExecutionLevels(G) ==
  LET levels == levelsOf(G)
  IN  [l \in 1..(1 + Max({0} \cup {levels[m] : m \in G.nodes})) |->
         {m \in G.nodes : levels[m] = l - 1}]
=============================================================================
