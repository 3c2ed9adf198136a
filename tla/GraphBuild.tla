----------------------------- MODULE GraphBuild -----------------------------
(***************************************************************************)
(* graph.BuildFromDependencies and what its readers get.  The dependencies *)
(* are ranged over as a Go map, in an order that differs from one run of   *)
(* the program to the next; a pipeline must not.                           *)
(***************************************************************************)
EXTENDS DependencyGraph

CONSTANT Inputs   \* the pairs [modules, deps] BuildFromDependencies is called with

VARIABLES
  input,   \* its arguments
  phase,   \* "building", "built"; what uses the graph adds its own
  todo,    \* modules of deps not yet ranged over
  G        \* the graph so far

buildVars == <<input, phase, todo, G>>

BuildInit ==
  /\ input \in Inputs
  /\ phase = "building"
  /\ todo = DOMAIN input.deps
  /\ G = FoldLeft(AddNode, NewDependencyGraph, input.modules)

AddModuleDependencies(m) ==
  /\ phase = "building"
  /\ m \in todo
  /\ todo' = todo \ {m}
  /\ G' = AddDependencies(G, m, input.deps[m])
  /\ UNCHANGED <<input, phase>>

ReturnGraph ==
  /\ phase = "building"
  /\ todo = {}
  /\ phase' = "built"
  /\ UNCHANGED <<input, todo, G>>

Build == ReturnGraph \/ \E m \in IDs : AddModuleDependencies(m)

-----------------------------------------------------------------------------
(* Reference definitions, from the input alone.                             *)

Known == ToSet(input.modules)

Edges == {e \in Known \X Known : e[1] \in DOMAIN input.deps
                                 /\ e[2] \in ToSet(input.deps[e[1]].dependsOn)}

\* <<m, n>>: a path of edges leads from m to n (Warshall).
Reach ==
  LET through(x, R) == R \cup {p \in Known \X Known : <<p[1], x>> \in R /\ <<x, p[2]>> \in R}
  IN  FoldSet(through, Edges, Known)

Acyclic == \A m \in Known : <<m, m>> \notin Reach

\* The number of edges of the longest chain below m, in an acyclic graph.
height[m \in IDs] == Max({0} \cup {height[n] + 1 : n \in {n \in Known : <<m, n>> \in Edges}})

\* The order a run must follow: of the modules whose dependencies are all
\* placed, the least one comes next.
canonical ==
  LET ready(placed) ==
        {m \in Known \ placed : \A n \in Known : <<m, n>> \in Edges => n \in placed}
  IN  FoldLeft(LAMBDA order, m : Append(order, Min(ready(ToSet(order)))), <<>>, SetToSeq(Known))

Built == phase = "built"

(* Properties *)

\* The sort fails exactly when the modules depend on each other in a cycle, and
\* otherwise yields one order, whatever the order in which the maps were ranged
\* over (algorithms.go:11-50): generated pipelines are reproducible.
SortIsCanonical ==
  Built => LET sorted == TopologicalSort(G)
           IN  /\ sorted.ok <=> Acyclic
               /\ sorted.ok => sorted.order = canonical

\* A module's level is the length of the longest chain of dependencies below
\* it: never too early, and no later than needed (algorithms.go:54-87).
LevelsAreLongestChains ==
  Built /\ Acyclic =>
    LET levels == ExecutionLevels(G)
    IN  \A m \in Known : {l \in DOMAIN levels : m \in levels[l]} = {height[m] + 1}

\* The two ways of ordering the modules, for a sequence and for groups.
OrdersAreCanonical == SortIsCanonical /\ LevelsAreLongestChains

\* A graph scoped to a module and its dependencies sorts and layers them the
\* way the whole graph does (dependency.go:202-242): looking at one module
\* never shows an order that a full run would not follow.
ScopeAgreesWithGraph ==
  Built /\ Acyclic =>
    LET sorted == TopologicalSort(G).order
        levels == ExecutionLevels(G)
    IN  \A m \in Known :
          LET scope  == ScopeToModule(G, m, FALSE)
              within == ExecutionLevels(scope)
          IN  /\ TopologicalSort(scope).order = SelectSeq(sorted, LAMBDA n : n \in scope.nodes)
              /\ \A l \in DOMAIN within : within[l] = levels[l] \cap scope.nodes
=============================================================================
