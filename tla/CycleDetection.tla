--------------------------- MODULE CycleDetection ---------------------------
(***************************************************************************)
(* DependencyGraph.DetectCycles: a depth-first search that reports the     *)
(* path back to a node it is still visiting.  The outer loop ranges over   *)
(* the nodes of a Go map, so the roots come in any order.  The recursive   *)
(* dfs is its call stack: path holds the nodes being visited, at the       *)
(* number of edges each of them has looked at.  The graph is one that      *)
(* BuildFromDependencies returned.                                         *)
(***************************************************************************)
EXTENDS GraphBuild

VARIABLES
  visited,  \* nodes dfs has entered
  path,     \* nodes on the recursion stack, the outermost first
  at,       \* per entry of path, edges looked at
  cycles    \* the result so far

searchVars == <<visited, path, at, cycles>>

graphVars == <<buildVars, searchVars>>

GraphInit ==
  /\ BuildInit
  /\ visited = {}
  /\ path = <<>>
  /\ at = <<>>
  /\ cycles = <<>>

\* DetectCycles is called.
CallDetectCycles ==
  /\ phase = "built"
  /\ phase' = "searching"
  /\ UNCHANGED <<input, todo, G, searchVars>>

enter(node) ==
  /\ visited' = visited \cup {node}
  /\ path' = Append(path, node)

StartRoot(node) ==
  /\ phase = "searching"
  /\ path = <<>>
  /\ node \in G.nodes \ visited
  /\ enter(node)
  /\ at' = <<0>>
  /\ UNCHANGED <<buildVars, cycles>>

out       == G.edges[Last(path)]          \* edges of the node being visited
neighbor  == out[Last(at) + 1]
looked    == [at EXCEPT ![Len(at)] = @ + 1]
recStack  == ToSet(path)

Descend ==
  /\ path # <<>> /\ Last(at) < Len(out)
  /\ neighbor \notin visited
  /\ enter(neighbor)
  /\ at' = Append(looked, 0)
  /\ UNCHANGED <<buildVars, cycles>>

\* Mutant: only the way back to the root is a cycle.
ReportOrSkipFromRoot ==
  /\ path # <<>> /\ Last(at) < Len(out)
  /\ neighbor \in visited
  /\ at' = looked
  /\ cycles' = IF neighbor = path[1] THEN Append(cycles, path) ELSE cycles
  /\ UNCHANGED <<buildVars, visited, path>>

\* A visited neighbor: a cycle when it is on the stack, nothing otherwise.
ReportOrSkip ==
  /\ path # <<>> /\ Last(at) < Len(out)
  /\ neighbor \in visited
  /\ at' = looked
  /\ cycles' = IF neighbor \notin recStack THEN cycles
               ELSE LET start == SelectInSeq(path, LAMBDA n : n = neighbor)   \* findIndex
                    IN  Append(cycles, SubSeq(path, start, Len(path)))
  /\ UNCHANGED <<buildVars, visited, path>>

Leave ==
  /\ path # <<>> /\ Last(at) = Len(out)
  /\ path' = Front(path)
  /\ at' = Front(at)
  /\ UNCHANGED <<buildVars, visited, cycles>>

Search == (\E node \in IDs : StartRoot(node)) \/ Descend \/ ReportOrSkip \/ Leave

GraphNext ==
  \/ Build /\ UNCHANGED searchVars
  \/ CallDetectCycles
  \/ Search

GraphSpec == GraphInit /\ [][GraphNext]_graphVars

-----------------------------------------------------------------------------
(* Properties *)

Returned == phase = "searching" /\ path = <<>> /\ visited = G.nodes

isCycle(c) ==
  /\ c # <<>>
  /\ Cardinality(ToSet(c)) = Len(c)
  /\ \A i \in DOMAIN c : Contains(G.edges[c[i]], c[(i % Len(c)) + 1])

\* What is reported is a cycle: each module depends on the next, the last on
\* the first, none twice (algorithms.go:106-112).
EachReportIsACycle == \A c \in ToSet(cycles) : isCycle(c)

rotations(c) == {SubSeq(c, i, Len(c)) \o SubSeq(c, 1, i - 1) : i \in DOMAIN c}

\* No cycle is reported twice, at another of its modules either: CycleCount
\* (stats.go:64-66) counts different cycles.
NoCycleTwice ==
  \A i, j \in DOMAIN cycles : cycles[i] \in rotations(cycles[j]) => i = j

\* What generate, validate and graph report (DetectCycles) are different cycles
\* of the graph, and there are none exactly when the sort behind every pipeline
\* succeeds, from whichever nodes the search starts.
CyclesAgreeWithSort ==
  /\ EachReportIsACycle
  /\ NoCycleTwice
  /\ Returned => (cycles = <<>> <=> TopologicalSort(G).ok)
=============================================================================
